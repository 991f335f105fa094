---------------------------- MODULE DriverClaims ----------------------------
(***************************************************************************)
(* Proofs about module Driver, for any bus, any set of claims and foreign  *)
(* mdevs, and any set of injected failures: the types, then the claim      *)
(* lifecycle, which is safe whatever fails.  ClaimInv is an invariant, and *)
(* with it the properties about allocations and mdevs.                     *)
(***************************************************************************)
EXTENDS Driver, FiniteSetTheorems, TLAPS

-----------------------------------------------------------------------------
(* The matrix constraint *)

\* What collectAllocatedAPQNs checks by counting: the cross product of the
\* adapters and the domains of an allocation is the allocation itself.
LEMMA CrossProduct ==
    ASSUME NEW s \in Specs, MatrixConstraint(s)
    PROVE  apids(s) \X apqis(s) = s.devices
<1> DEFINE A == apids(s)
           D == apqis(s)
           P == A \X D
<1>1. s.devices \subseteq Queues /\ Queues \subseteq Adapters \X Domains
  BY Zenon, SysfsAssumption, DeviceStateAssumption DEF ClaimSpec
<1>2. s.devices \subseteq P
  BY Zenon, <1>1 DEF apids, apqis
<1>3. A \subseteq Adapters /\ D \subseteq Domains
  BY Zenon, <1>1 DEF apids, apqis
<1>4. IsFiniteSet(A) /\ IsFiniteSet(D)
  BY Zenon, <1>3, FS_Subset, SysfsAssumption
<1>5. IsFiniteSet(P) /\ Cardinality(P) = Cardinality(A) * Cardinality(D)
  BY Zenon, <1>4, FS_Product
<1>6. Cardinality(P) = Cardinality(s.devices)
  BY Zenon, <1>5 DEF MatrixConstraint
<1> QED
  BY Zenon, <1>2, <1>5, <1>6, FS_Subset

-----------------------------------------------------------------------------
(* Type correctness *)

USE DEF vars, sysfsVars, queueVars, mdevVars, bindingVars, claimVars, fileVars, fixedVars

\* The placeholder spec of a free claim is one of Specs.
LEMMA DefaultInSpecs == DefaultSpec \in Specs
BY Zenon, DeviceStateAssumption DEF DefaultSpec

\* An allocation names queues of the bus.
LEMMA DevicesAreQueues == ASSUME NEW s \in Specs PROVE s.devices \subseteq Queues
BY Zenon, DeviceStateAssumption DEF ClaimSpec

\* One assign write adds one member to one mask.
LEMMA MaskExtended ==
    ASSUME NEW U, NEW S, NEW mask \in [U -> SUBSET S], NEW u \in U, NEW x \in S
    PROVE  [mask EXCEPT ![u] = @ \cup {x}] \in [U -> SUBSET S]
OBVIOUS

\* A node before driver.New first runs is a state of the right type.
LEMMA TypeInit == Init => TypeOK
<1> SUFFICES ASSUME Init PROVE TypeOK
  OBVIOUS
<1>1. SysfsTypeOK
  BY Zenon, SysfsAssumption DEF Init, SysfsInit, SysfsTypeOK, Overrides, Uuids
<1>2. BindingTypeOK
  BY Zenon DEF Init, BindingTypeOK, Ops
<1>3. DeviceStateTypeOK
  BY Zenon, DefaultInSpecs DEF Init, DeviceStateTypeOK, Phases, Steps
<1> QED
  BY Zenon, <1>1, <1>2, <1>3 DEF TypeOK

\* Every step of the claim lifecycle keeps the types, given the inductive invariant.
LEMMA TypeStep == ClaimInv /\ Next => TypeOK'
<1> SUFFICES ASSUME ClaimInv, Next PROVE TypeOK'
  OBVIOUS
<1> USE DEF TypeOK, SysfsTypeOK, BindingTypeOK, DeviceStateTypeOK, Drivers, Overrides,
            Ops, Phases, Steps, PrepareSteps, UnprepareSteps, ReturnSteps, StartupSteps
<1>1. ASSUME NEW q \in Queues, NEW ok \in BOOLEAN, SetOverride(q, ok), UNCHANGED claimVars
      PROVE  TypeOK'
  BY Zenon, <1>1 DEF ClaimInv, SetOverride, Rollback
<1>2. ASSUME NEW ok \in BOOLEAN, UnbindForVFIOAP(ok), UNCHANGED claimVars
      PROVE  TypeOK'
  BY Zenon, <1>2 DEF ClaimInv, UnbindForVFIOAP, Rollback, OperationOK
<1>3. ASSUME NEW ok \in BOOLEAN, ProbeForVFIOAP(ok), UNCHANGED claimVars
      PROVE  TypeOK'
  <2>1. SysfsTypeOK'
    BY Zenon, <1>3 DEF ClaimInv, ProbeForVFIOAP, Rollback, Probed, OperationOK
  <2>2. BindingTypeOK'
    BY <1>3 DEF ClaimInv, ProbeForVFIOAP, Rollback, Probed, OperationOK
  <2>3. DeviceStateTypeOK'
    BY Zenon, <1>3 DEF ClaimInv, ProbeForVFIOAP, Rollback, Probed, OperationOK
  <2> QED
    BY Zenon, <2>1, <2>2, <2>3
<1>4. ASSUME NEW q \in Queues, NEW ok \in BOOLEAN, UnbindForZcrypt(q, ok), UNCHANGED claimVars
      PROVE  TypeOK'
  BY Zenon, <1>4 DEF ClaimInv, UnbindForZcrypt, BackToLoop
<1>5. ASSUME NEW ok \in BOOLEAN, ClearOverride(ok), UNCHANGED claimVars
      PROVE  TypeOK'
  BY Zenon, <1>5 DEF ClaimInv, ClearOverride, BackToLoop
<1>6. ASSUME NEW ok \in BOOLEAN, ProbeForZcrypt(ok), UNCHANGED claimVars
      PROVE  TypeOK'
  BY Zenon, <1>6 DEF ClaimInv, ProbeForZcrypt, BackToLoop, Probed
<1>7. ASSUME NEW ok \in BOOLEAN, RestoreMarker(ok), UNCHANGED claimVars
      PROVE  TypeOK'
  BY Zenon, <1>7 DEF ClaimInv, RestoreMarker, BackToLoop
<1>8. ASSUME SwitchDeadline, UNCHANGED claimVars
      PROVE  TypeOK'
  BY Zenon, <1>8 DEF ClaimInv, SwitchDeadline, Rollback
<1>9. ASSUME SwitchDone, UNCHANGED claimVars
      PROVE  TypeOK'
  BY Zenon, <1>9 DEF ClaimInv, SwitchDone
<1>10. ASSUME DrainOrphanedVFIOAP, UNCHANGED claimVars
      PROVE  TypeOK'
  BY Zenon, <1>10 DEF ClaimInv, DrainOrphanedVFIOAP, Drained
<1>11. ASSUME NEW ok \in BOOLEAN, DestroyPartial(ok)
      PROVE  TypeOK'
  <2>1. claim \in Claims /\ claim \in Uuids
    BY Zenon, <1>11 DEF ClaimInv, OperationOK, DestroyPartial, Uuids
  <2>2. SysfsTypeOK'
    BY Zenon, <1>11, <2>1 DEF ClaimInv, DestroyPartial, Destroy, RemoveMdev, Finish, DestroySucceeds
  <2> spec[claim].devices \subseteq Queues
    BY Zenon, <2>1, DevicesAreQueues DEF ClaimInv
  <2>3. BindingTypeOK'
    BY Zenon, <1>11, <2>1 DEF ClaimInv, DestroyPartial, Destroy, RemoveMdev, Finish, DestroySucceeds
  <2>4. DeviceStateTypeOK'
    BY Zenon, <1>11, <2>1 DEF ClaimInv, DestroyPartial, Destroy, RemoveMdev, Finish, DestroySucceeds
  <2> QED
    BY Zenon, <2>2, <2>3, <2>4
<1>12. ASSUME NEW ok \in BOOLEAN, CreateMdev(ok)
      PROVE  TypeOK'
  <2>1. SysfsTypeOK'
    BY <1>12 DEF ClaimInv, CreateMdev, GoTo, Finish, OperationOK, Uuids
  <2>2. BindingTypeOK'
    BY Zenon, <1>12 DEF ClaimInv, CreateMdev, GoTo, Finish, OperationOK, Uuids
  <2>3. DeviceStateTypeOK'
    BY Zenon, <1>12 DEF ClaimInv, CreateMdev, GoTo, Finish, OperationOK, Uuids
  <2> QED
    BY Zenon, <2>1, <2>2, <2>3
<1>13. ASSUME NEW a \in Adapters, NEW ok \in BOOLEAN, AssignAdapter(a, ok)
      PROVE  TypeOK'
  <2>1. claim \in Claims /\ claim \in Uuids
    BY Zenon, <1>13 DEF ClaimInv, OperationOK, AssignAdapter, Uuids
  <2>2. SysfsTypeOK'
    <3>1. [apm EXCEPT ![claim] = @ \cup {a}] \in [Uuids -> SUBSET Adapters]
      BY Zenon, <2>1, MaskExtended DEF ClaimInv
    <3>2. apm' \in [Uuids -> SUBSET Adapters]
      BY Zenon, <1>13, <3>1 DEF ClaimInv, AssignAdapter
    <3> QED
      BY Zenon, <1>13, <3>2 DEF ClaimInv, AssignAdapter
  <2>3. BindingTypeOK'
    BY Zenon, <1>13, <2>1 DEF ClaimInv, AssignAdapter, AssignSucceeds, GoTo
  <2>4. DeviceStateTypeOK'
    BY Zenon, <1>13, <2>1 DEF ClaimInv, AssignAdapter, AssignSucceeds, GoTo
  <2> QED
    BY Zenon, <2>2, <2>3, <2>4
<1>14. ASSUME NEW d \in Domains, NEW ok \in BOOLEAN, AssignDomain(d, ok)
      PROVE  TypeOK'
  <2>1. claim \in Claims /\ claim \in Uuids
    BY Zenon, <1>14 DEF ClaimInv, OperationOK, AssignDomain, Uuids
  <2>2. SysfsTypeOK'
    <3>1. [aqm EXCEPT ![claim] = @ \cup {d}] \in [Uuids -> SUBSET Domains]
      BY Zenon, <2>1, MaskExtended DEF ClaimInv
    <3>2. aqm' \in [Uuids -> SUBSET Domains]
      BY Zenon, <1>14, <3>1 DEF ClaimInv, AssignDomain
    <3> QED
      BY Zenon, <1>14, <3>2 DEF ClaimInv, AssignDomain
  <2>3. BindingTypeOK'
    BY Zenon, <1>14, <2>1 DEF ClaimInv, AssignDomain, AssignSucceeds, GoTo
  <2>4. DeviceStateTypeOK'
    BY <1>14, <2>1 DEF ClaimInv, AssignDomain, AssignSucceeds, GoTo
  <2> QED
    BY Zenon, <2>2, <2>3, <2>4
<1>15. ASSUME NEW d \in Domains, NEW ok \in BOOLEAN, AssignControlDomain(d, ok)
      PROVE  TypeOK'
  <2>1. claim \in Claims /\ claim \in Uuids
    BY Zenon, <1>15 DEF ClaimInv, OperationOK, AssignControlDomain, Uuids
  <2>2. SysfsTypeOK'
    <3>1. [adm EXCEPT ![claim] = @ \cup {d}] \in [Uuids -> SUBSET Domains]
      BY Zenon, <2>1, MaskExtended DEF ClaimInv
    <3>2. adm' \in [Uuids -> SUBSET Domains]
      BY Zenon, <1>15, <3>1 DEF ClaimInv, AssignControlDomain
    <3> QED
      BY Zenon, <1>15, <3>2 DEF ClaimInv, AssignControlDomain
  <2>3. BindingTypeOK'
    BY Zenon, <1>15, <2>1 DEF ClaimInv, AssignControlDomain, AssignSucceeds, GoTo
  <2>4. DeviceStateTypeOK'
    BY Zenon, <1>15, <2>1 DEF ClaimInv, AssignControlDomain, AssignSucceeds, GoTo
  <2> QED
    BY Zenon, <2>2, <2>3, <2>4
<1>16. ASSUME NEW ok \in BOOLEAN, DestroyPartialMdev(ok)
      PROVE  TypeOK'
  BY Zenon, <1>16 DEF ClaimInv, DestroyPartialMdev, Destroy, RemoveMdev, Finish, DestroySucceeds
<1>17. ASSUME NEW ok \in BOOLEAN, GenerateClaimMetadata(ok)
      PROVE  TypeOK'
  <2>1. claim \in Claims /\ claim \in Uuids
    BY Zenon, <1>17 DEF ClaimInv, OperationOK, GenerateClaimMetadata, Uuids
  <2>2. SysfsTypeOK'
    BY Zenon, <1>17, <2>1 DEF ClaimInv, GenerateClaimMetadata, GoTo, Finish
  <2>3. BindingTypeOK'
    BY <1>17, <2>1 DEF ClaimInv, GenerateClaimMetadata, GoTo, Finish
  <2>4. DeviceStateTypeOK'
    BY Zenon, <1>17, <2>1 DEF ClaimInv, GenerateClaimMetadata, GoTo, Finish
  <2> QED
    BY Zenon, <2>2, <2>3, <2>4
<1>18. ASSUME NEW ok \in BOOLEAN, GenerateClaimSpec(ok)
      PROVE  TypeOK'
  <2>1. claim \in Claims /\ claim \in Uuids
    BY <1>18 DEF ClaimInv, OperationOK, GenerateClaimSpec, Uuids
  <2>2. SysfsTypeOK'
    BY Zenon, <1>18, <2>1 DEF ClaimInv, GenerateClaimSpec, Finish
  <2>3. BindingTypeOK'
    BY <1>18, <2>1 DEF ClaimInv, GenerateClaimSpec, Finish
  <2>4. DeviceStateTypeOK'
    BY Zenon, <1>18, <2>1 DEF ClaimInv, GenerateClaimSpec, Finish
  <2> QED
    BY Zenon, <2>2, <2>3, <2>4
<1>19. ASSUME NEW ok \in BOOLEAN, DeleteClaimMetadata(ok)
      PROVE  TypeOK'
  BY Zenon, <1>19 DEF ClaimInv, DeleteClaimMetadata, GoTo
<1>20. ASSUME NEW ok \in BOOLEAN, ReadMatrix(ok)
      PROVE  TypeOK'
  <2>1. ASSUME claim \in mdevs
        PROVE  Matrix(claim) \subseteq Queues
    <3>1. claim \in Claims
      BY Zenon, <1>20 DEF ClaimInv, OperationOK, ReadMatrix
    <3>2. spec[claim] \in Specs /\ MatrixConstraint(spec[claim])
      BY <2>1, <3>1 DEF ClaimInv, MdevsOK
    <3>3. Matrix(claim) \subseteq apids(spec[claim]) \X apqis(spec[claim])
      BY Zenon, <2>1, <3>1 DEF ClaimInv, MdevsOK, Matrix
    <3>4. Matrix(claim) \subseteq spec[claim].devices
      BY <3>2, <3>3, CrossProduct
    <3> QED
      BY <3>2, <3>4, DevicesAreQueues
  <2> QED
    BY Zenon, <1>20, <2>1 DEF ClaimInv, ReadMatrix
<1>21. ASSUME NEW ok \in BOOLEAN, UnprepareDestroy(ok)
      PROVE  TypeOK'
  BY Zenon, <1>21 DEF ClaimInv, UnprepareDestroy, Destroy, RemoveMdev, GoTo, Finish, Released,
              DestroySucceeds
<1>22. ASSUME NEW ok \in BOOLEAN, GCStaleClaimSpecs(ok)
      PROVE  TypeOK'
  BY <1>22 DEF ClaimInv, GCStaleClaimSpecs, Collected, GoTo
<1>23. ASSUME NEW ok \in BOOLEAN, GCStaleClaimMetadata(ok)
      PROVE  TypeOK'
  BY <1>23 DEF ClaimInv, GCStaleClaimMetadata, Collected, GoTo
<1>24. ASSUME NEW ok \in BOOLEAN, InitialScan(ok)
      PROVE  TypeOK'
  <2>1. claim \notin Claims
    BY Zenon, <1>24 DEF ClaimInv, OperationOK, InitialScan
  <2>2. \A found \in Scanned : found \subseteq Queues
    BY DEF Scanned
  <2>3. allocatable' \subseteq Queues
    BY Zenon, <1>24, <2>2 DEF InitialScan, Stopped
  <2>4. CASE ok
    BY Zenon, <1>24, <2>1, <2>3, <2>4 DEF ClaimInv, InitialScan, Finish
  <2>5. CASE ~ok
    BY Zenon, <1>24, <2>3, <2>5 DEF ClaimInv, InitialScan, Stopped
  <2> QED
    BY <2>4, <2>5
<1>25. ASSUME ReturnDone
      PROVE  TypeOK'
  BY Zenon, <1>25 DEF ClaimInv, ReturnDone, Finish, Released, GoTo
<1>26. ASSUME NEW c \in Claims, PrepareRejects(c)
      PROVE  TypeOK'
  BY Zenon, <1>26 DEF ClaimInv, PrepareRejects, Begins
<1>27. ASSUME NEW c \in Claims, PrepareContainer(c)
      PROVE  TypeOK'
  <2>1. SysfsTypeOK'
    BY Zenon, <1>27 DEF ClaimInv, PrepareContainer, Begins
  <2>2. BindingTypeOK'
    BY <1>27 DEF ClaimInv, PrepareContainer, Begins
  <2>3. DeviceStateTypeOK'
    BY Zenon, <1>27 DEF ClaimInv, PrepareContainer, Begins
  <2> QED
    BY Zenon, <2>1, <2>2, <2>3
<1>28. ASSUME NEW c \in Claims, PrepareVM(c)
      PROVE  TypeOK'
  BY Zenon, <1>28 DEF ClaimInv, PrepareVM, Begins, ServableVM, Accepted
<1>29. ASSUME NEW c \in Claims, NEW ok \in BOOLEAN, UnprepareBegins(c, ok)
      PROVE  TypeOK'
  BY Zenon, <1>29 DEF ClaimInv, UnprepareBegins
<1>30. ASSUME NEW c \in Claims, Deallocate(c)
      PROVE  TypeOK'
  <2>1. SysfsTypeOK'
    BY Zenon, <1>30, DefaultInSpecs DEF ClaimInv, Deallocate
  <2>2. BindingTypeOK'
    BY <1>30, DefaultInSpecs DEF ClaimInv, Deallocate
  <2>3. DeviceStateTypeOK'
    BY Zenon, <1>30, DefaultInSpecs DEF ClaimInv, Deallocate
  <2> QED
    BY <2>1, <2>2, <2>3
<1>31. ASSUME NEW c \in Claims, NEW s \in Specs, Allocate(c, s)
      PROVE  TypeOK'
  <2>1. SysfsTypeOK'
    BY Zenon, <1>31 DEF ClaimInv, Allocate
  <2>2. BindingTypeOK'
    BY <1>31 DEF ClaimInv, Allocate
  <2>3. DeviceStateTypeOK'
    BY Zenon, <1>31 DEF ClaimInv, Allocate
  <2> QED
    BY <2>1, <2>2, <2>3
<1>32. ASSUME Start
      PROVE  TypeOK'
  BY <1>32, DeviceStateAssumption DEF ClaimInv, Start
<1>33. ASSUME Rescan
      PROVE  TypeOK'
  BY Zenon, <1>33 DEF ClaimInv, Rescan, Scanned
<1>34. ASSUME Crash
      PROVE  TypeOK'
  BY Zenon, <1>34 DEF ClaimInv, Crash, Stopped
<1>35. ASSUME NEW u \in Uuids, ExternalRemove(u)
      PROVE  TypeOK'
  <2>1. SysfsTypeOK'
    BY <1>35 DEF ClaimInv, ExternalRemove, RemoveMdev
  <2>2. BindingTypeOK'
    BY Zenon, <1>35 DEF ClaimInv, ExternalRemove, RemoveMdev
  <2>3. DeviceStateTypeOK'
    BY <1>35 DEF ClaimInv, ExternalRemove, RemoveMdev
  <2> QED
    BY Zenon, <2>1, <2>2, <2>3
<1>36. ASSUME WriteMasks
      PROVE  TypeOK'
  <2>1. SysfsTypeOK'
    BY <1>36 DEF ClaimInv, WriteMasks
  <2>2. BindingTypeOK'
    BY Zenon, <1>36 DEF ClaimInv, WriteMasks
  <2>3. DeviceStateTypeOK'
    BY <1>36 DEF ClaimInv, WriteMasks
  <2> QED
    BY <2>1, <2>2, <2>3
<1>37. ASSUME NEW c \in Claims, PrepareUnread(c)
      PROVE  TypeOK'
  BY Zenon, <1>37 DEF ClaimInv, PrepareUnread, RemoveMdev, Begins
<1> QED
  BY Zenon, <1>1, <1>2, <1>3, <1>4, <1>5, <1>6, <1>7, <1>8, <1>9, <1>10, <1>11, <1>12, <1>13, <1>14,
     <1>15, <1>16, <1>17, <1>18, <1>19, <1>20, <1>21, <1>22, <1>23, <1>24, <1>25, <1>26,
     <1>27, <1>28, <1>29, <1>30, <1>31, <1>32, <1>33, <1>34, <1>35, <1>36, <1>37
  DEF Next, Progress, Call, Step, SwitchStep

-----------------------------------------------------------------------------
(* The running operation *)

\* The claim of no operation is none of the claims.
LEMMA NoClaimIsNone == NoClaim \notin Claims
BY Zenon, DeviceStateAssumption DEF Uuids

\* The return of an RPC leaves the driver idle, working on nothing.
LEMMA FinishOperation == ASSUME NEW p, Finish(p) PROVE OperationOK' /\ SwitchesWithoutMdev'
BY Zenon, NoClaimIsNone DEF Finish, OperationOK, SwitchesWithoutMdev, PrepareSteps, UnprepareSteps,
                     ReturnSteps, StartupSteps

\* So does the end of the process.
LEMMA StoppedOperation == Stopped => OperationOK' /\ SwitchesWithoutMdev'
BY Zenon, NoClaimIsNone DEF Stopped, OperationOK, SwitchesWithoutMdev, PrepareSteps, UnprepareSteps,
                     ReturnSteps, StartupSteps

\* Every step leaves the operation with the step, claim and queue it works on.
LEMMA OperationStep == ClaimInv /\ Next => OperationOK'
<1> SUFFICES ASSUME ClaimInv, Next PROVE OperationOK'
  OBVIOUS
<1> USE DEF OperationOK, PrepareSteps, UnprepareSteps, StartupSteps
<1>1. ASSUME NEW q \in Queues, NEW ok \in BOOLEAN, SetOverride(q, ok), UNCHANGED claimVars
      PROVE  OperationOK'
  BY Zenon, <1>1 DEF ClaimInv, TypeOK, DeviceStateTypeOK, SetOverride, Rollback
<1>2. ASSUME NEW ok \in BOOLEAN, UnbindForVFIOAP(ok), UNCHANGED claimVars
      PROVE  OperationOK'
  BY Zenon, <1>2 DEF ClaimInv, TypeOK, DeviceStateTypeOK, UnbindForVFIOAP, Rollback
<1>3. ASSUME NEW ok \in BOOLEAN, ProbeForVFIOAP(ok), UNCHANGED claimVars
      PROVE  OperationOK'
  BY Zenon, <1>3 DEF ClaimInv, TypeOK, DeviceStateTypeOK, ProbeForVFIOAP, Rollback, Probed
<1>4. ASSUME NEW q \in Queues, NEW ok \in BOOLEAN, UnbindForZcrypt(q, ok), UNCHANGED claimVars
      PROVE  OperationOK'
  BY Zenon, <1>4 DEF ClaimInv, TypeOK, DeviceStateTypeOK, UnbindForZcrypt, BackToLoop
<1>5. ASSUME NEW ok \in BOOLEAN, ClearOverride(ok), UNCHANGED claimVars
      PROVE  OperationOK'
  BY Zenon, <1>5 DEF ClaimInv, TypeOK, DeviceStateTypeOK, ClearOverride, BackToLoop
<1>6. ASSUME NEW ok \in BOOLEAN, ProbeForZcrypt(ok), UNCHANGED claimVars
      PROVE  OperationOK'
  BY Zenon, <1>6 DEF ClaimInv, TypeOK, DeviceStateTypeOK, ProbeForZcrypt, BackToLoop, Probed
<1>7. ASSUME NEW ok \in BOOLEAN, RestoreMarker(ok), UNCHANGED claimVars
      PROVE  OperationOK'
  BY Zenon, <1>7 DEF ClaimInv, TypeOK, DeviceStateTypeOK, RestoreMarker, BackToLoop
<1>8. ASSUME SwitchDeadline, UNCHANGED claimVars
      PROVE  OperationOK'
  BY Zenon, <1>8 DEF ClaimInv, TypeOK, DeviceStateTypeOK, SwitchDeadline, Rollback
<1>9. ASSUME SwitchDone, UNCHANGED claimVars
      PROVE  OperationOK'
  BY Zenon, <1>9 DEF ClaimInv, TypeOK, DeviceStateTypeOK, SwitchDone
<1>10. ASSUME DrainOrphanedVFIOAP, UNCHANGED claimVars
      PROVE  OperationOK'
  BY Zenon, <1>10 DEF ClaimInv, TypeOK, DeviceStateTypeOK, DrainOrphanedVFIOAP, Drained
<1>11. ASSUME NEW ok \in BOOLEAN, DestroyPartial(ok)
      PROVE  OperationOK'
  BY Zenon, <1>11, FinishOperation DEF ClaimInv, TypeOK, DeviceStateTypeOK, DestroyPartial, DestroySucceeds
<1>12. ASSUME NEW ok \in BOOLEAN, CreateMdev(ok)
      PROVE  OperationOK'
  BY Zenon, <1>12, FinishOperation DEF ClaimInv, TypeOK, DeviceStateTypeOK, CreateMdev, GoTo
<1>13. ASSUME NEW a \in Adapters, NEW ok \in BOOLEAN, AssignAdapter(a, ok)
      PROVE  OperationOK'
  BY Zenon, <1>13 DEF ClaimInv, TypeOK, DeviceStateTypeOK, AssignAdapter, AssignSucceeds, GoTo
<1>14. ASSUME NEW d \in Domains, NEW ok \in BOOLEAN, AssignDomain(d, ok)
      PROVE  OperationOK'
  BY Zenon, <1>14 DEF ClaimInv, TypeOK, DeviceStateTypeOK, AssignDomain, AssignSucceeds, GoTo
<1>15. ASSUME NEW d \in Domains, NEW ok \in BOOLEAN, AssignControlDomain(d, ok)
      PROVE  OperationOK'
  BY Zenon, <1>15 DEF ClaimInv, TypeOK, DeviceStateTypeOK, AssignControlDomain, AssignSucceeds, GoTo
<1>16. ASSUME NEW ok \in BOOLEAN, DestroyPartialMdev(ok)
      PROVE  OperationOK'
  BY Zenon, <1>16, FinishOperation DEF ClaimInv, TypeOK, DeviceStateTypeOK, DestroyPartialMdev,
     DestroySucceeds
<1>17. ASSUME NEW ok \in BOOLEAN, GenerateClaimMetadata(ok)
      PROVE  OperationOK'
  BY Zenon, <1>17, FinishOperation DEF ClaimInv, TypeOK, DeviceStateTypeOK, GenerateClaimMetadata, GoTo
<1>18. ASSUME NEW ok \in BOOLEAN, GenerateClaimSpec(ok)
      PROVE  OperationOK'
  BY <1>18, FinishOperation DEF ClaimInv, TypeOK, DeviceStateTypeOK, GenerateClaimSpec
<1>19. ASSUME NEW ok \in BOOLEAN, DeleteClaimMetadata(ok)
      PROVE  OperationOK'
  BY Zenon, <1>19 DEF ClaimInv, TypeOK, DeviceStateTypeOK, DeleteClaimMetadata, GoTo
<1>20. ASSUME NEW ok \in BOOLEAN, ReadMatrix(ok)
      PROVE  OperationOK'
  BY <1>20 DEF ClaimInv, TypeOK, DeviceStateTypeOK, ReadMatrix
<1>21. ASSUME NEW ok \in BOOLEAN, UnprepareDestroy(ok)
      PROVE  OperationOK'
  BY Zenon, <1>21, FinishOperation DEF ClaimInv, TypeOK, DeviceStateTypeOK, UnprepareDestroy, GoTo,
     DestroySucceeds
<1>22. ASSUME NEW ok \in BOOLEAN, GCStaleClaimSpecs(ok)
      PROVE  OperationOK'
  BY <1>22 DEF ClaimInv, TypeOK, DeviceStateTypeOK, GCStaleClaimSpecs, Collected, GoTo
<1>23. ASSUME NEW ok \in BOOLEAN, GCStaleClaimMetadata(ok)
      PROVE  OperationOK'
  BY Zenon, <1>23 DEF ClaimInv, TypeOK, DeviceStateTypeOK, GCStaleClaimMetadata, Collected, GoTo
<1>24. ASSUME NEW ok \in BOOLEAN, InitialScan(ok)
      PROVE  OperationOK'
  BY <1>24, FinishOperation, StoppedOperation DEF ClaimInv, TypeOK, DeviceStateTypeOK, InitialScan
<1>25. ASSUME ReturnDone
      PROVE  OperationOK'
  BY Zenon, <1>25, FinishOperation DEF ClaimInv, TypeOK, BindingTypeOK, Ops, DeviceStateTypeOK,
     ReturnSteps, ReturnDone, GoTo
<1>26. ASSUME NEW c \in Claims, PrepareRejects(c)
      PROVE  OperationOK'
  BY Zenon, <1>26 DEF ClaimInv, TypeOK, DeviceStateTypeOK, PrepareRejects, Begins
<1>27. ASSUME NEW c \in Claims, PrepareContainer(c)
      PROVE  OperationOK'
  BY Zenon, <1>27 DEF ClaimInv, TypeOK, DeviceStateTypeOK, PrepareContainer, Begins
<1>28. ASSUME NEW c \in Claims, PrepareVM(c)
      PROVE  OperationOK'
  BY Zenon, <1>28 DEF ClaimInv, TypeOK, DeviceStateTypeOK, PrepareVM, Begins, ServableVM, Accepted
<1>29. ASSUME NEW c \in Claims, NEW ok \in BOOLEAN, UnprepareBegins(c, ok)
      PROVE  OperationOK'
  BY Zenon, <1>29 DEF ClaimInv, TypeOK, DeviceStateTypeOK, UnprepareBegins
<1>30. ASSUME NEW c \in Claims, Deallocate(c)
      PROVE  OperationOK'
  BY Zenon, <1>30 DEF ClaimInv, TypeOK, DeviceStateTypeOK, Deallocate
<1>31. ASSUME NEW c \in Claims, NEW s \in Specs, Allocate(c, s)
      PROVE  OperationOK'
  BY Zenon, <1>31 DEF ClaimInv, TypeOK, DeviceStateTypeOK, Allocate
<1>32. ASSUME Start
      PROVE  OperationOK'
  BY Zenon, <1>32 DEF ClaimInv, TypeOK, DeviceStateTypeOK, Start
<1>33. ASSUME Rescan
      PROVE  OperationOK'
  BY Zenon, <1>33 DEF ClaimInv, TypeOK, DeviceStateTypeOK, Rescan, Scanned
<1>34. ASSUME Crash
      PROVE  OperationOK'
  BY <1>34, StoppedOperation DEF Crash
<1>35. ASSUME NEW u \in Uuids, ExternalRemove(u)
      PROVE  OperationOK'
  BY Zenon, <1>35 DEF ClaimInv, TypeOK, DeviceStateTypeOK, ExternalRemove, RemoveMdev
<1>36. ASSUME WriteMasks
      PROVE  OperationOK'
  BY <1>36 DEF ClaimInv, TypeOK, DeviceStateTypeOK, WriteMasks
<1>37. ASSUME NEW c \in Claims, PrepareUnread(c)
      PROVE  OperationOK'
  BY Zenon, <1>37 DEF ClaimInv, TypeOK, DeviceStateTypeOK, PrepareUnread, Begins
<1> QED
  BY Zenon, <1>1, <1>2, <1>3, <1>4, <1>5, <1>6, <1>7, <1>8, <1>9, <1>10, <1>11, <1>12, <1>13, <1>14,
     <1>15, <1>16, <1>17, <1>18, <1>19, <1>20, <1>21, <1>22, <1>23, <1>24, <1>25, <1>26,
     <1>27, <1>28, <1>29, <1>30, <1>31, <1>32, <1>33, <1>34, <1>35, <1>36, <1>37
  DEF Next, Progress, Call, Step, SwitchStep

-----------------------------------------------------------------------------
(* The mdev of the claim being switched *)

\* The switches and the drain touch neither an mdev nor a claim.
LEMMA SwitchFrame ==
    ASSUME \/ \E ok \in BOOLEAN : SwitchStep(ok)
           \/ SwitchDeadline \/ SwitchDone \/ DrainOrphanedVFIOAP
    PROVE  UNCHANGED mdevVars /\ pc \in {"switch", "vfio_unbind", "vfio_probe", "drain"} \cup ReturnSteps
BY Zenon DEF SwitchStep, SetOverride, UnbindForVFIOAP, ProbeForVFIOAP, UnbindForZcrypt, ClearOverride,
       ProbeForZcrypt, RestoreMarker, SwitchDeadline, SwitchDone, DrainOrphanedVFIOAP, ReturnSteps

\* While an operation runs nothing but a crash comes between its steps: what the
\* scheduler, the administrator and other processes do leaves its state alone,
\* and the mdevs too unless something else removes one.
LEMMA RunsAlone ==
    ASSUME Next, pc \notin {"idle", "down"}
    PROVE  \/ Progress
           \/ Crash
           \/ /\ UNCHANGED <<queueVars, bindingVars, claim, wasVM, fileVars>>
              /\ UNCHANGED mdevVars \/ "external" \in Faults
<1> DEFINE Outside == /\ UNCHANGED <<queueVars, bindingVars, claim, wasVM, fileVars>>
                      /\ UNCHANGED mdevVars \/ "external" \in Faults
<1>1. ASSUME NEW c \in Claims, Call(c)
      PROVE  FALSE
  BY Zenon, <1>1 DEF Call, PrepareRejects, PrepareContainer, PrepareVM, PrepareUnread, UnprepareBegins, Begins
<1>2. ASSUME NEW c \in Claims, Deallocate(c) \/ \E s \in Specs : Allocate(c, s)
      PROVE  Outside
  BY Zenon, <1>2 DEF Deallocate, Allocate
<1>3. ASSUME Start \/ Rescan \/ WriteMasks \/ \E u \in Uuids : ExternalRemove(u)
      PROVE  Outside
  BY <1>3 DEF Start, Rescan, WriteMasks, ExternalRemove
<1> QED
  BY Zenon, <1>1, <1>2, <1>3 DEF Next

\* Every step leaves the claim whose queues are being switched without an mdev.
LEMMA SwitchesStep == ClaimInv /\ Next => SwitchesWithoutMdev'
<1> SUFFICES ASSUME ClaimInv, Next PROVE SwitchesWithoutMdev'
  OBVIOUS
<1> USE DEF SwitchesWithoutMdev, ReturnSteps
<1>1. ASSUME (\E ok \in BOOLEAN : SwitchStep(ok)) \/ SwitchDeadline \/ SwitchDone \/ DrainOrphanedVFIOAP,
             UNCHANGED claimVars
      PROVE  SwitchesWithoutMdev'
  BY Zenon, <1>1, SwitchFrame DEF ClaimInv
<1>2. ASSUME NEW ok \in BOOLEAN, DestroyPartial(ok)
      PROVE  SwitchesWithoutMdev'
  BY Zenon, <1>2, FinishOperation DEF DestroyPartial, Destroy, RemoveMdev
<1>3. ASSUME NEW ok \in BOOLEAN,
             \/ CreateMdev(ok) \/ DestroyPartialMdev(ok)
             \/ GenerateClaimMetadata(ok) \/ GenerateClaimSpec(ok)
      PROVE  SwitchesWithoutMdev'
  BY Zenon, <1>3, FinishOperation DEF CreateMdev, DestroyPartialMdev, GenerateClaimMetadata,
                               GenerateClaimSpec, GoTo
<1>4. ASSUME NEW ok \in BOOLEAN,
             \/ \E a \in Adapters : AssignAdapter(a, ok)
             \/ \E d \in Domains : AssignDomain(d, ok) \/ AssignControlDomain(d, ok)
      PROVE  SwitchesWithoutMdev'
  BY Zenon, <1>4 DEF AssignAdapter, AssignDomain, AssignControlDomain, GoTo
<1>5. ASSUME NEW ok \in BOOLEAN,
             DeleteClaimMetadata(ok) \/ ReadMatrix(ok)
      PROVE  SwitchesWithoutMdev'
  BY Zenon, <1>5 DEF DeleteClaimMetadata, ReadMatrix, GoTo
<1>6. ASSUME NEW ok \in BOOLEAN, UnprepareDestroy(ok)
      PROVE  SwitchesWithoutMdev'
  BY Zenon, <1>6, FinishOperation DEF UnprepareDestroy, Destroy, DestroySucceeds, RemoveMdev, GoTo
<1>7. ASSUME NEW ok \in BOOLEAN,
             GCStaleClaimSpecs(ok) \/ GCStaleClaimMetadata(ok) \/ InitialScan(ok)
      PROVE  SwitchesWithoutMdev'
  BY Zenon, <1>7, FinishOperation, StoppedOperation
  DEF GCStaleClaimSpecs, GCStaleClaimMetadata, InitialScan, GoTo
<1>8. ASSUME ReturnDone
      PROVE  SwitchesWithoutMdev'
  BY Zenon, <1>8, FinishOperation DEF ReturnDone, GoTo
<1>9. ASSUME NEW c \in Claims, NEW ok \in BOOLEAN,
             \/ PrepareRejects(c) \/ PrepareContainer(c) \/ PrepareVM(c) \/ PrepareUnread(c)
             \/ UnprepareBegins(c, ok)
      PROVE  SwitchesWithoutMdev'
  BY Zenon, <1>9 DEF PrepareRejects, PrepareContainer, PrepareVM, PrepareUnread, UnprepareBegins, Begins
<1>10. ASSUME Start
       PROVE  SwitchesWithoutMdev'
  <2>1. claim = NoClaim
    BY Zenon, <1>10 DEF Start, ClaimInv, TypeOK, DeviceStateTypeOK, OperationOK
  <2>2. NoClaim \notin mdevs
    BY Zenon, DeviceStateAssumption DEF ClaimInv, TypeOK, SysfsTypeOK
  <2> QED
    BY <1>10, <2>1, <2>2 DEF Start, ClaimInv
<1>11. ASSUME Rescan
       PROVE  SwitchesWithoutMdev'
  BY Zenon, <1>11 DEF Rescan, ClaimInv
<1>12. ASSUME Crash
       PROVE  SwitchesWithoutMdev'
  BY Zenon, <1>12, StoppedOperation DEF Crash
<1>13. ASSUME NEW c \in Claims, Deallocate(c) \/ \E s \in Specs : Allocate(c, s)
       PROVE  SwitchesWithoutMdev'
  BY <1>13 DEF Deallocate, Allocate, ClaimInv
<1>14. ASSUME NEW u \in Uuids, ExternalRemove(u)
       PROVE  SwitchesWithoutMdev'
  BY Zenon, <1>14 DEF ExternalRemove, RemoveMdev, ClaimInv
<1>15. ASSUME WriteMasks
       PROVE  SwitchesWithoutMdev'
  BY Zenon, <1>15 DEF WriteMasks, ClaimInv
<1> QED
  BY Zenon, <1>15, <1>1, <1>2, <1>3, <1>4, <1>5, <1>6, <1>7, <1>8, <1>9, <1>10, <1>11, <1>12, <1>13, <1>14
  DEF Next, Progress, Call, Step

-----------------------------------------------------------------------------
(* Allocations *)

\* Only the scheduler allocates and deallocates: every other step keeps the
\* specs, and which claims are free.
LEMMA AllocationFrame ==
    ASSUME ClaimInv, Next
    PROVE  \/ \E c \in Claims : Deallocate(c) \/ \E s \in Specs : Allocate(c, s)
           \/ spec' = spec /\ \A c \in Claims : phase'[c] = "free" <=> phase[c] = "free"
<1> DEFINE Kept == spec' = spec /\ \A c \in Claims : phase'[c] = "free" <=> phase[c] = "free"
<1> USE DEF ClaimInv, TypeOK, DeviceStateTypeOK
<1>1. ASSUME UNCHANGED <<phase, spec>> PROVE Kept
  BY Zenon, <1>1
<1>2. ASSUME NEW p \in {"pending", "prepared"}, op = "prepare", Finish(p), spec' = spec PROVE Kept
  BY Zenon, <1>2 DEF Finish, OperationOK
<1>3. ASSUME NEW ok \in BOOLEAN, DestroyPartial(ok) PROVE Kept
  BY Zenon, <1>1, <1>2, <1>3 DEF DestroyPartial, OperationOK, PrepareSteps
<1>4. ASSUME NEW ok \in BOOLEAN, CreateMdev(ok) \/ DestroyPartialMdev(ok) PROVE Kept
  BY Zenon, <1>1, <1>2, <1>4 DEF CreateMdev, DestroyPartialMdev, GoTo, OperationOK, PrepareSteps
<1>5. ASSUME NEW ok \in BOOLEAN, GenerateClaimMetadata(ok) \/ GenerateClaimSpec(ok) PROVE Kept
  BY Zenon, <1>1, <1>2, <1>5 DEF GenerateClaimMetadata, GenerateClaimSpec, GoTo, OperationOK, PrepareSteps
<1>6. ASSUME NEW ok \in BOOLEAN,
             \/ \E a \in Adapters : AssignAdapter(a, ok)
             \/ \E d \in Domains : AssignDomain(d, ok) \/ AssignControlDomain(d, ok)
      PROVE  Kept
  BY Zenon, <1>1, <1>6 DEF AssignAdapter, AssignDomain, AssignControlDomain, GoTo
<1>7. ASSUME NEW ok \in BOOLEAN, DeleteClaimMetadata(ok) \/ ReadMatrix(ok) PROVE Kept
  BY Zenon, <1>1, <1>7 DEF DeleteClaimMetadata, ReadMatrix, GoTo
<1>8. ASSUME NEW ok \in BOOLEAN, UnprepareDestroy(ok) PROVE Kept
  <2>1. ASSUME Finish("pending"), claim \in mdevs PROVE phase'[claim] # "free" /\ phase[claim] # "free"
    BY Zenon, <1>8, <2>1 DEF Finish, MdevsOK, OperationOK, UnprepareDestroy, UnprepareSteps
  <2>2. CASE Finish(Released)
    BY Zenon, <1>8, <2>2 DEF Finish, Released, UnprepareDestroy
  <2>3. CASE Finish("pending") /\ claim \in mdevs
    BY Zenon, <1>8, <2>1, <2>3 DEF Finish, UnprepareDestroy
  <2> QED
    BY <1>1, <1>8, <2>2, <2>3 DEF UnprepareDestroy, DestroySucceeds, GoTo
<1>9. ASSUME ReturnDone PROVE Kept
  <2>1. CASE op = "unprepare" /\ Finish(Released)
    BY Zenon, <1>9, <2>1 DEF Finish, Released, ReturnDone
  <2> QED
    BY <1>1, <1>2, <1>9, <2>1 DEF ReturnDone, GoTo
<1>10. ASSUME NEW ok \in BOOLEAN,
              GCStaleClaimSpecs(ok) \/ GCStaleClaimMetadata(ok) \/ InitialScan(ok)
       PROVE  Kept
  <2>1. claim \notin Claims
    BY Zenon, <1>10 DEF GCStaleClaimSpecs, GCStaleClaimMetadata, InitialScan, OperationOK, StartupSteps
  <2> QED
    BY <1>1, <1>10, <2>1 DEF GCStaleClaimSpecs, GCStaleClaimMetadata, InitialScan, Finish, GoTo
<1>11. ASSUME NEW c \in Claims, NEW ok \in BOOLEAN,
              \/ PrepareRejects(c) \/ PrepareContainer(c) \/ PrepareVM(c) \/ PrepareUnread(c)
              \/ UnprepareBegins(c, ok)
       PROVE  Kept
  BY Zenon, <1>11 DEF PrepareRejects, PrepareContainer, PrepareVM, PrepareUnread, UnprepareBegins, Begins
<1>12. ASSUME Start \/ Rescan \/ Crash PROVE Kept
  BY Zenon, <1>1, <1>12 DEF Start, Rescan, Crash
<1>13. ASSUME WriteMasks PROVE Kept
  BY Zenon, <1>1, <1>13 DEF WriteMasks
<1>14. ASSUME NEW u \in Uuids, ExternalRemove(u) PROVE Kept
  BY Zenon, <1>1, <1>14 DEF ExternalRemove
<1> HIDE DEF Kept
<1> SUFFICES \/ \E c \in Claims : Deallocate(c) \/ \E s \in Specs : Allocate(c, s)
             \/ Kept
  BY Zenon DEF Kept
<1>15. UNCHANGED claimVars => Kept
  BY Zenon, <1>1
<1> QED
  BY Zenon, <1>3, <1>4, <1>5, <1>6, <1>7, <1>8, <1>9, <1>10, <1>11, <1>12, <1>13, <1>14, <1>15
  DEF Next, Progress, Call, Step

\* No step makes two claims share a queue.
LEMMA AllocationsStep == ClaimInv /\ Next => AllocationsDisjoint'
<1> SUFFICES ASSUME ClaimInv, Next PROVE AllocationsDisjoint'
  OBVIOUS
<1> USE DEF AllocationsDisjoint, ClaimInv, TypeOK, DeviceStateTypeOK
<1>1. ASSUME NEW c \in Claims, Deallocate(c) PROVE AllocationsDisjoint'
  BY Zenon, <1>1 DEF Deallocate
<1>2. ASSUME NEW c \in Claims, NEW s \in Specs, Allocate(c, s) PROVE AllocationsDisjoint'
  <2> SUFFICES ASSUME NEW x \in Claims, NEW y \in Claims, x # y, phase'[x] # "free", phase'[y] # "free"
               PROVE  spec'[x].devices \cap spec'[y].devices = {}
    OBVIOUS
  <2>1. spec'[c] = s /\ \A z \in Claims \ {c} : spec'[z] = spec[z] /\ phase'[z] = phase[z]
    BY Zenon, <1>2 DEF Allocate
  <2>2. CASE x = c
    BY Zenon, <1>2, <2>1, <2>2 DEF Allocate
  <2>3. CASE y = c
    BY Zenon, <1>2, <2>1, <2>3 DEF Allocate
  <2>4. CASE x # c /\ y # c
    BY Zenon, <2>1, <2>4
  <2> QED
    BY Zenon, <2>2, <2>3, <2>4
<1>3. ASSUME spec' = spec, \A c \in Claims : phase'[c] = "free" <=> phase[c] = "free"
      PROVE  AllocationsDisjoint'
  BY Zenon, <1>3
<1> QED
  BY Zenon, <1>1, <1>2, <1>3, AllocationFrame

-----------------------------------------------------------------------------
(* The mdevs *)

\* Every step leaves every mdev with an owner, within the owner's allocation.
LEMMA MdevsStep == ClaimInv /\ Next => MdevsOK'
<1> SUFFICES ASSUME ClaimInv, Next PROVE MdevsOK'
  OBVIOUS
<1> DEFINE Held == {"pending", "prepared"}
<1>a. /\ mdevs \subseteq Uuids
      /\ apm \in [Uuids -> SUBSET Adapters]
      /\ aqm \in [Uuids -> SUBSET Domains]
      /\ adm \in [Uuids -> SUBSET Domains]
      /\ phase \in [Claims -> Phases]
      /\ spec \in [Claims -> Specs]
  BY Zenon DEF ClaimInv, TypeOK, SysfsTypeOK, DeviceStateTypeOK
<1>b. /\ Claims \subseteq Uuids
      /\ Claims \cap Foreign = {}
      /\ Foreign \subseteq Uuids
  BY Zenon, SysfsAssumption DEF Uuids
<1>1. ASSUME UNCHANGED <<mdevs, apm, aqm, adm, spec>>, \A c \in Claims \cap mdevs : phase'[c] \in Held
      PROVE  MdevsOK'
  BY Zenon, <1>1 DEF ClaimInv, MdevsOK
<1>2. ASSUME NEW u, RemoveMdev(u), spec' = spec,
             \A c \in (Claims \cap mdevs) \ {u} : phase'[c] \in Held
      PROVE  MdevsOK'
  BY Zenon, <1>2, <1>a, <1>b DEF ClaimInv, MdevsOK, RemoveMdev
<1>3. ASSUME NEW p, Finish(p)
      PROVE  /\ \A c \in (Claims \cap mdevs) \ {claim} : phase'[c] \in Held
             /\ p \in Held => \A c \in Claims \cap mdevs : phase'[c] \in Held
  BY Zenon, <1>3, <1>a DEF ClaimInv, MdevsOK, Finish
<1>4. \A c \in Claims \cap mdevs : phase[c] \in Held
  BY Zenon DEF ClaimInv, MdevsOK
<1>g. ASSUME claim \in Claims \cap mdevs, UNCHANGED <<mdevs, phase, spec>>,
             \A u \in Uuids \ {claim} : apm'[u] = apm[u] /\ aqm'[u] = aqm[u] /\ adm'[u] = adm[u],
             apm'[claim] \subseteq apids(spec[claim]),
             aqm'[claim] \subseteq apqis(spec[claim]),
             adm'[claim] \subseteq ControlDomains(spec[claim])
      PROVE  MdevsOK'
  <2>1. MdevsOK
    BY Zenon DEF ClaimInv
  <2>2. \A u \in Uuids \ mdevs : apm'[u] = {} /\ aqm'[u] = {} /\ adm'[u] = {}
    BY Zenon, <1>g, <2>1 DEF MdevsOK
  <2>3. \A u \in Foreign \cap mdevs : apm'[u] = ForeignApm[u] /\ aqm'[u] = ForeignAqm[u]
    BY Zenon, <1>b, <1>g, <2>1 DEF MdevsOK
  <2>4. \A x \in (Claims \cap mdevs) \ {claim} :
            /\ apm'[x] \subseteq apids(spec[x])
            /\ aqm'[x] \subseteq apqis(spec[x])
            /\ adm'[x] \subseteq ControlDomains(spec[x])
    BY Zenon, <1>b, <1>g, <2>1 DEF MdevsOK
  <2>5. \A x \in Claims \cap mdevs :
            phase[x] \in Held /\ MatrixConstraint(spec[x]) /\ ~hasContainer(spec[x])
    BY Zenon, <2>1 DEF MdevsOK
  <2> QED
    BY Zenon, <1>g, <2>2, <2>3, <2>4, <2>5 DEF MdevsOK
<1>i. claim \in Claims \cap mdevs =>
          /\ apm[claim] \subseteq apids(spec[claim])
          /\ aqm[claim] \subseteq apqis(spec[claim])
          /\ adm[claim] \subseteq ControlDomains(spec[claim])
  BY Zenon DEF ClaimInv, MdevsOK
<1> HIDE DEF Held
<1>h. {"pending", "prepared"} = Held
  BY DEF Held
<1>5. ASSUME (\E ok \in BOOLEAN : SwitchStep(ok)) \/ SwitchDeadline \/ SwitchDone \/ DrainOrphanedVFIOAP,
             UNCHANGED claimVars
      PROVE  MdevsOK'
  BY Zenon, <1>1, <1>4, <1>5, SwitchFrame
<1>6. ASSUME NEW ok \in BOOLEAN, DestroyPartial(ok)
      PROVE  MdevsOK'
  BY Zenon, <1>1, <1>2, <1>3, <1>4, <1>6, <1>h DEF DestroyPartial, Destroy
<1>7. ASSUME NEW ok \in BOOLEAN, DestroyPartialMdev(ok)
      PROVE  MdevsOK'
  BY Zenon, <1>1, <1>2, <1>3, <1>4, <1>7, <1>h DEF DestroyPartialMdev, Destroy
<1>8. ASSUME NEW ok \in BOOLEAN, CreateMdev(ok)
      PROVE  MdevsOK'
  <2>1. CASE ok
    <3>1. /\ claim \in Claims /\ phase[claim] \in Held
          /\ MatrixConstraint(spec[claim]) /\ ~hasContainer(spec[claim])
      BY Zenon, <1>8, <1>h DEF CreateMdev, ClaimInv, OperationOK, PrepareSteps
    <3>2. mdevs' = mdevs \cup {claim} /\ UNCHANGED <<apm, aqm, adm, spec, phase>>
      BY Zenon, <1>8, <2>1 DEF CreateMdev, GoTo
    <3> QED
      BY Zenon, <1>a, <1>b, <1>h, <3>1, <3>2 DEF ClaimInv, MdevsOK
  <2>2. CASE ~ok
    BY <1>1, <1>3, <1>8, <1>h, <2>2 DEF CreateMdev
  <2> QED
    BY <2>1, <2>2
<1>9. ASSUME NEW a \in Adapters, NEW ok \in BOOLEAN, AssignAdapter(a, ok)
      PROVE  MdevsOK'
  <2>1. CASE claim \in mdevs /\ ok
    <3>1. claim \in Claims
      BY Zenon, <1>9 DEF AssignAdapter, ClaimInv, OperationOK, PrepareSteps
    <3>2. /\ apm' = [apm EXCEPT ![claim] = @ \cup {a}]
          /\ a \in apids(spec[claim])
          /\ UNCHANGED <<mdevs, aqm, adm, phase, spec>>
      BY <1>9, <2>1 DEF AssignAdapter, AssignSucceeds, GoTo
    <3>3. apm'[claim] = apm[claim] \cup {a} /\ \A u \in Uuids \ {claim} : apm'[u] = apm[u]
      BY Zenon, <1>a, <1>b, <3>1, <3>2
    <3> QED
      BY <1>g, <1>i, <2>1, <3>1, <3>2, <3>3
  <2> QED
    BY Zenon, <1>1, <1>4, <1>9, <2>1 DEF AssignAdapter, AssignSucceeds, GoTo
<1>10. ASSUME NEW d \in Domains, NEW ok \in BOOLEAN, AssignDomain(d, ok)
      PROVE  MdevsOK'
  <2>1. CASE claim \in mdevs /\ ok
    <3>1. claim \in Claims
      BY Zenon, <1>10 DEF AssignDomain, ClaimInv, OperationOK, PrepareSteps
    <3>2. /\ aqm' = [aqm EXCEPT ![claim] = @ \cup {d}]
          /\ d \in apqis(spec[claim])
          /\ UNCHANGED <<mdevs, apm, adm, phase, spec>>
      BY Zenon, <1>10, <2>1 DEF AssignDomain, AssignSucceeds, GoTo
    <3>3. aqm'[claim] = aqm[claim] \cup {d} /\ \A u \in Uuids \ {claim} : aqm'[u] = aqm[u]
      BY <1>a, <1>b, <3>1, <3>2
    <3> QED
      BY Zenon, <1>g, <1>i, <2>1, <3>1, <3>2, <3>3
  <2> QED
    BY Zenon, <1>1, <1>4, <1>10, <2>1 DEF AssignDomain, AssignSucceeds, GoTo
<1>11. ASSUME NEW d \in Domains, NEW ok \in BOOLEAN, AssignControlDomain(d, ok)
      PROVE  MdevsOK'
  <2>1. CASE claim \in mdevs /\ ok
    <3>1. claim \in Claims
      BY Zenon, <1>11 DEF AssignControlDomain, ClaimInv, OperationOK, PrepareSteps
    <3>2. /\ adm' = [adm EXCEPT ![claim] = @ \cup {d}]
          /\ d \in ControlDomains(spec[claim])
          /\ UNCHANGED <<mdevs, apm, aqm, phase, spec>>
      BY <1>11, <2>1 DEF AssignControlDomain, AssignSucceeds, GoTo
    <3>3. adm'[claim] = adm[claim] \cup {d} /\ \A u \in Uuids \ {claim} : adm'[u] = adm[u]
      BY Zenon, <1>a, <1>b, <3>1, <3>2
    <3> QED
      BY Zenon, <1>g, <1>i, <2>1, <3>1, <3>2, <3>3
  <2> QED
    BY Zenon, <1>1, <1>4, <1>11, <2>1 DEF AssignControlDomain, AssignSucceeds, GoTo
<1>12. ASSUME NEW ok \in BOOLEAN, GenerateClaimMetadata(ok) \/ GenerateClaimSpec(ok)
      PROVE  MdevsOK'
  BY Zenon, <1>1, <1>3, <1>4, <1>12, <1>h DEF GenerateClaimMetadata, GenerateClaimSpec, GoTo
<1>13. ASSUME NEW ok \in BOOLEAN, DeleteClaimMetadata(ok) \/ ReadMatrix(ok)
       PROVE  MdevsOK'
  BY Zenon, <1>1, <1>4, <1>13 DEF DeleteClaimMetadata, ReadMatrix, GoTo
<1>14. ASSUME NEW ok \in BOOLEAN, UnprepareDestroy(ok)
       PROVE  MdevsOK'
  <2>1. CASE DestroySucceeds(ok)
    BY Zenon, <1>2, <1>3, <1>4, <1>14, <2>1 DEF UnprepareDestroy, Destroy, GoTo
  <2>2. CASE ~DestroySucceeds(ok)
    BY <1>1, <1>2, <1>3, <1>14, <1>h, <2>2 DEF UnprepareDestroy, Destroy
  <2> QED
    BY <2>1, <2>2
<1>15. ASSUME ReturnDone
       PROVE  MdevsOK'
  <2>1. claim \notin mdevs
    BY Zenon, <1>15 DEF ReturnDone, ClaimInv, SwitchesWithoutMdev, ReturnSteps
  <2> QED
    BY Zenon, <1>1, <1>3, <1>4, <1>15, <2>1 DEF ReturnDone, GoTo
<1>16. ASSUME NEW ok \in BOOLEAN,
              GCStaleClaimSpecs(ok) \/ GCStaleClaimMetadata(ok) \/ InitialScan(ok)
       PROVE  MdevsOK'
  <2>1. claim \notin Claims
    BY Zenon, <1>16 DEF GCStaleClaimSpecs, GCStaleClaimMetadata, InitialScan, ClaimInv,
       OperationOK, StartupSteps
  <2> QED
    BY Zenon, <1>1, <1>4, <1>16, <2>1 DEF GCStaleClaimSpecs, GCStaleClaimMetadata, InitialScan,
       Finish, GoTo
<1>17. ASSUME NEW c \in Claims, NEW ok \in BOOLEAN,
              PrepareRejects(c) \/ PrepareVM(c) \/ UnprepareBegins(c, ok)
       PROVE  MdevsOK'
  BY Zenon, <1>1, <1>4, <1>17, <1>a, <1>h DEF PrepareRejects, PrepareVM, UnprepareBegins
<1>18. ASSUME NEW c \in Claims, PrepareContainer(c)
       PROVE  MdevsOK'
  BY Zenon, <1>1, <1>4, <1>18, <1>a, <1>h DEF PrepareContainer
<1>19. ASSUME Start \/ Rescan \/ Crash
       PROVE  MdevsOK'
  BY Zenon, <1>1, <1>4, <1>19 DEF Start, Rescan, Crash
<1>20. ASSUME WriteMasks
       PROVE  MdevsOK'
  BY <1>1, <1>4, <1>20 DEF WriteMasks
<1>21. ASSUME NEW u \in Uuids, ExternalRemove(u)
       PROVE  MdevsOK'
  BY Zenon, <1>2, <1>4, <1>21 DEF ExternalRemove
<1>22. ASSUME NEW c \in Claims, NEW s \in Specs, Allocate(c, s)
       PROVE  MdevsOK'
  <2>1. c \notin mdevs
    BY Zenon, <1>22, <1>4 DEF Allocate, Held
  <2>2. /\ UNCHANGED <<mdevs, apm, aqm, adm>>
        /\ \A x \in Claims \ {c} : phase'[x] = phase[x] /\ spec'[x] = spec[x]
    BY <1>22, <1>a DEF Allocate
  <2> QED
    BY Zenon, <2>1, <2>2 DEF ClaimInv, MdevsOK
<1>23. ASSUME NEW c \in Claims, Deallocate(c)
       PROVE  MdevsOK'
  <2>1. c \notin mdevs
    BY <1>23, <1>4 DEF Deallocate, Held
  <2>2. /\ UNCHANGED <<mdevs, apm, aqm, adm>>
        /\ \A x \in Claims \ {c} : phase'[x] = phase[x] /\ spec'[x] = spec[x]
    BY Zenon, <1>23, <1>a DEF Deallocate
  <2> QED
    BY Zenon, <2>1, <2>2 DEF ClaimInv, MdevsOK
<1>24. ASSUME NEW c \in Claims, PrepareUnread(c)
       PROVE  MdevsOK'
  BY <1>1, <1>2, <1>4, <1>24, <1>a, <1>h DEF PrepareUnread
<1> QED
  BY Zenon, <1>5, <1>6, <1>7, <1>8, <1>9, <1>10, <1>11, <1>12, <1>13, <1>14, <1>15, <1>16, <1>17,
     <1>18, <1>19, <1>20, <1>21, <1>22, <1>23, <1>24
  DEF Next, Progress, Call, Step

-----------------------------------------------------------------------------
(* The invariant and what follows from it *)

\* Before driver.New first runs nothing is in progress and only the foreign mdevs
\* exist.
LEMMA ClaimInit == Init => ClaimInv
<1> SUFFICES ASSUME Init PROVE ClaimInv
  OBVIOUS
<1>1. OperationOK /\ SwitchesWithoutMdev
  BY Zenon, NoClaimIsNone DEF Init, OperationOK, SwitchesWithoutMdev, PrepareSteps, UnprepareSteps,
                       ReturnSteps, StartupSteps
<1>2. MdevsOK
  BY Zenon, SysfsAssumption DEF Init, SysfsInit, MdevsOK, Uuids
<1>3. AllocationsDisjoint
  BY Zenon DEF Init, AllocationsDisjoint
<1> QED
  BY Zenon, <1>1, <1>2, <1>3, TypeInit DEF ClaimInv

\* The inductive invariant of the claim lifecycle holds of New, Prepare,
\* Unprepare and every crash between two of their writes, whatever fails.
THEOREM ClaimsSafe == Spec => []ClaimInv
<1>1. ClaimInv /\ [Next]_vars => ClaimInv'
  <2> SUFFICES ASSUME ClaimInv, [Next]_vars PROVE ClaimInv'
    OBVIOUS
  <2>1. CASE Next
    BY Zenon, <2>1, TypeStep, OperationStep, SwitchesStep, MdevsStep, AllocationsStep DEF ClaimInv
  <2>2. CASE UNCHANGED vars
    <3>1. TypeOK'
      BY Zenon, <2>2 DEF ClaimInv, TypeOK, SysfsTypeOK, BindingTypeOK, DeviceStateTypeOK
    <3>2. OperationOK' /\ SwitchesWithoutMdev'
      BY Zenon, <2>2 DEF ClaimInv, OperationOK, SwitchesWithoutMdev
    <3>3. MdevsOK' /\ AllocationsDisjoint'
      BY Zenon, <2>2 DEF ClaimInv, MdevsOK, AllocationsDisjoint
    <3> QED
      BY <3>1, <3>2, <3>3 DEF ClaimInv
  <2> QED
    BY Zenon, <2>1, <2>2
<1> QED
  BY <1>1, ClaimInit, PTL DEF Spec

\* Every variable of the model keeps its type, whatever fails.
THEOREM TypeCorrect == Spec => []TypeOK
<1>1. ClaimInv => TypeOK
  BY Zenon DEF ClaimInv
<1> QED
  BY <1>1, ClaimsSafe, PTL

\* The matrix of an mdev stays within the allocation of its claim.
LEMMA MatrixInAllocation ==
    ASSUME ClaimInv, NEW c \in Claims \cap mdevs
    PROVE  Matrix(c) \subseteq spec[c].devices
<1>1. spec[c] \in Specs
  BY Zenon DEF ClaimInv, TypeOK, DeviceStateTypeOK
<1>2. MatrixConstraint(spec[c]) /\ apm[c] \subseteq apids(spec[c]) /\ aqm[c] \subseteq apqis(spec[c])
  BY Zenon DEF ClaimInv, MdevsOK
<1>3. Matrix(c) \subseteq apids(spec[c]) \X apqis(spec[c])
  BY Zenon, <1>2 DEF Matrix
<1> QED
  BY Zenon, <1>1, <1>2, <1>3, CrossProduct

\* An mdev the driver builds never reaches past the allocation of its claim:
\* the cross product that assignMdevMatrix builds is within the allocation that
\* collectAllocatedAPQNs counted.
THEOREM MatricesWithinAllocations == Spec => []MatrixWithinAllocation
<1>1. ClaimInv => MatrixWithinAllocation
  BY Zenon, MatrixInAllocation DEF ClaimInv, MdevsOK, MatrixWithinAllocation
<1> QED
  BY <1>1, ClaimsSafe, PTL

\* The matrices of two mdevs are disjoint, whatever fails.
LEMMA MatricesDisjoint == ClaimInv => NoSharedQueue
<1> SUFFICES ASSUME ClaimInv, NEW u \in mdevs, NEW v \in mdevs, u # v
             PROVE  Matrix(u) \cap Matrix(v) = {}
  BY Zenon DEF NoSharedQueue
<1>1. (u \in Claims \/ u \in Foreign) /\ (v \in Claims \/ v \in Foreign)
  BY Zenon DEF ClaimInv, TypeOK, SysfsTypeOK, Uuids
<1>2. ASSUME NEW w \in Foreign \cap mdevs
      PROVE  Matrix(w) = ForeignApm[w] \X ForeignAqm[w] /\ Matrix(w) \subseteq ForeignQueues
  BY DEF ClaimInv, MdevsOK, Matrix, ForeignQueues
<1>3. ASSUME NEW c \in Claims \cap mdevs
      PROVE  /\ phase[c] # "free"
             /\ Matrix(c) \subseteq spec[c].devices
             /\ spec[c].devices \cap ForeignQueues = {}
  BY Zenon, MatrixInAllocation, DeviceStateAssumption DEF ClaimInv, MdevsOK, TypeOK, DeviceStateTypeOK
<1>4. CASE u \in Claims /\ v \in Claims
  <2>1. spec[u].devices \cap spec[v].devices = {}
    BY Zenon, <1>3, <1>4 DEF ClaimInv, AllocationsDisjoint
  <2> QED
    BY Zenon, <1>3, <1>4, <2>1
<1>5. CASE u \in Claims /\ v \in Foreign
  BY <1>2, <1>3, <1>5
<1>6. CASE u \in Foreign /\ v \in Claims
  BY Zenon, <1>2, <1>3, <1>6
<1>7. CASE u \in Foreign /\ v \in Foreign
  BY Zenon, <1>2, <1>7, SysfsAssumption
<1> QED
  BY <1>1, <1>4, <1>5, <1>6, <1>7

\* Two guests never share a queue, whatever crashes, retries and failed
\* teardowns Prepare and Unprepare went through.
THEOREM QueuesNeverShared == Spec => []NoSharedQueue
BY MatricesDisjoint, ClaimsSafe, PTL
=============================================================================
