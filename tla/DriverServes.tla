---------------------------- MODULE DriverServes ----------------------------
(***************************************************************************)
(* What a successful VM Prepare promised holds as long as the mdev of the  *)
(* claim lives, and what Unprepare reads of that mdev is the whole claim.  *)
(* Every operation comes nearer to its end with each step, whatever fails, *)
(* and a call whose writes succeed succeeds, whatever it finds.            *)
(***************************************************************************)
EXTENDS DriverClaims

USE DEF vars, sysfsVars, queueVars, mdevVars, bindingVars, claimVars, fileVars, fixedVars

-----------------------------------------------------------------------------
(* The Prepare in progress *)

\* What ensureMdevForClaim concludes when the matrix of an existing mdev is the
\* allocation: its two masks are complete.
LEMMA MatrixDeterminesMasks ==
    ASSUME ClaimInv, NEW c \in Claims \cap mdevs, Matrix(c) = spec[c].devices
    PROVE  apm[c] = apids(spec[c]) /\ aqm[c] = apqis(spec[c])
<1>1. spec[c] \in Specs /\ spec[c].devices # {}
  BY Zenon, DeviceStateAssumption DEF ClaimInv, TypeOK, DeviceStateTypeOK
<1>2. MatrixConstraint(spec[c]) /\ apm[c] \subseteq apids(spec[c]) /\ aqm[c] \subseteq apqis(spec[c])
  BY Zenon DEF ClaimInv, MdevsOK
<1>3. apm[c] \X aqm[c] = apids(spec[c]) \X apqis(spec[c])
  BY Zenon, <1>1, <1>2, CrossProduct DEF Matrix
<1>4. apids(spec[c]) # {} /\ apqis(spec[c]) # {}
  BY Zenon, <1>1 DEF apids, apqis
<1>5. PICK a \in apids(spec[c]), d \in apqis(spec[c]) : TRUE
  BY Zenon, <1>4
<1>6. \A x \in apids(spec[c]) : <<x, d>> \in apm[c] \X aqm[c]
  BY Zenon, <1>3, <1>5
<1>7. \A y \in apqis(spec[c]) : <<a, y>> \in apm[c] \X aqm[c]
  BY Zenon, <1>3, <1>5
<1> QED
  BY Zenon, <1>2, <1>6, <1>7

\* And conversely.
LEMMA MasksDetermineMatrix ==
    ASSUME ClaimInv, NEW c \in Claims \cap mdevs, apm[c] = apids(spec[c]), aqm[c] = apqis(spec[c])
    PROVE  Matrix(c) = spec[c].devices
<1>1. spec[c] \in Specs
  BY Zenon DEF ClaimInv, TypeOK, DeviceStateTypeOK
<1> QED
  BY Zenon, <1>1, CrossProduct DEF ClaimInv, MdevsOK, Matrix

\* Every step leaves the claim in the middle of a Prepare with what the code has
\* done so far.
LEMMA CompletionStep == ClaimInv /\ CompletionOK /\ Next => CompletionOK'
<1> SUFFICES ASSUME ClaimInv, CompletionOK, Next PROVE CompletionOK'
  OBVIOUS
<1> USE DEF CompletionOK
<1>a. /\ mdevs \subseteq Uuids
      /\ apm \in [Uuids -> SUBSET Adapters]
      /\ aqm \in [Uuids -> SUBSET Domains]
      /\ phase \in [Claims -> Phases]
      /\ spec \in [Claims -> Specs]
      /\ Claims \subseteq Uuids
  BY Zenon DEF ClaimInv, TypeOK, SysfsTypeOK, DeviceStateTypeOK, Uuids
<1>1. ASSUME NEW p, Finish(p)
      PROVE  CompletionOK'
  BY Zenon, <1>1 DEF Finish
<1>2. ASSUME Stopped
      PROVE  CompletionOK'
  BY Zenon, <1>2 DEF Stopped
<1>3. ASSUME NEW ok \in BOOLEAN, SwitchStep(ok), UNCHANGED claimVars
      PROVE  CompletionOK'
  BY Zenon, <1>3 DEF SwitchStep, SetOverride, UnbindForVFIOAP, ProbeForVFIOAP, UnbindForZcrypt,
              ClearOverride, ProbeForZcrypt, RestoreMarker, Rollback, BackToLoop
<1>4. ASSUME SwitchDeadline \/ SwitchDone \/ DrainOrphanedVFIOAP, UNCHANGED claimVars
      PROVE  CompletionOK'
  BY Zenon, <1>4 DEF SwitchDeadline, SwitchDone, DrainOrphanedVFIOAP, Rollback
<1>5. ASSUME NEW ok \in BOOLEAN, DestroyPartial(ok) \/ CreateMdev(ok) \/ DestroyPartialMdev(ok)
      PROVE  CompletionOK'
  BY Zenon, <1>1, <1>5 DEF DestroyPartial, CreateMdev, DestroyPartialMdev, GoTo
<1>6. ASSUME NEW a \in Adapters, NEW ok \in BOOLEAN, AssignAdapter(a, ok)
      PROVE  CompletionOK'
  BY Zenon, <1>6 DEF AssignAdapter, GoTo
<1>7. ASSUME NEW d \in Domains, NEW ok \in BOOLEAN, AssignDomain(d, ok)
      PROVE  CompletionOK'
  <2>1. op = "prepare" /\ op' = op
    BY Zenon, <1>7 DEF AssignDomain, GoTo, ClaimInv, OperationOK, PrepareSteps
  <2>2. pc' \in {"assign", "control", "metadata", "abandon"}
    BY Zenon, <1>7 DEF AssignDomain, GoTo
  <2>3. UNCHANGED <<claim, spec, apm>> /\ apm[claim] = apids(spec[claim])
    BY Zenon, <1>7 DEF AssignDomain, GoTo
  <2>4. pc' \in {"control", "metadata"} => aqm'[claim] = apqis(spec[claim])
    BY Zenon, <1>7 DEF AssignDomain, GoTo
  <2> QED
    BY Zenon, <2>1, <2>2, <2>3, <2>4
<1>8. ASSUME NEW d \in Domains, NEW ok \in BOOLEAN, AssignControlDomain(d, ok)
      PROVE  CompletionOK'
  BY Zenon, <1>8 DEF AssignControlDomain, GoTo
<1>9. ASSUME NEW ok \in BOOLEAN, GenerateClaimMetadata(ok) \/ GenerateClaimSpec(ok)
      PROVE  CompletionOK'
  BY Zenon, <1>1, <1>9 DEF GenerateClaimMetadata, GenerateClaimSpec, GoTo
<1>10. ASSUME NEW ok \in BOOLEAN, DeleteClaimMetadata(ok) \/ ReadMatrix(ok)
       PROVE  CompletionOK'
  BY Zenon, <1>10 DEF DeleteClaimMetadata, ReadMatrix, GoTo
<1>11. ASSUME NEW ok \in BOOLEAN, UnprepareDestroy(ok)
       PROVE  CompletionOK'
  BY Zenon, <1>1, <1>11 DEF UnprepareDestroy, GoTo
<1>12. ASSUME NEW ok \in BOOLEAN,
              GCStaleClaimSpecs(ok) \/ GCStaleClaimMetadata(ok) \/ InitialScan(ok)
       PROVE  CompletionOK'
  BY Zenon, <1>1, <1>2, <1>12 DEF GCStaleClaimSpecs, GCStaleClaimMetadata, InitialScan, GoTo
<1>13. ASSUME ReturnDone
       PROVE  CompletionOK'
  BY Zenon, <1>1, <1>13 DEF ReturnDone, GoTo
<1>14. ASSUME NEW c \in Claims, PrepareRejects(c) \/ PrepareContainer(c) \/ PrepareUnread(c)
       PROVE  CompletionOK'
  BY Zenon, <1>14 DEF PrepareRejects, PrepareContainer, PrepareUnread, Begins, ClaimInv, OperationOK
<1>15. ASSUME NEW c \in Claims, PrepareVM(c)
       PROVE  CompletionOK'
  BY <1>15, MatrixDeterminesMasks DEF PrepareVM, Begins, ClaimInv, OperationOK
<1>16. ASSUME NEW c \in Claims, NEW ok \in BOOLEAN, UnprepareBegins(c, ok)
       PROVE  CompletionOK'
  BY <1>16, <1>a DEF UnprepareBegins, ClaimInv, OperationOK
<1>17. ASSUME Start
       PROVE  CompletionOK'
  BY Zenon, <1>17 DEF Start
<1>18. ASSUME Rescan
       PROVE  CompletionOK'
  BY Zenon, <1>18 DEF Rescan
<1>19. ASSUME Crash
       PROVE  CompletionOK'
  BY Zenon, <1>2, <1>19 DEF Crash
<1>20. ASSUME WriteMasks
       PROVE  CompletionOK'
  BY Zenon, <1>20 DEF WriteMasks
<1>21. ASSUME NEW u \in Uuids, ExternalRemove(u)
       PROVE  CompletionOK'
  BY Zenon, <1>21, <1>a DEF ExternalRemove, RemoveMdev
<1>22. ASSUME NEW c \in Claims, Deallocate(c) \/ \E s \in Specs : Allocate(c, s)
       PROVE  CompletionOK'
  <2>1. op = "prepare" => claim # c
    BY Zenon, <1>22 DEF Deallocate, Allocate, ClaimInv, OperationOK
  <2>2. op = "unprepare" => phase'[claim] # "prepared"
    BY Zenon, <1>22, <1>a DEF Deallocate, Allocate, ClaimInv, OperationOK
  <2>3. op = "prepare" => spec'[claim] = spec[claim]
    BY Zenon, <1>22, <1>a, <2>1 DEF Deallocate, Allocate, ClaimInv, OperationOK
  <2>4. UNCHANGED <<pc, op, claim, mdevs, apm, aqm, meta>>
    BY Zenon, <1>22 DEF Deallocate, Allocate
  <2>5. pc \in {"control", "metadata", "cdi"} => op = "prepare"
    BY Zenon DEF ClaimInv, OperationOK, PrepareSteps
  <2> QED
    BY <2>2, <2>3, <2>4, <2>5
<1> QED
  BY Zenon, <1>3, <1>4, <1>5, <1>6, <1>7, <1>8, <1>9, <1>10, <1>11, <1>12, <1>13, <1>14, <1>15,
     <1>16, <1>17, <1>18, <1>19, <1>20, <1>21, <1>22
  DEF Next, Progress, Call, Step

-----------------------------------------------------------------------------
(* The prepared claims *)

\* No step takes from a prepared claim what its Prepare promised while its mdev
\* is there.
LEMMA ServesStep == ClaimInv /\ CompletionOK /\ PreparedServes /\ Next => PreparedServes'
<1> SUFFICES ASSUME ClaimInv, CompletionOK, PreparedServes, Next,
                    NEW c \in Claims, c \in mdevs', phase'[c] = "prepared"
             PROVE  Matrix(c)' = spec'[c].devices /\ c \in meta' /\ c \in cdi'
  BY Zenon DEF PreparedServes
<1> DEFINE Goal == Matrix(c)' = spec'[c].devices /\ c \in meta' /\ c \in cdi'
<1>a. /\ mdevs \subseteq Uuids
      /\ apm \in [Uuids -> SUBSET Adapters]
      /\ aqm \in [Uuids -> SUBSET Domains]
      /\ phase \in [Claims -> Phases]
      /\ spec \in [Claims -> Specs]
      /\ Claims \subseteq Uuids
  BY Zenon DEF ClaimInv, TypeOK, SysfsTypeOK, DeviceStateTypeOK, Uuids
<1>b. op = "prepare" => claim \in Claims /\ phase[claim] = "pending"
  BY Zenon DEF ClaimInv, OperationOK
<1>c. op = "unprepare" => claim \in Claims /\ phase[claim] # "prepared"
  BY Zenon DEF ClaimInv, OperationOK, CompletionOK
<1>d. /\ pc \in PrepareSteps => op = "prepare"
      /\ pc \in UnprepareSteps => op = "unprepare"
      /\ pc \in StartupSteps => claim \notin Claims
  BY Zenon DEF ClaimInv, OperationOK, StartupSteps
<1>1. ASSUME c \in mdevs, phase[c] = "prepared",
             apm'[c] = apm[c], aqm'[c] = aqm[c], spec'[c] = spec[c],
             c \in meta => c \in meta', c \in cdi => c \in cdi'
      PROVE  Goal
  BY Zenon, <1>1 DEF PreparedServes, Matrix
<1> HIDE DEF Goal
<1>2. ASSUME (\E ok \in BOOLEAN : SwitchStep(ok)) \/ SwitchDeadline \/ SwitchDone \/ DrainOrphanedVFIOAP,
             UNCHANGED claimVars
      PROVE  Goal
  BY Zenon, <1>1, <1>2, SwitchFrame
<1>3. ASSUME NEW ok \in BOOLEAN, DestroyPartial(ok)
      PROVE  Goal
  BY Zenon, <1>1, <1>3, <1>a, <1>b, <1>d DEF DestroyPartial, Destroy, RemoveMdev, Finish, PrepareSteps
<1>4. ASSUME NEW ok \in BOOLEAN, CreateMdev(ok)
      PROVE  Goal
  BY <1>1, <1>4, <1>a, <1>b, <1>d DEF CreateMdev, GoTo, Finish, PrepareSteps
<1>5. ASSUME NEW ok \in BOOLEAN,
             \/ \E a \in Adapters : AssignAdapter(a, ok)
             \/ \E d \in Domains : AssignDomain(d, ok) \/ AssignControlDomain(d, ok)
      PROVE  Goal
  <2>1. op = "prepare" /\ UNCHANGED <<mdevs, phase, spec, meta, cdi>>
    BY Zenon, <1>5, <1>d DEF AssignAdapter, AssignDomain, AssignControlDomain, GoTo, PrepareSteps
  <2>2. c # claim
    BY Zenon, <1>b, <2>1
  <2>3. apm'[c] = apm[c] /\ aqm'[c] = aqm[c]
    BY Zenon, <1>5, <1>a, <2>2 DEF AssignAdapter, AssignDomain, AssignControlDomain
  <2> QED
    BY Zenon, <1>1, <2>1, <2>3
<1>6. ASSUME NEW ok \in BOOLEAN, DestroyPartialMdev(ok)
      PROVE  Goal
  BY Zenon, <1>1, <1>6, <1>a, <1>b, <1>d DEF DestroyPartialMdev, Destroy, RemoveMdev, Finish,
     PrepareSteps
<1>7. ASSUME NEW ok \in BOOLEAN, GenerateClaimMetadata(ok)
      PROVE  Goal
  BY Zenon, <1>1, <1>7, <1>a, <1>b, <1>d DEF GenerateClaimMetadata, GoTo, Finish, PrepareSteps
<1>8. ASSUME NEW ok \in BOOLEAN, GenerateClaimSpec(ok)
      PROVE  Goal
  <2>1. UNCHANGED <<mdevs, apm, aqm, spec, meta>> /\ cdi \subseteq cdi' /\ op = "prepare"
    BY Zenon, <1>8, <1>d DEF GenerateClaimSpec, PrepareSteps
  <2>2. CASE c # claim
    BY Zenon, <1>1, <1>8, <1>a, <1>b, <2>1, <2>2 DEF GenerateClaimSpec, Finish
  <2>3. CASE c = claim
    <3>1. claim \in mdevs /\ cdi' = cdi \cup {claim} /\ pc = "cdi"
      BY <1>8, <1>a, <1>b, <2>1, <2>3 DEF GenerateClaimSpec, Finish
    <3>2. Matrix(c) = spec[c].devices /\ c \in meta
      BY Zenon, <2>3, <3>1, MasksDetermineMatrix DEF CompletionOK
    <3>3. Matrix(c)' = Matrix(c)
      BY Zenon, <2>1 DEF Matrix
    <3> QED
      BY Zenon, <2>1, <2>3, <3>1, <3>2, <3>3 DEF Goal
  <2> QED
    BY Zenon, <2>2, <2>3
<1>9. ASSUME NEW ok \in BOOLEAN, DeleteClaimMetadata(ok) \/ ReadMatrix(ok)
      PROVE  Goal
  BY Zenon, <1>1, <1>9, <1>c, <1>d DEF DeleteClaimMetadata, ReadMatrix, GoTo, UnprepareSteps
<1>10. ASSUME NEW ok \in BOOLEAN, UnprepareDestroy(ok)
       PROVE  Goal
  <2>1. c # claim
    BY Zenon, <1>10, <1>a, <1>c, <1>d DEF UnprepareDestroy, GoTo, Finish, Released, UnprepareSteps
  <2>2. phase'[c] = phase[c] /\ UNCHANGED <<spec, meta, cdi>>
    BY <1>10, <1>a, <2>1 DEF UnprepareDestroy, GoTo, Finish
  <2>3. apm'[c] = apm[c] /\ aqm'[c] = aqm[c] /\ c \in mdevs
    BY Zenon, <1>10, <1>a, <2>1 DEF UnprepareDestroy, Destroy, RemoveMdev
  <2> QED
    BY Zenon, <1>1, <2>2, <2>3
<1>11. ASSUME ReturnDone
       PROVE  Goal
  <2>1. UNCHANGED <<mdevs, apm, aqm, spec, meta, cdi>>
    BY Zenon, <1>11 DEF ReturnDone
  <2>2. phase[c] = "prepared"
    BY Zenon, <1>11, <1>a, <1>b, <1>c DEF ReturnDone, GoTo, Finish, Released
  <2> QED
    BY Zenon, <1>1, <2>1, <2>2
<1>12. ASSUME NEW ok \in BOOLEAN,
              GCStaleClaimSpecs(ok) \/ GCStaleClaimMetadata(ok)
       PROVE  Goal
  BY Zenon, <1>1, <1>12 DEF GCStaleClaimSpecs, GCStaleClaimMetadata, GoTo, Collected
<1>13. ASSUME NEW ok \in BOOLEAN, InitialScan(ok)
       PROVE  Goal
  BY Zenon, <1>1, <1>13, <1>d DEF InitialScan, Finish, StartupSteps
<1>14. ASSUME NEW x \in Claims, PrepareRejects(x) \/ PrepareVM(x) \/ PrepareUnread(x)
       PROVE  Goal
  <2>1. phase' = [phase EXCEPT ![x] = "pending"] /\ UNCHANGED <<spec, meta, cdi>>
    BY Zenon, <1>14 DEF PrepareRejects, PrepareVM, PrepareUnread
  <2>2. c # x /\ phase[c] = "prepared"
    BY Zenon, <1>a, <2>1
  <2>3. RemoveMdev(x) \/ UNCHANGED <<mdevs, apm, aqm>>
    BY Zenon, <1>14 DEF PrepareRejects, PrepareVM, PrepareUnread
  <2>4. c \in mdevs /\ apm'[c] = apm[c] /\ aqm'[c] = aqm[c]
    BY Zenon, <1>a, <2>2, <2>3 DEF RemoveMdev
  <2> QED
    BY Zenon, <1>1, <2>1, <2>2, <2>4
<1>15. ASSUME NEW x \in Claims, PrepareContainer(x)
       PROVE  Goal
  <2>1. x \notin mdevs
    BY Zenon, <1>15 DEF PrepareContainer, ClaimInv, MdevsOK
  <2>2. /\ phase' = [phase EXCEPT ![x] = "prepared"]
        /\ UNCHANGED <<mdevs, apm, aqm, spec, meta, cdi>>
    BY Zenon, <1>15 DEF PrepareContainer
  <2>3. c # x /\ phase[c] = "prepared"
    BY Zenon, <1>a, <2>1, <2>2
  <2> QED
    BY <1>1, <2>2, <2>3
<1>16. ASSUME NEW x \in Claims, NEW ok \in BOOLEAN, UnprepareBegins(x, ok)
       PROVE  Goal
  BY Zenon, <1>1, <1>16, <1>a DEF UnprepareBegins
<1>17. ASSUME Start \/ Rescan \/ Crash
       PROVE  Goal
  BY Zenon, <1>1, <1>17 DEF Start, Rescan, Crash
<1>18. ASSUME WriteMasks
       PROVE  Goal
  BY Zenon, <1>1, <1>18 DEF WriteMasks
<1>19. ASSUME NEW u \in Uuids, ExternalRemove(u)
       PROVE  Goal
  BY Zenon, <1>1, <1>19, <1>a DEF ExternalRemove, RemoveMdev
<1>20. ASSUME NEW x \in Claims, Deallocate(x) \/ \E s \in Specs : Allocate(x, s)
       PROVE  Goal
  BY Zenon, <1>1, <1>20, <1>a DEF Deallocate, Allocate
<1> SUFFICES Goal
  BY Zenon DEF Goal
<1> QED
  BY Zenon, <1>2, <1>3, <1>4, <1>5, <1>6, <1>7, <1>8, <1>9, <1>10, <1>11, <1>12, <1>13, <1>14, <1>15,
     <1>16, <1>17, <1>18, <1>19, <1>20
  DEF Next, Progress, Call, Step

\* The Prepare in progress has done what its step says it has done, whatever
\* fails and whatever is removed under it; a claim being unprepared no longer
\* counts as prepared.
THEOREM PreparesComplete == Spec => []CompletionOK
<1>1. Init => CompletionOK
  BY Zenon DEF Init, CompletionOK
<1>2. CompletionOK /\ UNCHANGED vars => CompletionOK'
  BY Zenon DEF CompletionOK
<1>3. ClaimInv /\ CompletionOK /\ [Next]_vars => CompletionOK'
  BY Zenon, <1>2, CompletionStep
<1> QED
  BY <1>1, <1>3, ClaimsSafe, PTL DEF Spec

\* What a successful VM Prepare promised (the mdev has exactly the allocated
\* queues, its CDI spec and its metadata are on disk) holds as long as the mdev
\* lives, across restarts and the garbage collection of driver.New.
THEOREM PreparedClaimsServed == Spec => []PreparedServes
<1>1. Init => PreparedServes
  BY Zenon DEF Init, PreparedServes
<1>2. PreparedServes /\ UNCHANGED vars => PreparedServes'
  BY Zenon DEF PreparedServes, Matrix
<1>3. ClaimInv /\ CompletionOK /\ PreparedServes /\ [Next]_vars => PreparedServes'
  BY Zenon, <1>2, ServesStep
<1> QED
  BY <1>1, <1>3, ClaimsSafe, PreparesComplete, PTL DEF Spec

-----------------------------------------------------------------------------
(* The masks of an mdev no Prepare is building *)

\* The three masks are the ones the claim's allocation and mode imply.
Complete(c) ==
    /\ apm[c] = apids(spec[c])
    /\ aqm[c] = apqis(spec[c])
    /\ adm[c] = ControlDomains(spec[c])

BuildSteps == {"assign", "control", "abandon"}

\* An mdev is complete unless the running Prepare is building it or giving it
\* up: destroyPartialMdev leaves no incomplete one behind, unless the remove
\* write fails or the process dies.
MdevsComplete ==
    \A c \in Claims \cap mdevs : Complete(c) \/ (c = claim /\ pc \in BuildSteps)

\* Every step leaves the mdevs complete.
LEMMA CompleteStep ==
    ASSUME {"remove", "crash"} \cap Faults = {}
    PROVE  ClaimInv /\ CompletionOK /\ MdevsComplete /\ Next => MdevsComplete'
<1> SUFFICES ASSUME ClaimInv, CompletionOK, MdevsComplete, Next PROVE MdevsComplete'
  OBVIOUS
<1>a. /\ mdevs \subseteq Uuids
      /\ apm \in [Uuids -> SUBSET Adapters]
      /\ aqm \in [Uuids -> SUBSET Domains]
      /\ adm \in [Uuids -> SUBSET Domains]
      /\ phase \in [Claims -> Phases]
      /\ spec \in [Claims -> Specs]
      /\ Claims \subseteq Uuids
  BY Zenon DEF ClaimInv, TypeOK, SysfsTypeOK, DeviceStateTypeOK, Uuids
<1>b. pc \in PrepareSteps \cup UnprepareSteps => claim \in Claims
  BY Zenon DEF ClaimInv, OperationOK
<1>1. ASSUME UNCHANGED <<mdevs, apm, aqm, adm, spec>>,
             pc \in BuildSteps => claim \notin mdevs \/ (pc' \in BuildSteps /\ claim' = claim)
      PROVE  MdevsComplete'
  BY Zenon, <1>1 DEF MdevsComplete, Complete
<1>2. ASSUME NEW u \in Uuids, RemoveMdev(u), spec' = spec,
             pc \in BuildSteps => u = claim \/ (pc' \in BuildSteps /\ claim' = claim)
      PROVE  MdevsComplete'
  <2> SUFFICES ASSUME NEW c \in Claims, c \in mdevs'
               PROVE  Complete(c)' \/ (c = claim' /\ pc' \in BuildSteps)
    BY Zenon DEF MdevsComplete
  <2>1. c \in mdevs /\ c # u
    BY Zenon, <1>2 DEF RemoveMdev
  <2>2. apm'[c] = apm[c] /\ aqm'[c] = aqm[c] /\ adm'[c] = adm[c]
    BY Zenon, <1>2, <1>a, <2>1 DEF RemoveMdev
  <2> QED
    BY <1>2, <2>1, <2>2 DEF MdevsComplete, Complete
<1>3. ASSUME NEW ok \in BOOLEAN, Destroy(ok), claim \in Claims
      PROVE  RemoveMdev(claim) /\ claim \in Uuids
  BY Zenon, <1>3, <1>a DEF Destroy
<1>4. ASSUME (\E ok \in BOOLEAN : SwitchStep(ok)) \/ SwitchDeadline \/ SwitchDone \/ DrainOrphanedVFIOAP,
             UNCHANGED claimVars
      PROVE  MdevsComplete'
  BY Zenon, <1>1, <1>4, SwitchFrame DEF BuildSteps, ReturnSteps
<1>5. ASSUME NEW ok \in BOOLEAN, DestroyPartial(ok) \/ UnprepareDestroy(ok)
      PROVE  MdevsComplete'
  <2>1. Destroy(ok) /\ pc \notin BuildSteps /\ claim \in Claims /\ spec' = spec
    BY Zenon, <1>5, <1>b DEF DestroyPartial, UnprepareDestroy, BuildSteps, PrepareSteps, UnprepareSteps
  <2> QED
    BY Zenon, <1>2, <1>3, <2>1
<1>6. ASSUME NEW ok \in BOOLEAN, CreateMdev(ok)
      PROVE  MdevsComplete'
  <2>1. UNCHANGED <<apm, aqm, adm, spec>> /\ pc \notin BuildSteps
    BY Zenon, <1>6 DEF CreateMdev, BuildSteps
  <2>2. CASE ok
    <3>1. mdevs' = mdevs \cup {claim} /\ claim' = claim /\ pc' \in BuildSteps
      BY Zenon, <1>6, <2>2 DEF CreateMdev, GoTo, BuildSteps
    <3> QED
      BY Zenon, <2>1, <3>1 DEF MdevsComplete, Complete
  <2>3. CASE ~ok
    BY Zenon, <1>1, <1>6, <2>1, <2>3 DEF CreateMdev
  <2> QED
    BY Zenon, <2>2, <2>3
<1>7. ASSUME NEW ok \in BOOLEAN, DestroyPartialMdev(ok)
      PROVE  MdevsComplete'
  <2>1. Destroy(ok) /\ claim \in Claims /\ spec' = spec
    BY Zenon, <1>7, <1>b DEF DestroyPartialMdev, PrepareSteps
  <2>2. RemoveMdev(claim) /\ claim \in Uuids
    BY Zenon, <1>3, <2>1
  <2> QED
    BY Zenon, <1>2, <2>1, <2>2
<1>8. ASSUME NEW a \in Adapters, NEW ok \in BOOLEAN, AssignAdapter(a, ok)
      PROVE  MdevsComplete'
  <2>1. claim \in Uuids /\ UNCHANGED <<mdevs, aqm, adm, spec, claim>> /\ pc' \in BuildSteps
    BY Zenon, <1>8, <1>a, <1>b DEF AssignAdapter, GoTo, PrepareSteps, BuildSteps
  <2>2. \A c \in Claims \ {claim} : apm'[c] = apm[c]
    BY Zenon, <1>8, <1>a DEF AssignAdapter
  <2> QED
    BY Zenon, <2>1, <2>2 DEF MdevsComplete, Complete
<1>9. ASSUME NEW d \in Domains, NEW ok \in BOOLEAN, AssignDomain(d, ok)
      PROVE  MdevsComplete'
  <2>1. claim \in Claims /\ UNCHANGED <<mdevs, apm, adm, spec, claim>>
    BY Zenon, <1>9, <1>b DEF AssignDomain, GoTo, PrepareSteps
  <2>2. \A c \in Claims \ {claim} : aqm'[c] = aqm[c]
    BY Zenon, <1>9, <1>a DEF AssignDomain
  <2>3. CASE pc' \in BuildSteps
    BY Zenon, <2>1, <2>2, <2>3 DEF MdevsComplete, Complete
  <2>4. CASE pc' \notin BuildSteps
    <3>1. /\ apm[claim] = apids(spec[claim]) /\ aqm'[claim] = apqis(spec[claim])
          /\ ControlDomains(spec[claim]) = {} /\ claim \in mdevs
      BY Zenon, <1>9, <2>4 DEF AssignDomain, AssignSucceeds, GoTo, BuildSteps
    <3>2. adm[claim] = {}
      BY Zenon, <2>1, <3>1 DEF ClaimInv, MdevsOK
    <3>3. Complete(claim)'
      BY Zenon, <2>1, <3>1, <3>2 DEF Complete
    <3> QED
      BY Zenon, <2>1, <2>2, <3>3 DEF MdevsComplete, Complete
  <2> QED
    BY Zenon, <2>3, <2>4
<1>10. ASSUME NEW d \in Domains, NEW ok \in BOOLEAN, AssignControlDomain(d, ok)
       PROVE  MdevsComplete'
  <2>1. claim \in Claims /\ UNCHANGED <<mdevs, apm, aqm, spec, claim>>
    BY Zenon, <1>10, <1>b DEF AssignControlDomain, GoTo, PrepareSteps
  <2>2. \A c \in Claims \ {claim} : adm'[c] = adm[c]
    BY Zenon, <1>10, <1>a DEF AssignControlDomain
  <2>3. CASE pc' \in BuildSteps
    BY Zenon, <2>1, <2>2, <2>3 DEF MdevsComplete, Complete
  <2>4. CASE pc' \notin BuildSteps
    <3>1. adm'[claim] = ControlDomains(spec[claim]) /\ claim \in mdevs /\ pc = "control"
      BY Zenon, <1>10, <2>4 DEF AssignControlDomain, AssignSucceeds, GoTo, BuildSteps
    <3>2. Complete(claim)'
      BY Zenon, <2>1, <3>1 DEF Complete, CompletionOK
    <3> QED
      BY Zenon, <2>1, <2>2, <3>2 DEF MdevsComplete, Complete
  <2> QED
    BY Zenon, <2>3, <2>4
<1>11. ASSUME NEW ok \in BOOLEAN,
              \/ GenerateClaimMetadata(ok) \/ GenerateClaimSpec(ok)
              \/ DeleteClaimMetadata(ok) \/ ReadMatrix(ok)
       PROVE  MdevsComplete'
  BY Zenon, <1>1, <1>11 DEF GenerateClaimMetadata, GenerateClaimSpec, DeleteClaimMetadata, ReadMatrix, BuildSteps
<1>12. ASSUME NEW ok \in BOOLEAN,
              GCStaleClaimSpecs(ok) \/ GCStaleClaimMetadata(ok) \/ InitialScan(ok) \/ ReturnDone
       PROVE  MdevsComplete'
  BY Zenon, <1>1, <1>12 DEF GCStaleClaimSpecs, GCStaleClaimMetadata, InitialScan, ReturnDone, BuildSteps
<1>13. ASSUME NEW c \in Claims, PrepareRejects(c) \/ PrepareContainer(c) \/ PrepareVM(c)
       PROVE  MdevsComplete'
  BY Zenon, <1>1, <1>13 DEF PrepareRejects, PrepareContainer, PrepareVM, Begins, BuildSteps
<1>14. ASSUME NEW c \in Claims, PrepareUnread(c)
       PROVE  MdevsComplete'
  BY <1>1, <1>2, <1>14, <1>a DEF PrepareUnread, Begins, BuildSteps
<1>15. ASSUME NEW c \in Claims, NEW ok \in BOOLEAN, UnprepareBegins(c, ok)
       PROVE  MdevsComplete'
  BY Zenon, <1>1, <1>15 DEF UnprepareBegins, BuildSteps
<1>16. ASSUME Start \/ Rescan \/ Crash \/ WriteMasks
       PROVE  MdevsComplete'
  BY Zenon, <1>1, <1>16 DEF Start, Rescan, Crash, WriteMasks, BuildSteps
<1>17. ASSUME NEW u \in Uuids, ExternalRemove(u)
       PROVE  MdevsComplete'
  BY Zenon, <1>2, <1>17 DEF ExternalRemove
<1>18. ASSUME NEW x \in Claims, Deallocate(x) \/ \E s \in Specs : Allocate(x, s)
       PROVE  MdevsComplete'
  <2>1. UNCHANGED <<mdevs, apm, aqm, adm, pc, claim>> /\ x \notin mdevs
    BY Zenon, <1>18 DEF Deallocate, Allocate, ClaimInv, MdevsOK
  <2>2. \A c \in Claims \ {x} : spec'[c] = spec[c]
    BY <1>18, <1>a DEF Deallocate, Allocate
  <2> QED
    BY Zenon, <2>1, <2>2 DEF MdevsComplete, Complete
<1> QED
  BY Zenon, <1>4, <1>5, <1>6, <1>7, <1>8, <1>9, <1>10, <1>11, <1>12, <1>13, <1>14, <1>15, <1>16, <1>17, <1>18
  DEF Next, Progress, Call, Step

\* Unless a remove write fails or the process dies, every mdev that no Prepare is
\* building has all its masks.
LEMMA CompleteSafe ==
    ASSUME {"remove", "crash"} \cap Faults = {}
    PROVE  Spec => []MdevsComplete
<1>1. Init => MdevsComplete
  BY Zenon, SysfsAssumption DEF Init, SysfsInit, MdevsComplete
<1>2. MdevsComplete /\ UNCHANGED vars => MdevsComplete'
  BY Zenon DEF MdevsComplete, Complete
<1>3. ClaimInv /\ CompletionOK /\ MdevsComplete /\ [Next]_vars => MdevsComplete'
  BY <1>2, CompleteStep
<1> QED
  BY <1>1, <1>3, ClaimsSafe, PreparesComplete, PTL DEF Spec

\* A successful VM Prepare has assigned every control domain its mode implies:
\* ensureMdevForClaim accepts an mdev it finds by its matrix alone, which is
\* enough as long as no remove write fails and the process does not die.
THEOREM ControlDomainsAssigned ==
    ASSUME {"remove", "crash"} \cap Faults = {}
    PROVE  Spec => []ControlDomainsComplete
<1>1. ClaimInv /\ MdevsComplete => ControlDomainsComplete
  <2> SUFFICES ASSUME ClaimInv, MdevsComplete, NEW c \in Claims \cap mdevs, phase[c] = "prepared"
               PROVE  adm[c] = ControlDomains(spec[c])
    BY Zenon DEF ControlDomainsComplete
  <2>1. pc \in BuildSteps => phase[claim] = "pending"
    BY DEF ClaimInv, OperationOK, BuildSteps, PrepareSteps
  <2> QED
    BY Zenon, <2>1 DEF MdevsComplete, Complete
<1> QED
  BY <1>1, ClaimsSafe, CompleteSafe, PTL

-----------------------------------------------------------------------------
(* What Unprepare takes back *)

\* The queues Unprepare has read off the mdev it is removing are those of the
\* claim, all of them.
TeardownList ==
    pc = "destroy" /\ todo # {} =>
       todo = spec[claim].devices /\ phase[claim] = "pending"

\* Every step keeps the list.
LEMMA TeardownStep ==
    ClaimInv /\ CompletionOK /\ MdevsComplete /\ TeardownList /\ Next => TeardownList'
<1> SUFFICES ASSUME ClaimInv, CompletionOK, MdevsComplete, TeardownList, Next,
                    pc' = "destroy", todo' # {}
             PROVE  todo' = spec'[claim'].devices /\ phase'[claim'] = "pending"
  BY Zenon DEF TeardownList
<1> DEFINE Goal == todo' = spec'[claim'].devices /\ phase'[claim'] = "pending"
<1>a. phase \in [Claims -> Phases] /\ spec \in [Claims -> Specs]
  BY Zenon DEF ClaimInv, TypeOK, DeviceStateTypeOK
<1>b. pc \in UnprepareSteps => claim \in Claims /\ phase[claim] # "prepared"
  BY Zenon DEF ClaimInv, OperationOK, CompletionOK
<1>1. ASSUME pc = "destroy", UNCHANGED <<todo, claim>>,
             phase[claim] = "pending" => spec'[claim] = spec[claim] /\ phase'[claim] = "pending"
      PROVE  Goal
  BY Zenon, <1>1 DEF TeardownList
<1>2. ASSUME NEW ok \in BOOLEAN, ReadMatrix(ok)
      PROVE  Goal
  <2>1. /\ claim \in Claims \cap mdevs /\ todo' = Matrix(claim) /\ pc = "read_matrix"
        /\ UNCHANGED <<spec, phase, claim>>
    BY Zenon, <1>2, <1>b DEF ReadMatrix, UnprepareSteps
  <2>2. apm[claim] = apids(spec[claim]) /\ aqm[claim] = apqis(spec[claim])
    BY Zenon, <2>1 DEF MdevsComplete, Complete, BuildSteps
  <2>3. Matrix(claim) = spec[claim].devices
    BY Zenon, <2>1, <2>2, MasksDetermineMatrix
  <2>4. phase[claim] = "pending"
    BY <1>b, <2>1 DEF ClaimInv, MdevsOK, UnprepareSteps
  <2> QED
    BY Zenon, <2>1, <2>3, <2>4
<1> HIDE DEF Goal
<1>3. ASSUME (\E ok \in BOOLEAN : SwitchStep(ok)) \/ SwitchDeadline \/ SwitchDone \/ DrainOrphanedVFIOAP
      PROVE  Goal
  BY Zenon, <1>3 DEF SwitchStep, SetOverride, UnbindForVFIOAP, ProbeForVFIOAP, UnbindForZcrypt, ClearOverride,
              ProbeForZcrypt, RestoreMarker, Rollback, BackToLoop, SwitchDeadline, SwitchDone,
              DrainOrphanedVFIOAP
<1>4. ASSUME NEW ok \in BOOLEAN, Step(ok), ~SwitchStep(ok), ~ReadMatrix(ok)
      PROVE  Goal
  BY Zenon, <1>4 DEF Step, DestroyPartial, CreateMdev, AssignAdapter, AssignDomain, AssignControlDomain,
              DestroyPartialMdev, GenerateClaimMetadata, GenerateClaimSpec, DeleteClaimMetadata,
              UnprepareDestroy, GCStaleClaimSpecs, GCStaleClaimMetadata, InitialScan, GoTo, Finish, Stopped
<1>5. ASSUME ReturnDone
      PROVE  Goal
  BY Zenon, <1>5 DEF ReturnDone, GoTo, Finish
<1>6. ASSUME NEW c \in Claims, Call(c)
      PROVE  Goal
  BY Zenon, <1>6 DEF Call, PrepareRejects, PrepareContainer, PrepareVM, PrepareUnread, UnprepareBegins, Begins
<1>7. ASSUME NEW c \in Claims, Deallocate(c) \/ \E s \in Specs : Allocate(c, s)
      PROVE  Goal
  <2>1. UNCHANGED <<pc, todo, claim>> /\ phase[c] # "pending"
    BY Zenon, <1>7 DEF Deallocate, Allocate
  <2>2. claim \in Claims
    BY <1>b, <2>1 DEF UnprepareSteps
  <2>3. claim # c => spec'[claim] = spec[claim] /\ phase'[claim] = phase[claim]
    BY Zenon, <1>7, <1>a, <2>2 DEF Deallocate, Allocate
  <2> QED
    BY <1>1, <2>1, <2>3
<1>8. ASSUME Start \/ Rescan \/ Crash \/ WriteMasks \/ \E u \in Uuids : ExternalRemove(u)
      PROVE  Goal
  BY Zenon, <1>1, <1>8 DEF Start, Rescan, Crash, Stopped, WriteMasks, ExternalRemove
<1> SUFFICES Goal
  BY Zenon DEF Goal
<1> QED
  BY <1>2, <1>3, <1>4, <1>5, <1>6, <1>7, <1>8 DEF Next, Progress

\* The list holds under the same two assumptions as the masks it is read from.
LEMMA TeardownSafe ==
    ASSUME {"remove", "crash"} \cap Faults = {}
    PROVE  Spec => []TeardownList
<1>1. Init => TeardownList
  BY Zenon DEF Init, TeardownList
<1>2. TeardownList /\ UNCHANGED vars => TeardownList'
  BY Zenon DEF TeardownList
<1>3. ClaimInv /\ CompletionOK /\ MdevsComplete /\ TeardownList /\ [Next]_vars => TeardownList'
  BY Zenon, <1>2, TeardownStep
<1> QED
  BY <1>1, <1>3, ClaimsSafe, PreparesComplete, CompleteSafe, PTL DEF Spec

\* Unprepare of a VM claim takes back every orphaned queue of the claim, from the
\* matrix it read or, when something else removed the mdev, by the drain: unless
\* a remove write failed or the process died (the mdev may then be partial), the
\* mdevs cannot be listed or an override cannot be read (the drain then misses
\* queues).
THEOREM UnprepareComplete ==
    ASSUME {"remove", "crash", "list", "override_read"} \cap Faults = {}
    PROVE  Spec => UnprepareTakesAllBack
<1> DEFINE TakesBack ==
      op = "unprepare" /\ pc \in {"destroy", "drain"} /\ wasVM /\ phase[claim] # "free"
         /\ (pc' = "return" \/ UnprepareSucceeds) =>
            \A q \in spec[claim].devices : Orphan(q)' => q \in todo'
<1>1. ASSUME ClaimInv, TeardownList, Next
      PROVE  TakesBack
  <2> SUFFICES ASSUME op = "unprepare", wasVM, pc \in {"destroy", "drain"},
                      pc' = "return" \/ UnprepareSucceeds,
                      NEW q \in spec[claim].devices, Orphan(q)'
               PROVE  q \in todo'
    OBVIOUS
  <2>a. claim \in Claims /\ phase \in [Claims -> Phases] /\ q \in Queues /\ pc' # pc
    BY Zenon, <1>1, DevicesAreQueues
    DEF ClaimInv, TypeOK, DeviceStateTypeOK, OperationOK, UnprepareSucceeds
  <2>1. ASSUME NEW ok \in BOOLEAN, UnprepareDestroy(ok)
        PROVE  q \in todo'
    <3>1. ~Finish("pending")
      BY Zenon, <2>a DEF Finish, UnprepareSucceeds
    <3>2. todo # {} /\ GoTo("return")
      BY Zenon, <2>1, <3>1 DEF UnprepareDestroy, GoTo, UnprepareSucceeds
    <3> QED
      BY Zenon, <1>1, <2>1, <3>2 DEF UnprepareDestroy, GoTo, TeardownList
  <2>2. ASSUME DrainOrphanedVFIOAP
        PROVE  q \in todo'
    <3>1. PICK unread \in SUBSET mdevs : todo' = Drained(liveAPQNs(unread), {})
      BY Zenon, <2>2 DEF DrainOrphanedVFIOAP
    <3>2. Orphan(q)
      BY Zenon, <2>2 DEF DrainOrphanedVFIOAP, Orphan, Claimed, Matrix
    <3>3. q \notin liveAPQNs(unread)
      BY Zenon, <3>2 DEF Orphan, liveAPQNs, Claimed
    <3> QED
      BY Zenon, <2>a, <3>1, <3>2, <3>3 DEF Drained, Orphan
  <2>3. ASSUME NEW ok \in BOOLEAN, SwitchStep(ok)
        PROVE  FALSE
    BY Zenon, <2>3 DEF SwitchStep, SetOverride, UnbindForVFIOAP, ProbeForVFIOAP, UnbindForZcrypt, ClearOverride,
                ProbeForZcrypt, RestoreMarker
  <2>4. ASSUME NEW ok \in BOOLEAN, Step(ok), ~SwitchStep(ok), ~UnprepareDestroy(ok)
        PROVE  FALSE
    BY Zenon, <2>4 DEF Step, DestroyPartial, CreateMdev, AssignAdapter, AssignDomain, AssignControlDomain,
                DestroyPartialMdev, GenerateClaimMetadata, GenerateClaimSpec, DeleteClaimMetadata,
                ReadMatrix, GCStaleClaimSpecs, GCStaleClaimMetadata, InitialScan
  <2>5. ASSUME SwitchDeadline \/ SwitchDone \/ ReturnDone \/ Start
        PROVE  FALSE
    BY Zenon, <2>5 DEF SwitchDeadline, SwitchDone, ReturnDone, Start
  <2>6. ASSUME NEW c \in Claims, Call(c)
        PROVE  FALSE
    BY Zenon, <2>6 DEF Call, PrepareRejects, PrepareContainer, PrepareVM, PrepareUnread, UnprepareBegins, Begins
  <2>7. ASSUME \/ Rescan \/ Crash \/ WriteMasks
               \/ \E u \in Uuids : ExternalRemove(u)
               \/ \E c \in Claims : Deallocate(c) \/ \E s \in Specs : Allocate(c, s)
        PROVE  FALSE
    BY Zenon, <2>7, <2>a DEF Rescan, Crash, WriteMasks, ExternalRemove, Deallocate, Allocate
  <2> QED
    BY Zenon, <1>1, <2>1, <2>2, <2>3, <2>4, <2>5, <2>6, <2>7 DEF Next, Progress
<1>2. ClaimInv /\ TeardownList /\ [Next]_vars => [TakesBack]_vars
  BY Zenon, <1>1
<1>3. {"remove", "crash"} \cap Faults = {}
  OBVIOUS
<1> QED
  BY <1>2, <1>3, ClaimsSafe, TeardownSafe, PTL DEF Spec, UnprepareTakesAllBack

-----------------------------------------------------------------------------
(* Every operation comes to its end *)

\* The stage of every step.
LEMMA Stages ==
    /\ Stage("delete_metadata") = 8
    /\ Stage("read_matrix") = 7 /\ Stage("destroy_partial") = 7
    /\ Stage("destroy") = 6 /\ Stage("switch") = 6
    /\ Stage("vfio_unbind") = 6 /\ Stage("vfio_probe") = 6
    /\ Stage("drain") = 5 /\ Stage("create") = 5
    /\ Stage("assign") = 4 /\ Stage("return") = 4
    /\ Stage("clear") = 4 /\ Stage("probe") = 4 /\ Stage("restore") = 4
    /\ Stage("gc_cdi") = 3 /\ Stage("control") = 3
    /\ Stage("gc_metadata") = 2 /\ Stage("metadata") = 2
    /\ Stage("scan") = 1 /\ Stage("cdi") = 1 /\ Stage("abandon") = 1
    /\ Stage("idle") = 0 /\ Stage("down") = 0
BY Zenon DEF Stage, ReturnSteps

\* What is left of every loop.
Lefts ==
    /\ pc \in {"switch", "return"} => Left = 4 * Cardinality(todo)
    /\ pc \in {"vfio_probe", "restore"} => Left = 4 * Cardinality(todo) + 1
    /\ pc \in {"vfio_unbind", "probe"} => Left = 4 * Cardinality(todo) + 2
    /\ pc = "clear" => Left = 4 * Cardinality(todo) + 3
    /\ pc = "assign" => Left = IF claim \in mdevs
                               THEN Cardinality(apids(spec[claim]) \ apm[claim])
                                       + Cardinality(apqis(spec[claim]) \ aqm[claim])
                               ELSE 0
    /\ pc = "control" => Left = IF claim \in mdevs
                                THEN Cardinality(ControlDomains(spec[claim]) \ adm[claim])
                                ELSE 0
    /\ pc \notin {"switch", "vfio_unbind", "vfio_probe", "assign", "control"} \cup ReturnSteps => Left = 0

\* Left is what the table says.
LEMMA LeftOfLoops == IsFiniteSet(todo) => Lefts
<1> SUFFICES ASSUME IsFiniteSet(todo) PROVE Lefts
  OBVIOUS
<1>0. Cardinality(todo) \in Nat
  BY Zenon, FS_CardinalityType
<1>1. CASE pc \in {"switch", "vfio_unbind", "vfio_probe"} \cup ReturnSteps
  <2>1. Left = 4 * Cardinality(todo) + Substep
    BY Zenon, <1>1 DEF Left, ReturnSteps
  <2>2. /\ pc \in {"switch", "return"} => Substep = 0
        /\ pc \in {"vfio_probe", "restore"} => Substep = 1
        /\ pc \in {"vfio_unbind", "probe"} => Substep = 2
        /\ pc = "clear" => Substep = 3
    BY Zenon DEF Substep
  <2> QED
    BY <1>0, <1>1, <2>1, <2>2 DEF Lefts, ReturnSteps
<1>2. CASE pc \notin {"switch", "vfio_unbind", "vfio_probe"} \cup ReturnSteps
  BY Zenon, <1>2 DEF Lefts, Left, ReturnSteps
<1> QED
  BY Zenon, <1>1, <1>2

\* The loops run over finite sets.
LEMMA FiniteLoops ==
    ASSUME ClaimInv
    PROVE  /\ IsFiniteSet(todo) /\ Cardinality(todo) \in Nat
           /\ claim \in Claims => /\ IsFiniteSet(apids(spec[claim]))
                                  /\ IsFiniteSet(apqis(spec[claim]))
                                  /\ IsFiniteSet(ControlDomains(spec[claim]))
<1>1. IsFiniteSet(Adapters \X Domains) /\ Queues \subseteq Adapters \X Domains
  BY Zenon, SysfsAssumption, FS_Product
<1>2. IsFiniteSet(todo) /\ Cardinality(todo) \in Nat
  BY Zenon, <1>1, FS_Subset, FS_CardinalityType DEF ClaimInv, TypeOK, BindingTypeOK
<1>3. ASSUME claim \in Claims
      PROVE  /\ apids(spec[claim]) \subseteq Adapters
             /\ apqis(spec[claim]) \subseteq Domains
             /\ ControlDomains(spec[claim]) \subseteq Domains
  <2>1. spec[claim].devices \subseteq Adapters \X Domains
    BY Zenon, <1>1, <1>3, DevicesAreQueues DEF ClaimInv, TypeOK, DeviceStateTypeOK
  <2> QED
    BY Zenon, <2>1 DEF apids, apqis, ControlDomains
<1> QED
  BY Zenon, <1>2, <1>3, FS_Subset, SysfsAssumption

\* An element taken is one element less.
LEMMA OneLess ==
    ASSUME NEW S, IsFiniteSet(S), NEW x \in S
    PROVE  Cardinality(S) \in Nat /\ Cardinality(S \ {x}) \in Nat /\ Cardinality(S \ {x}) < Cardinality(S)
<1>1. Cardinality(S \ {x}) = Cardinality(S) - 1 /\ IsFiniteSet(S \ {x})
  BY Zenon, FS_RemoveElement
<1>2. Cardinality(S) \in Nat /\ Cardinality(S \ {x}) \in Nat
  BY Zenon, <1>1, FS_CardinalityType
<1> QED
  BY <1>1, <1>2

\* A sum falls with either part.
LEMMA SumFalls ==
    ASSUME NEW x \in Nat, NEW y \in Nat, NEW z \in Nat, y < x
    PROVE  y + z < x + z /\ z + y < z + x
OBVIOUS

\* What is left is a number of writes: an operation cannot come nearer to its end
\* for ever.
LEMMA LeftIsNat == ClaimInv => Left \in Nat
<1> SUFFICES ASSUME ClaimInv PROVE Left \in Nat
  OBVIOUS
<1>1. IsFiniteSet(todo) /\ Cardinality(todo) \in Nat
  BY Zenon, FiniteLoops
<1>2. Lefts
  BY Zenon, <1>1, LeftOfLoops
<1>3. pc \in {"assign", "control"} =>
         /\ Cardinality(apids(spec[claim]) \ apm[claim]) \in Nat
         /\ Cardinality(apqis(spec[claim]) \ aqm[claim]) \in Nat
         /\ Cardinality(ControlDomains(spec[claim]) \ adm[claim]) \in Nat
  <2> SUFFICES ASSUME claim \in Claims
               PROVE  /\ Cardinality(apids(spec[claim]) \ apm[claim]) \in Nat
                      /\ Cardinality(apqis(spec[claim]) \ aqm[claim]) \in Nat
                      /\ Cardinality(ControlDomains(spec[claim]) \ adm[claim]) \in Nat
    BY Zenon DEF ClaimInv, OperationOK, PrepareSteps
  <2>1. /\ IsFiniteSet(apids(spec[claim]) \ apm[claim])
        /\ IsFiniteSet(apqis(spec[claim]) \ aqm[claim])
        /\ IsFiniteSet(ControlDomains(spec[claim]) \ adm[claim])
    BY Zenon, FiniteLoops, FS_Difference
  <2> QED
    BY Zenon, <2>1, FS_CardinalityType
<1> QED
  BY <1>1, <1>2, <1>3 DEF Lefts, ReturnSteps

\* A step that is not part of a loop ends its stage.
LEMMA StageEnds ==
    ASSUME ClaimInv,
           \/ \E ok \in BOOLEAN :
                 \/ DestroyPartial(ok) \/ CreateMdev(ok) \/ DestroyPartialMdev(ok)
                 \/ GenerateClaimMetadata(ok) \/ GenerateClaimSpec(ok)
                 \/ DeleteClaimMetadata(ok) \/ ReadMatrix(ok) \/ UnprepareDestroy(ok)
                 \/ GCStaleClaimSpecs(ok) \/ GCStaleClaimMetadata(ok) \/ InitialScan(ok)
           \/ SwitchDeadline \/ SwitchDone \/ DrainOrphanedVFIOAP \/ ReturnDone
    PROVE  Nearer
<1>1. ASSUME NEW ok \in BOOLEAN,
             DestroyPartial(ok) \/ CreateMdev(ok) \/ DestroyPartialMdev(ok)
      PROVE  Stage(pc') < Stage(pc)
  <2>1. \/ pc = "destroy_partial" /\ pc' \in {"switch", "idle"}
        \/ pc = "create" /\ pc' \in {"assign", "idle"}
        \/ pc = "abandon" /\ pc' = "idle"
    BY Zenon, <1>1 DEF DestroyPartial, CreateMdev, DestroyPartialMdev, GoTo, Finish
  <2> QED
    BY <2>1, Stages
<1>2. ASSUME NEW ok \in BOOLEAN,
             GenerateClaimMetadata(ok) \/ GenerateClaimSpec(ok)
      PROVE  Stage(pc') < Stage(pc)
  <2>1. \/ pc = "metadata" /\ pc' \in {"cdi", "idle"}
        \/ pc = "cdi" /\ pc' = "idle"
    BY Zenon, <1>2 DEF GenerateClaimMetadata, GenerateClaimSpec, GoTo, Finish
  <2> QED
    BY <2>1, Stages
<1>3. ASSUME NEW ok \in BOOLEAN,
             DeleteClaimMetadata(ok) \/ ReadMatrix(ok) \/ UnprepareDestroy(ok)
      PROVE  Stage(pc') < Stage(pc)
  <2>1. \/ pc = "delete_metadata" /\ pc' = "read_matrix"
        \/ pc = "read_matrix" /\ pc' = "destroy"
        \/ pc = "destroy" /\ pc' \in {"idle", "return", "drain"}
    BY Zenon, <1>3 DEF DeleteClaimMetadata, ReadMatrix, UnprepareDestroy, GoTo, Finish
  <2> QED
    BY <2>1, Stages
<1>4. ASSUME NEW ok \in BOOLEAN,
             GCStaleClaimSpecs(ok) \/ GCStaleClaimMetadata(ok) \/ InitialScan(ok)
      PROVE  Stage(pc') < Stage(pc)
  <2>1. \/ pc = "gc_cdi" /\ pc' = "gc_metadata"
        \/ pc = "gc_metadata" /\ pc' = "scan"
        \/ pc = "scan" /\ pc' \in {"idle", "down"}
    BY Zenon, <1>4 DEF GCStaleClaimSpecs, GCStaleClaimMetadata, InitialScan, GoTo, Finish, Stopped
  <2> QED
    BY <2>1, Stages
<1>5. ASSUME SwitchDeadline \/ SwitchDone \/ DrainOrphanedVFIOAP \/ ReturnDone
      PROVE  Stage(pc') < Stage(pc)
  <2>1. \/ pc = "switch" /\ pc' \in {"return", "create"}
        \/ pc = "drain" /\ pc' = "return"
        \/ pc = "return" /\ pc' \in {"idle", "gc_cdi"}
    BY Zenon, <1>5
       DEF SwitchDeadline, SwitchDone, DrainOrphanedVFIOAP, ReturnDone, Rollback, GoTo, Finish
  <2> QED
    BY <2>1, Stages
<1> QED
  BY <1>1, <1>2, <1>3, <1>4, <1>5 DEF Nearer

\* Every write of SwitchToVFIOAP and SwitchToZcrypt brings their loop forward.
LEMMA SwitchAdvances ==
    ASSUME ClaimInv, ClaimInv', NEW ok \in BOOLEAN, SwitchStep(ok)
    PROVE  Nearer
<1>a. IsFiniteSet(todo) /\ Cardinality(todo) \in Nat /\ IsFiniteSet(todo') /\ Cardinality(todo') \in Nat
  <2>1. (IsFiniteSet(todo) /\ Cardinality(todo) \in Nat)'
    BY FiniteLoops, PTL
  <2> QED
    BY Zenon, <2>1, FiniteLoops
<1>b. Lefts /\ Lefts'
  <2>1. IsFiniteSet(todo)' => Lefts'
    BY LeftOfLoops, PTL
  <2> QED
    BY Zenon, <1>a, <2>1, LeftOfLoops
<1>1. ASSUME NEW q \in Queues, SetOverride(q, ok)
      PROVE  Nearer
  <2>1. CASE OverrideAccepted(ok)
    <3>1. pc = "switch" /\ pc' = "vfio_unbind" /\ q \in todo /\ todo' = todo \ {q}
      BY Zenon, <1>1, <2>1 DEF SetOverride
    <3>2. Left = 4 * Cardinality(todo) /\ Left' = 4 * Cardinality(todo') + 2
      BY <1>b, <3>1 DEF Lefts
    <3>3. Cardinality(todo') < Cardinality(todo)
      BY Zenon, <1>a, <3>1, OneLess
    <3> QED
      BY <1>a, <3>1, <3>2, <3>3, Stages DEF Nearer
  <2>2. CASE ~OverrideAccepted(ok)
    BY <1>1, <2>2, Stages DEF SetOverride, Rollback, Nearer
  <2> QED
    BY <2>1, <2>2
<1>2. ASSUME NEW q \in Queues, UnbindForZcrypt(q, ok)
      PROVE  Nearer
  <2>1. pc = "return" /\ pc' \in {"clear", "return"} /\ q \in todo /\ todo' = todo \ {q}
    BY Zenon, <1>2 DEF UnbindForZcrypt, BackToLoop
  <2>2. Left = 4 * Cardinality(todo) /\ Left' \in {4 * Cardinality(todo'), 4 * Cardinality(todo') + 3}
    BY Zenon, <1>b, <2>1 DEF Lefts
  <2>3. Cardinality(todo') < Cardinality(todo)
    BY <1>a, <2>1, OneLess
  <2> QED
    BY <1>a, <2>1, <2>2, <2>3, Stages DEF Nearer
<1>3. ASSUME UnbindForVFIOAP(ok) \/ ProbeForVFIOAP(ok)
      PROVE  Nearer
  <2>1. CASE pc' = "return"
    BY <1>3, <2>1, Stages DEF UnbindForVFIOAP, ProbeForVFIOAP, Nearer
  <2>2. CASE pc' # "return"
    <3>1. /\ todo' = todo
          /\ \/ pc = "vfio_unbind" /\ pc' = "vfio_probe"
             \/ pc = "vfio_probe" /\ pc' = "switch"
      BY Zenon, <1>3, <2>2 DEF UnbindForVFIOAP, ProbeForVFIOAP, Rollback
    <3>2. Left' < Left
      BY <1>a, <1>b, <3>1 DEF Lefts
    <3> QED
      BY Zenon, <3>1, <3>2, Stages DEF Nearer
  <2> QED
    BY Zenon, <2>1, <2>2
<1>4. ASSUME ClearOverride(ok) \/ ProbeForZcrypt(ok) \/ RestoreMarker(ok)
      PROVE  Nearer
  <2>1. /\ todo' = todo
        /\ \/ pc = "clear" /\ pc' = "probe"
           \/ pc = "probe" /\ pc' = "restore"
           \/ pc \in {"clear", "probe", "restore"} /\ pc' = "return"
    BY Zenon, <1>4 DEF ClearOverride, ProbeForZcrypt, RestoreMarker, BackToLoop
  <2>2. Left' < Left
    BY <1>a, <1>b, <2>1 DEF Lefts
  <2> QED
    BY Zenon, <2>1, <2>2, Stages DEF Nearer
<1> QED
  BY Zenon, <1>1, <1>2, <1>3, <1>4 DEF SwitchStep

\* Every assign write sets one more bit of the mdev or gives the mdev up.
LEMMA AssignAdvances ==
    ASSUME ClaimInv, ClaimInv', NEW ok \in BOOLEAN,
           \/ \E a \in Adapters : AssignAdapter(a, ok)
           \/ \E d \in Domains : AssignDomain(d, ok) \/ AssignControlDomain(d, ok)
    PROVE  Nearer
<1>a. IsFiniteSet(todo) /\ IsFiniteSet(todo)'
  <2>1. (IsFiniteSet(todo))'
    BY FiniteLoops, PTL
  <2> QED
    BY Zenon, <2>1, FiniteLoops
<1>b. Lefts /\ Lefts'
  <2>1. IsFiniteSet(todo)' => Lefts'
    BY LeftOfLoops, PTL
  <2> QED
    BY Zenon, <1>a, <2>1, LeftOfLoops
<1>c. pc \in {"assign", "control"} => claim \in Claims
  BY Zenon DEF ClaimInv, OperationOK, PrepareSteps
<1>d. apm \in [Uuids -> SUBSET Adapters] /\ aqm \in [Uuids -> SUBSET Domains]
      /\ adm \in [Uuids -> SUBSET Domains] /\ Claims \subseteq Uuids
  BY Zenon DEF ClaimInv, TypeOK, SysfsTypeOK, Uuids
<1>1. CASE ~AssignSucceeds(ok)
  BY <1>1, Stages DEF AssignAdapter, AssignDomain, AssignControlDomain, GoTo, Nearer
<1>2. ASSUME NEW a \in Adapters, AssignAdapter(a, ok), AssignSucceeds(ok)
      PROVE  Nearer
  <2> DEFINE S == apids(spec[claim]) \ apm[claim]
             D == apqis(spec[claim]) \ aqm[claim]
  <2>1. /\ pc = "assign" /\ pc' = "assign" /\ claim \in mdevs /\ a \in S
        /\ UNCHANGED <<claim, spec, mdevs, aqm>>
        /\ apm'[claim] = apm[claim] \cup {a}
    BY <1>2, <1>c, <1>d DEF AssignAdapter, AssignSucceeds, GoTo
  <2>2. S' = S \ {a} /\ D' = D
    BY Zenon, <2>1
  <2>3. IsFiniteSet(S) /\ Cardinality(D) \in Nat
    BY Zenon, <1>c, <2>1, FiniteLoops, FS_Subset, FS_CardinalityType
  <2>4. Left = Cardinality(S) + Cardinality(D) /\ Left' = Cardinality(S \ {a}) + Cardinality(D)
    BY Zenon, <1>b, <2>1, <2>2 DEF Lefts
  <2>5. /\ Cardinality(S) \in Nat /\ Cardinality(S \ {a}) \in Nat
        /\ Cardinality(S \ {a}) < Cardinality(S)
    BY Zenon, <2>1, <2>3, OneLess
  <2>6. Left' < Left
    BY Zenon, <2>3, <2>4, <2>5, SumFalls
  <2> QED
    BY Zenon, <2>1, <2>6 DEF Nearer
<1>3. ASSUME NEW d \in Domains, AssignDomain(d, ok), AssignSucceeds(ok)
      PROVE  Nearer
  <2> DEFINE S == apids(spec[claim]) \ apm[claim]
             D == apqis(spec[claim]) \ aqm[claim]
  <2>1. /\ pc = "assign" /\ pc' \in {"assign", "control", "metadata"} /\ claim \in mdevs /\ d \in D
        /\ UNCHANGED <<claim, spec, mdevs, apm>>
        /\ aqm'[claim] = aqm[claim] \cup {d}
    BY Zenon, <1>3, <1>c, <1>d DEF AssignDomain, AssignSucceeds, GoTo
  <2>2. CASE pc' = "assign"
    <3>1. S' = S /\ D' = D \ {d}
      BY Zenon, <2>1
    <3>2. IsFiniteSet(D) /\ Cardinality(S) \in Nat
      BY Zenon, <1>c, <2>1, FiniteLoops, FS_Subset, FS_CardinalityType
    <3>3. Left = Cardinality(S) + Cardinality(D) /\ Left' = Cardinality(S) + Cardinality(D \ {d})
      BY Zenon, <1>b, <2>1, <2>2, <3>1 DEF Lefts
    <3>4. /\ Cardinality(D) \in Nat /\ Cardinality(D \ {d}) \in Nat
          /\ Cardinality(D \ {d}) < Cardinality(D)
      BY Zenon, <2>1, <3>2, OneLess
    <3>5. Left' < Left
      BY Zenon, <3>2, <3>3, <3>4, SumFalls
    <3> QED
      BY Zenon, <2>1, <2>2, <3>5 DEF Nearer
  <2>3. CASE pc' # "assign"
    BY <2>1, <2>3, Stages DEF Nearer
  <2> QED
    BY Zenon, <2>2, <2>3
<1>4. ASSUME NEW d \in Domains, AssignControlDomain(d, ok), AssignSucceeds(ok)
      PROVE  Nearer
  <2> DEFINE D == ControlDomains(spec[claim]) \ adm[claim]
  <2>1. /\ pc = "control" /\ pc' \in {"control", "metadata"} /\ claim \in mdevs /\ d \in D
        /\ UNCHANGED <<claim, spec, mdevs>>
        /\ adm'[claim] = adm[claim] \cup {d}
    BY Zenon, <1>4, <1>c, <1>d DEF AssignControlDomain, AssignSucceeds, GoTo
  <2>2. CASE pc' = "control"
    <3>1. D' = D \ {d}
      BY Zenon, <2>1
    <3>2. IsFiniteSet(D)
      BY Zenon, <1>c, <2>1, FiniteLoops, FS_Subset
    <3>3. Left = Cardinality(D) /\ Left' = Cardinality(D \ {d})
      BY Zenon, <1>b, <2>1, <2>2, <3>1 DEF Lefts
    <3> QED
      BY Zenon, <2>1, <2>2, <3>2, <3>3, OneLess DEF Nearer
  <2>3. CASE pc' # "control"
    BY <2>1, <2>3, Stages DEF Nearer
  <2> QED
    BY Zenon, <2>2, <2>3
<1> QED
  BY Zenon, <1>1, <1>2, <1>3, <1>4


\* What else happens on the node while an operation runs sets it back in nothing.
LEMMA OutsideAdvances ==
    ASSUME ClaimInv, ClaimInv', Next, ~Progress, op # "none"
    PROVE  Nearer \/ AsNear
<1>a. pc \notin {"idle", "down"}
  BY Zenon DEF ClaimInv, OperationOK
<1>b. Lefts /\ Lefts'
  <2>1. (IsFiniteSet(todo))'
    BY FiniteLoops, PTL
  <2>2. IsFiniteSet(todo)' => Lefts'
    BY LeftOfLoops, PTL
  <2> QED
    BY Zenon, <2>1, <2>2, FiniteLoops, LeftOfLoops
<1>c. pc \in {"assign", "control"} => claim \in Claims /\ phase[claim] = "pending"
  BY Zenon DEF ClaimInv, OperationOK, PrepareSteps
<1>d. ASSUME UNCHANGED <<pc, todo>>, pc \notin {"assign", "control"}
      PROVE  AsNear
  <2>1. Left' = Left
    BY Zenon, <1>b, <1>d DEF Lefts, ReturnSteps
  <2> QED
    BY Zenon, <1>d, <2>1 DEF AsNear
<1>1. CASE Crash
  <2>1. Stage(pc) > 0 /\ Stage(pc) \in Nat
    BY <1>a, Stages DEF ClaimInv, TypeOK, DeviceStateTypeOK, Steps, PrepareSteps, UnprepareSteps,
                        ReturnSteps, StartupSteps
  <2> QED
    BY Zenon, <1>1, <2>1, Stages DEF Crash, Stopped, Nearer
<1>2. ASSUME UNCHANGED <<pc, todo, claim, mdevs, apm, aqm, adm>>,
             pc \in {"assign", "control"} => spec'[claim] = spec[claim]
      PROVE  AsNear
  <2>1. CASE pc \in {"assign", "control"}
    BY Zenon, <1>2, <1>b, <2>1 DEF Lefts, AsNear
  <2>2. CASE pc \notin {"assign", "control"}
    BY Zenon, <1>d, <1>2, <2>2
  <2> QED
    BY Zenon, <2>1, <2>2
<1>3. ASSUME NEW c \in Claims, Deallocate(c) \/ \E s \in Specs : Allocate(c, s)
      PROVE  AsNear
  <2>1. phase[c] # "pending" /\ \A d \in Claims \ {c} : spec'[d] = spec[d]
    BY Zenon, <1>3 DEF Deallocate, Allocate, ClaimInv, TypeOK, DeviceStateTypeOK
  <2> QED
    BY <1>c, <1>2, <1>3, <2>1 DEF Deallocate, Allocate
<1>4. CASE WriteMasks
  BY Zenon, <1>2, <1>4 DEF WriteMasks
<1>5. ASSUME NEW u \in Uuids, ExternalRemove(u)
      PROVE  Nearer \/ AsNear
  <2>1. UNCHANGED <<pc, todo, claim, spec>>
    BY Zenon, <1>5 DEF ExternalRemove
  <2>2. CASE pc \notin {"assign", "control"}
    BY Zenon, <1>d, <2>1, <2>2
  <2>3. CASE pc \in {"assign", "control"} /\ u # claim
    <3>1. /\ claim \in mdevs' <=> claim \in mdevs
          /\ apm'[claim] = apm[claim] /\ aqm'[claim] = aqm[claim] /\ adm'[claim] = adm[claim]
      BY Zenon, <1>c, <1>5, <2>3 DEF ExternalRemove, RemoveMdev, ClaimInv, TypeOK, SysfsTypeOK, Uuids
    <3> QED
      BY <1>b, <2>1, <2>3, <3>1 DEF Lefts, AsNear
  <2>4. CASE pc \in {"assign", "control"} /\ u = claim
    <3>1. claim \notin mdevs'
      BY Zenon, <1>5, <2>4 DEF ExternalRemove, RemoveMdev
    <3>2. Left' = 0
      BY <1>b, <2>1, <2>4, <3>1 DEF Lefts
    <3>3. Left \in Nat
      BY Zenon, LeftIsNat
    <3> QED
      BY <2>1, <3>2, <3>3 DEF Nearer, AsNear
  <2> QED
    BY Zenon, <2>2, <2>3, <2>4
<1>6. ~Start /\ ~Rescan /\ \A c \in Claims : ~Call(c)
  BY Zenon, <1>a DEF Start, Rescan, Call, PrepareRejects, PrepareContainer, PrepareVM, PrepareUnread,
                     UnprepareBegins, Begins
<1> QED
  BY Zenon, <1>1, <1>3, <1>4, <1>5, <1>6 DEF Next

\* Every step of an operation brings it nearer to its end, for any bus, any claims
\* and any failures: with LeftIsNat, no Prepare, Unprepare or startup takes
\* steps for ever (what is left for TLC is that its next step is always possible).
THEOREM OperationsComeToAnEnd == Spec => OperationsAdvance
<1> DEFINE Advance == op # "none" => Nearer \/ (AsNear /\ ~Progress)
<1>1. ASSUME ClaimInv, ClaimInv', Progress
      PROVE  Nearer
  BY Zenon, <1>1, StageEnds, SwitchAdvances, AssignAdvances DEF Progress, Step
<1>2. ClaimInv /\ ClaimInv' /\ [Next]_vars => [Advance]_vars
  BY Zenon, <1>1, OutsideAdvances
<1> QED
  BY <1>2, ClaimsSafe, PTL DEF Spec, OperationsAdvance

-----------------------------------------------------------------------------
(* Calls that nothing disturbs *)

\* The failures that can end a call: a write, the deadline, or an mdev that
\* something else removes.
CallFaults == {"masks", "override", "unbind", "probe", "create", "assign", "control", "remove",
               "file", "deadline", "external"}

\* Without them no Prepare rolls back or gives up, and its mdev stays.
OnTrack ==
    /\ ~masked
    /\ pc # "abandon"
    /\ op = "prepare" => pc \notin ReturnSteps
    /\ pc \in {"assign", "control", "metadata", "cdi"} => claim \in mdevs

\* Every step keeps a call on its way.
LEMMA OnTrackStep ==
    ASSUME CallFaults \cap Faults = {}, ClaimInv, OnTrack, Next
    PROVE  OnTrack'
<1> USE DEF OnTrack
<1>a. ClaimInv /\ OnTrack
  OBVIOUS
<1>1. ASSUME NEW p, Finish(p), masked' = masked
      PROVE  OnTrack'
  BY Zenon, <1>1 DEF Finish, ReturnSteps
<1>2. ASSUME NEW ok \in BOOLEAN, SwitchStep(ok)
      PROVE  OnTrack'
  <2>1. ASSUME NEW q \in Queues, SetOverride(q, ok)
        PROVE  OnTrack'
    BY Zenon, <2>1 DEF SetOverride, OverrideAccepted, Outcome, CallFaults, ReturnSteps
  <2>2. ASSUME UnbindForVFIOAP(ok) \/ ProbeForVFIOAP(ok)
        PROVE  OnTrack'
    BY <2>2 DEF UnbindForVFIOAP, ProbeForVFIOAP, UnbindSucceeds, Outcome, CallFaults, ReturnSteps
  <2>3. ASSUME \/ \E q \in Queues : UnbindForZcrypt(q, ok)
               \/ ClearOverride(ok) \/ ProbeForZcrypt(ok) \/ RestoreMarker(ok)
        PROVE  OnTrack'
    BY <2>3 DEF UnbindForZcrypt, ClearOverride, ProbeForZcrypt, RestoreMarker, BackToLoop, ReturnSteps
  <2> QED
    BY Zenon, <1>2, <2>1, <2>2, <2>3 DEF SwitchStep
<1>3. ASSUME SwitchDeadline \/ SwitchDone \/ DrainOrphanedVFIOAP
      PROVE  OnTrack'
  BY <1>3 DEF SwitchDeadline, SwitchDone, DrainOrphanedVFIOAP, CallFaults, ReturnSteps,
              ClaimInv, OperationOK
<1>4. ASSUME NEW ok \in BOOLEAN, DestroyPartial(ok) \/ CreateMdev(ok) \/ DestroyPartialMdev(ok)
      PROVE  OnTrack'
  BY <1>1, <1>4 DEF DestroyPartial, CreateMdev, DestroyPartialMdev, GoTo, ReturnSteps
<1>5. ASSUME NEW ok \in BOOLEAN,
             \/ \E a \in Adapters : AssignAdapter(a, ok)
             \/ \E d \in Domains : AssignDomain(d, ok) \/ AssignControlDomain(d, ok)
      PROVE  OnTrack'
  BY <1>5 DEF AssignAdapter, AssignDomain, AssignControlDomain, AssignSucceeds, Outcome, GoTo,
              CallFaults, ReturnSteps
<1>6. ASSUME NEW ok \in BOOLEAN,
             GenerateClaimMetadata(ok) \/ GenerateClaimSpec(ok) \/ DeleteClaimMetadata(ok) \/ ReadMatrix(ok)
      PROVE  OnTrack'
  BY <1>1, <1>6 DEF GenerateClaimMetadata, GenerateClaimSpec, DeleteClaimMetadata, ReadMatrix, GoTo, ReturnSteps
<1>7. ASSUME NEW ok \in BOOLEAN, UnprepareDestroy(ok)
      PROVE  OnTrack'
  BY Zenon, <1>1, <1>7 DEF UnprepareDestroy, GoTo, ClaimInv, OperationOK, UnprepareSteps, ReturnSteps
<1>8. ASSUME NEW ok \in BOOLEAN, GCStaleClaimSpecs(ok) \/ GCStaleClaimMetadata(ok) \/ InitialScan(ok)
      PROVE  OnTrack'
  BY <1>1, <1>8 DEF GCStaleClaimSpecs, GCStaleClaimMetadata, InitialScan, Stopped, GoTo, ReturnSteps
<1>9. ASSUME ReturnDone
      PROVE  OnTrack'
  BY Zenon, <1>1, <1>9 DEF ReturnDone, GoTo, ReturnSteps
<1>10. ASSUME NEW c \in Claims, Call(c)
       PROVE  OnTrack'
  <2>1. CASE PrepareRejects(c) \/ PrepareContainer(c) \/ PrepareUnread(c)
    <3>1. UNCHANGED <<masked, pc, op, claim>> /\ pc = "idle"
      BY Zenon, <2>1 DEF PrepareRejects, PrepareContainer, PrepareUnread, Begins
    <3> QED
      BY Zenon, <3>1
  <2>2. CASE PrepareVM(c)
    <3>1. /\ masked' = masked /\ claim' = c /\ mdevs' = mdevs
          /\ pc' = "switch" \/ (c \in mdevs /\ pc' \in {"metadata", "destroy_partial"})
      BY Zenon, <2>2 DEF PrepareVM
    <3> QED
      BY Zenon, <3>1 DEF ReturnSteps
  <2>3. ASSUME NEW ok \in BOOLEAN, UnprepareBegins(c, ok)
        PROVE  OnTrack'
    <3>1. masked' = masked /\ (pc' = "delete_metadata" \/ (pc = "idle" /\ UNCHANGED <<pc, op>>))
      BY Zenon, <2>3 DEF UnprepareBegins
    <3> QED
      BY Zenon, <3>1 DEF ReturnSteps
  <2> QED
    BY Zenon, <1>10, <2>1, <2>2, <2>3 DEF Call
<1>11. ASSUME NEW c \in Claims, Deallocate(c) \/ \E s \in Specs : Allocate(c, s)
       PROVE  OnTrack'
  <2>1. UNCHANGED <<masked, pc, op, claim, mdevs>>
    BY Zenon, <1>11 DEF Deallocate, Allocate
  <2> QED
    BY Zenon, <2>1
<1>12. ASSUME Start \/ Rescan \/ Crash \/ WriteMasks \/ \E u \in Uuids : ExternalRemove(u)
       PROVE  OnTrack'
  BY <1>12 DEF Start, Rescan, Crash, Stopped, WriteMasks, ExternalRemove, CallFaults, ReturnSteps
<1> HIDE DEF OnTrack
<1>13. CASE Progress
  BY <1>2, <1>3, <1>4, <1>5, <1>6, <1>7, <1>8, <1>9, <1>13 DEF Progress, Step
<1> QED
  BY <1>10, <1>11, <1>12, <1>13 DEF Next

\* While no write of the driver fails and no deadline ends, a VM Prepare that
\* passed its checks and every Unprepare succeed, wherever the process died before
\* and whatever it left: half-switched queues, partial mdevs, files without one.
\* Matrices, overrides and the list of mdevs may be unreadable, scans may miss
\* cards or fail.
THEOREM RetriesGetThrough ==
    ASSUME CallFaults \cap Faults = {}
    PROVE  Spec => RetriedCallsSucceed
<1> DEFINE Succeeds ==
      pc' = "idle" /\ op \in {"prepare", "unprepare"} => phase'[claim] # "pending"
<1>1. Init => OnTrack
  BY Zenon DEF Init, SysfsInit, OnTrack
<1>2. ClaimInv /\ OnTrack /\ [Next]_vars => OnTrack'
  <2>1. OnTrack /\ UNCHANGED vars => OnTrack'
    BY DEF OnTrack
  <2> QED
    BY Zenon, <2>1, OnTrackStep
<1>3. ASSUME ClaimInv, OnTrack, Next, pc' = "idle", op \in {"prepare", "unprepare"}
      PROVE  phase'[claim] # "pending"
  <2>a. claim \in Claims /\ phase \in [Claims -> Phases] /\ pc \notin {"idle", "down"}
    BY Zenon, <1>3 DEF ClaimInv, TypeOK, DeviceStateTypeOK, OperationOK
  <2>b. Finish(Released) \/ Finish("prepared") => phase'[claim] # "pending"
    BY Zenon, <2>a DEF Finish, Released
  <2>c. "file" \notin Faults /\ "remove" \notin Faults /\ "external" \notin Faults /\ "create" \notin Faults
    BY Zenon DEF CallFaults
  <2>1. ASSUME NEW ok \in BOOLEAN, GenerateClaimMetadata(ok) \/ GenerateClaimSpec(ok)
        PROVE  phase'[claim] # "pending"
    BY <1>3, <2>b, <2>c, <2>1 DEF GenerateClaimMetadata, GenerateClaimSpec, Outcome, OnTrack, GoTo
  <2>2. ASSUME NEW ok \in BOOLEAN, DestroyPartial(ok) \/ CreateMdev(ok) \/ DestroyPartialMdev(ok)
        PROVE  FALSE
    BY Zenon, <1>3, <2>c, <2>2 DEF DestroyPartial, CreateMdev, DestroyPartialMdev, Destroy, Outcome, OnTrack, GoTo
  <2>3. ASSUME NEW ok \in BOOLEAN, UnprepareDestroy(ok)
        PROVE  phase'[claim] # "pending"
    <3>1. DestroySucceeds(ok)
      BY Zenon, <2>c, <2>3 DEF UnprepareDestroy, Destroy
    <3> QED
      BY <1>3, <2>b, <2>3, <3>1 DEF UnprepareDestroy, GoTo
  <2>4. ASSUME ReturnDone
        PROVE  phase'[claim] # "pending"
    BY <1>3, <2>b, <2>4 DEF ReturnDone, OnTrack, ReturnSteps, GoTo
  <2>5. ASSUME NEW ok \in BOOLEAN,
               \/ SwitchStep(ok) \/ SwitchDeadline \/ SwitchDone \/ DrainOrphanedVFIOAP
        PROVE  FALSE
    BY Zenon, <1>3, <2>5 DEF SwitchStep, SetOverride, UnbindForVFIOAP, ProbeForVFIOAP, UnbindForZcrypt, ClearOverride,
                      ProbeForZcrypt, RestoreMarker, Rollback, BackToLoop, SwitchDeadline, SwitchDone,
                      DrainOrphanedVFIOAP
  <2>6. ASSUME NEW ok \in BOOLEAN,
               \/ \E a \in Adapters : AssignAdapter(a, ok)
               \/ \E d \in Domains : AssignDomain(d, ok) \/ AssignControlDomain(d, ok)
        PROVE  FALSE
    BY Zenon, <1>3, <2>6 DEF AssignAdapter, AssignDomain, AssignControlDomain, GoTo
  <2>7. ASSUME NEW ok \in BOOLEAN, DeleteClaimMetadata(ok) \/ ReadMatrix(ok)
        PROVE  FALSE
    BY Zenon, <1>3, <2>7 DEF DeleteClaimMetadata, ReadMatrix, GoTo
  <2>8. ASSUME NEW ok \in BOOLEAN, GCStaleClaimSpecs(ok) \/ GCStaleClaimMetadata(ok) \/ InitialScan(ok)
        PROVE  FALSE
    BY Zenon, <1>3, <2>8 DEF GCStaleClaimSpecs, GCStaleClaimMetadata, InitialScan, ClaimInv, OperationOK, StartupSteps
  <2>9. CASE Progress
    BY Zenon, <2>1, <2>2, <2>3, <2>4, <2>5, <2>6, <2>7, <2>8, <2>9 DEF Progress, Step
  <2> QED
    BY Zenon, <1>3, <2>a, <2>9, RunsAlone DEF Crash, Stopped
<1>4. ClaimInv /\ OnTrack /\ [Next]_vars => [Succeeds]_vars
  BY Zenon, <1>3
<1> QED
  BY <1>1, <1>2, <1>4, ClaimsSafe, PTL DEF Spec, RetriedCallsSucceed
=============================================================================
