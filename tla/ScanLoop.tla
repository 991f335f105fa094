------------------------------ MODULE ScanLoop ------------------------------
(***************************************************************************)
(* The processes that share the driver: the scan loop, the RPC handlers of *)
(* the kubelet plugin helper, the clock with the liveness probe, and the   *)
(* main goroutine that starts and stops them (internal/driver, the locks   *)
(* of internal/devicestate, internal/health, runPlugin).                   *)
(*                                                                         *)
(* at is the goroutine that runs driver.New and then the scan loop.  An    *)
(* RPC handler first takes the helper's mutex, which ignores its context,  *)
(* and then, for each claim, the state lock, which does not.  What it      *)
(* writes under the lock is abstracted to the bindings it changes.         *)
(***************************************************************************)
EXTENDS Scanner

CONSTANTS
    Rpcs,           \* concurrent calls of the kubelet
    Bindings,       \* the drivers calls leave a queue with, "" for none
    MaxClaims,      \* bound: claims in one call
    StaleMultiple   \* scan intervals before the heartbeat is stale

ASSUME ScanLoopAssumption ==
    /\ Bindings \subseteq Drivers
    /\ MaxClaims \in Nat \ {0}
    /\ StaleMultiple \in Nat \ {0}

VARIABLES
    cycle,      \* what started the scan; "fresh" before the loop's first one
    stored,     \* DeviceState.driverResources
    published,  \* what PublishResources was last given
    trigger,    \* scanTrigger, a channel of capacity one
    tick,       \* the ticker's channel
    age,        \* intervals since the heartbeat, rounded up
    helper,     \* the plugin helper serves RPCs
    stopping,   \* the context of runPlugin has ended
    rpc,        \* [Rpcs -> RpcSteps]: the next step of each handler
    claims,     \* [Rpcs -> Nat]: the claims it has left
    ended,      \* [Rpcs -> BOOLEAN]: its context has ended
    dirty       \* history: since the last scan began, the hardware or the
                \* administrator changed the bus, or the scan went wrong

loopVars == <<cycle, stored, published>>
timeVars == <<tick, age>>
mainVars == <<helper, stopping>>
rpcVars == <<rpc, claims, ended>>
vars == <<busVars, trackerVars, scanVars, loopVars, trigger, timeVars, mainVars,
          rpcVars, dirty>>

ScanSteps == {"list", "card", "queue", "mkvps", "read", "wedged"}
LoopSteps == ScanSteps \cup {"down", "helper", "publish", "select", "stopped"}
RpcSteps == {"idle", "queued", "check", "wait", "write", "blocked", "return"}

\* The heartbeat is stale from StaleMultiple intervals on; older is no different.
AgeBound == StaleMultiple + 1

TypeOK ==
    /\ ScannerTypeOK
    /\ at \in LoopSteps
    /\ cycle \in {"none", "initial", "fresh", "tick", "trigger"}
    /\ stored \in Snapshots
    /\ published \in Snapshots
    /\ trigger \in BOOLEAN
    /\ tick \in BOOLEAN
    /\ age \in 0 .. AgeBound
    /\ helper \in BOOLEAN
    /\ stopping \in BOOLEAN
    /\ rpc \in [Rpcs -> RpcSteps]
    /\ claims \in [Rpcs -> 0 .. MaxClaims]
    /\ ended \in [Rpcs -> BOOLEAN]
    /\ dirty \in BOOLEAN

\* A node before the driver first starts.
Init ==
    /\ type \in [Cards -> CardTypes]
    /\ keys \in [Queues -> Keys]
    /\ driver = [q \in Queues |-> "cex4queue"]
    /\ cache = [q \in Queues |-> Nil]
    /\ failCount = [q \in Queues |-> 0]
    /\ lastRead = [q \in Queues |-> Nil]
    /\ misses = [q \in Queues |-> 0]
    /\ at = "down"
    /\ todo = {}
    /\ cardType = "none"
    /\ left = {}
    /\ cur = NoQueue
    /\ seen = ""
    /\ found = NoDevices
    /\ cycle = "none"
    /\ stored = NoDevices
    /\ published = NoDevices
    /\ trigger = FALSE
    /\ tick = FALSE
    /\ age = 0
    /\ helper = FALSE
    /\ stopping = FALSE
    /\ rpc = [r \in Rpcs |-> "idle"]
    /\ claims = [r \in Rpcs |-> 0]
    /\ ended = [r \in Rpcs |-> FALSE]
    /\ dirty = FALSE

\* The helper's mutex and the state lock.  Only handlers hold either across
\* steps: the loop's critical sections are single steps.
grpcMutexFree == \A r \in Rpcs : rpc[r] \in {"idle", "queued"}
muFree == \A r \in Rpcs : rpc[r] \notin {"write", "blocked"}

-----------------------------------------------------------------------------
(* The process *)

\* Whatever the process held is gone; what it published stays.
ProcessEnds ==
    /\ at' = "down"
    /\ todo' = {}
    /\ cardType' = "none"
    /\ left' = {}
    /\ cur' = NoQueue
    /\ seen' = ""
    /\ found' = NoDevices
    /\ NewTracker
    /\ cycle' = "none"
    /\ stored' = NoDevices
    /\ trigger' = FALSE
    /\ tick' = FALSE
    /\ age' = 0
    /\ helper' = FALSE
    /\ stopping' = FALSE
    /\ rpc' = [r \in Rpcs |-> "idle"]
    /\ claims' = [r \in Rpcs |-> 0]
    /\ ended' = [r \in Rpcs |-> FALSE]
    /\ dirty' = FALSE
    /\ UNCHANGED <<busVars, published>>

\* runPlugin seeds the heartbeat, and New begins its scan once the drain has
\* reset the orphans (module Driver says which those are).
Start(orphans) ==
    /\ at = "down"
    /\ at' = "list"
    /\ cycle' = "initial"
    /\ driver' = [q \in Queues |-> IF q \in orphans THEN "cex4queue" ELSE driver[q]]
    /\ UNCHANGED <<type, keys, trackerVars, cursorVars, found, stored, published,
                   trigger, timeVars, mainVars, rpcVars, dirty>>

\* A handler blocked in a write cannot be killed, nor can its process.
Killable == at # "down" /\ \A r \in Rpcs : rpc[r] # "blocked"

Crash ==
    /\ "crash" \in Faults
    /\ Killable
    /\ ProcessEnds

\* Check answers NOT_SERVING.
Stale == age > StaleMultiple

\* The kubelet restarts a container whose liveness probe fails.  The probe and
\* its port are the base DaemonSet's: by its own default main opens no port.
Restart ==
    /\ Stale
    /\ Killable
    /\ ProcessEnds

\* A signal, or HandleError with a fatal error, ends the context of runPlugin.
Signal ==
    /\ "signal" \in Faults
    /\ at # "down"
    /\ ~stopping
    /\ stopping' = TRUE
    /\ UNCHANGED <<busVars, trackerVars, scanVars, loopVars, trigger, timeVars,
                   helper, rpcVars, dirty>>

\* The helper stops with the context it was started with, before New returns if
\* need be; Shutdown's Helper.Stop then finds it stopped.  The contexts of the
\* calls end, and nobody waits for their handlers.
StopHelper ==
    /\ stopping
    /\ helper
    /\ helper' = FALSE
    /\ ended' = [r \in Rpcs |-> rpc[r] # "idle"]
    /\ UNCHANGED <<busVars, trackerVars, scanVars, loopVars, trigger, timeVars,
                   stopping, rpc, claims, dirty>>

\* Shutdown waits for the scan loop, and the process exits.  It also exits when
\* New fails because the helper stopped before it could publish.
Shutdown ==
    /\ at = "stopped" \/ (at = "publish" /\ cycle = "initial")
    /\ ~helper
    /\ Killable
    /\ ProcessEnds

-----------------------------------------------------------------------------
(* The scan loop *)

\* The reads of a scan change nothing but the scan's own state.
ScanRead(ok) ==
    /\ \/ ok /\ (ListCards \/ EvaluateKeyless \/ Evaluate \/ ServeFromCache \/ ReadSucceeds)
       \/ ok /\ \E c \in Cards : ScanCard(c)
       \/ \E q \in Queues : readQueueDriver(q, ok)
       \/ ReadFails(ok)
    /\ dirty' = (dirty \/ (at = "queue" /\ ~ok))
    /\ UNCHANGED <<loopVars, trigger, timeVars, mainVars, rpcVars>>

\* A card that never answers: the read blocks, until the card is gone.
MuteCard ==
    /\ "mute_card" \in Faults
    /\ at = "read"
    /\ at' = "wedged"
    /\ UNCHANGED <<busVars, trackerVars, cursorVars, found, loopVars, trigger,
                   timeVars, mainVars, rpcVars, dirty>>

CardGone ==
    /\ at = "wedged"
    /\ type[CardOf(cur)] = "none"
    /\ at' = "read"
    /\ UNCHANGED <<busVars, trackerVars, cursorVars, found, loopVars, trigger,
                   timeVars, mainVars, rpcVars, dirty>>

\* runScanCycle stamps the heartbeat, after a failed cycle too; after a
\* triggered one ticker.Reset discards a pending tick.
EndCycle ==
    /\ at' = "select"
    /\ cycle' = "none"
    /\ found' = NoDevices
    /\ age' = 0
    /\ tick' = (tick /\ cycle # "trigger")
    /\ UNCHANGED trigger

\* Mutant: a failed cycle does not count as one.
ScanFailsUnstamped ==
    /\ "card_read" \in Faults
    /\ at = "list" \/ (at = "card" /\ todo # {})
    /\ IF cycle = "initial"
       THEN ProcessEnds
       ELSE /\ at' = "select"
            /\ cycle' = "none"
            /\ found' = NoDevices
            /\ todo' = {}
            /\ dirty' = TRUE
            /\ UNCHANGED <<age, tick, trigger, busVars, trackerVars, cardType, left,
                           cur, seen, stored, published, mainVars, rpcVars>>

\* Scan returns an error: driver.New gives up, the loop ends its cycle.
ScanFails ==
    /\ "card_read" \in Faults
    /\ at = "list" \/ (at = "card" /\ todo # {})
    /\ IF cycle = "initial"
       THEN ProcessEnds
       ELSE /\ EndCycle
            /\ todo' = {}
            /\ dirty' = TRUE
            /\ UNCHANGED <<busVars, trackerVars, cardType, left, cur, seen,
                           stored, published, mainVars, rpcVars>>

\* Mutant: the hash is one of the device names.
HashDiffersByNames ==
    {q \in Queues : found[q] # Absent} # {q \in Queues : stored[q] # Absent}

\* computeDevicesHash covers every name and every attribute.
HashDiffers == found # stored

\* The first comparison is with the empty hash and always finds a change.
CompareAndUpdate ==
    /\ at = "card"
    /\ todo = {}
    /\ muFree
    /\ IF cycle = "initial" \/ HashDiffers
       THEN /\ stored' = found
            /\ found' = NoDevices
            /\ at' = IF cycle = "initial" THEN "helper" ELSE "publish"
            /\ UNCHANGED <<cycle, trigger, timeVars>>
       ELSE /\ EndCycle
            /\ UNCHANGED stored
    /\ UNCHANGED <<busVars, trackerVars, cursorVars, published, mainVars, rpcVars,
                   dirty>>

\* driver.New starts the helper; calls can arrive from now on.
StartHelper ==
    /\ at = "helper"
    /\ at' = "publish"
    /\ helper' = TRUE
    /\ UNCHANGED <<busVars, trackerVars, cursorVars, found, loopVars, trigger,
                   timeVars, stopping, rpcVars, dirty>>

\* Mutant: driver.New leaves publishing to the loop.
PublishResourcesInLoop ==
    /\ at = "publish"
    /\ muFree
    /\ published' = IF helper /\ cycle # "initial" THEN stored ELSE published
    /\ IF cycle = "initial"
       THEN /\ at' = "select"
            /\ cycle' = "fresh"
            /\ UNCHANGED <<found, trigger, timeVars>>
       ELSE EndCycle
    /\ UNCHANGED <<busVars, trackerVars, cursorVars, stored, mainVars, rpcVars, dirty>>

\* PublishResources(DriverResources()).  A helper that was stopped publishes
\* nothing.  driver.New does not stamp the heartbeat.
PublishResources ==
    /\ at = "publish"
    /\ muFree
    /\ published' = IF helper THEN stored ELSE published
    /\ IF cycle = "initial"
       THEN /\ at' = "select"
            /\ cycle' = "fresh"
            /\ UNCHANGED <<found, trigger, timeVars>>
       ELSE EndCycle
    /\ UNCHANGED <<busVars, trackerVars, cursorVars, stored, mainVars, rpcVars, dirty>>

\* startScanLoop's select: it picks any of the ready cases.
SelectTick ==
    /\ at = "select"
    /\ tick
    /\ tick' = FALSE
    /\ cycle' = "tick"
    /\ at' = "list"
    /\ dirty' = FALSE
    /\ UNCHANGED <<busVars, trackerVars, cursorVars, found, stored, published,
                   trigger, age, mainVars, rpcVars>>

SelectTrigger ==
    /\ at = "select"
    /\ trigger
    /\ trigger' = FALSE
    /\ cycle' = "trigger"
    /\ at' = "list"
    /\ dirty' = FALSE
    /\ UNCHANGED <<busVars, trackerVars, cursorVars, found, stored, published,
                   timeVars, mainVars, rpcVars>>

\* Mutant: the break leaves the select, not the loop around it.
SelectDoneBreaks ==
    /\ at = "select"
    /\ stopping
    /\ UNCHANGED vars

SelectDone ==
    /\ at = "select"
    /\ stopping
    /\ at' = "stopped"
    /\ UNCHANGED <<busVars, trackerVars, cursorVars, found, loopVars, trigger,
                   timeVars, mainVars, rpcVars, dirty>>

\* The loop waits for a card, for the state lock, or for something to do.
Waiting ==
    \/ at \in {"wedged", "stopped"}
    \/ at = "publish" /\ ~muFree
    \/ at = "card" /\ todo = {} /\ ~muFree
    \/ at = "select" /\ ~tick /\ ~trigger /\ ~stopping

\* A scan interval passes.  Only waiting takes more than one: StaleMultiple
\* intervals dwarf what a card that answers adds to a cycle (health.go).
Tick ==
    /\ at # "down"
    /\ Waiting \/ (age = 0 /\ at # "select")
    /\ age' = IF age < AgeBound THEN age + 1 ELSE age
    /\ tick' = (cycle # "initial")
    /\ UNCHANGED <<busVars, trackerVars, scanVars, loopVars, trigger, mainVars,
                   rpcVars, dirty>>

-----------------------------------------------------------------------------
(* The RPC handlers: PrepareResourceClaims and UnprepareResourceClaims *)

\* The rest of the process is not involved in a handler's step.
HandlerStep ==
    UNCHANGED <<trackerVars, scanVars, loopVars, timeVars, mainVars, dirty>>

\* The kubelet calls for n claims.
Call(r, n) ==
    /\ helper
    /\ rpc[r] = "idle"
    /\ rpc' = [rpc EXCEPT ![r] = "queued"]
    /\ claims' = [claims EXCEPT ![r] = n]
    /\ HandlerStep
    /\ UNCHANGED <<busVars, trigger, ended>>

\* The deadline of the call passes.
Expire(r) ==
    /\ "deadline" \in Faults
    /\ rpc[r] # "idle"
    /\ ~ended[r]
    /\ ended' = [ended EXCEPT ![r] = TRUE]
    /\ HandlerStep
    /\ UNCHANGED <<busVars, trigger, rpc, claims>>

\* serializeGRPCIfEnabled: the wait for the mutex ignores the context.
Serialize(r) ==
    /\ rpc[r] = "queued"
    /\ grpcMutexFree
    /\ rpc' = [rpc EXCEPT ![r] = "check"]
    /\ HandlerStep
    /\ UNCHANGED <<busVars, trigger, claims, ended>>

\* The handler is done with a claim.
NextClaim(r) ==
    /\ claims' = [claims EXCEPT ![r] = @ - 1]
    /\ rpc' = [rpc EXCEPT ![r] = IF claims[r] = 1 THEN "return" ELSE "check"]

\* lockCtx looks at the context before it waits.
CheckContext(r) ==
    /\ rpc[r] = "check"
    /\ IF ended[r]
       THEN NextClaim(r)
       ELSE /\ rpc' = [rpc EXCEPT ![r] = "wait"]
            /\ UNCHANGED claims
    /\ HandlerStep
    /\ UNCHANGED <<busVars, trigger, ended>>

\* Mutant: it waits for the mutex its caller holds.
lockCtxTwice(r) ==
    /\ rpc[r] = "wait"
    /\ \/ /\ muFree /\ grpcMutexFree
          /\ rpc' = [rpc EXCEPT ![r] = "write"]
          /\ UNCHANGED claims
       \/ /\ ended[r]
          /\ NextClaim(r)
    /\ HandlerStep
    /\ UNCHANGED <<busVars, trigger, ended>>

\* lockCtx gets the state lock, or the context ends first.
lockCtx(r) ==
    /\ rpc[r] = "wait"
    /\ \/ /\ muFree
          /\ rpc' = [rpc EXCEPT ![r] = "write"]
          /\ UNCHANGED claims
       \/ /\ ended[r]
          /\ NextClaim(r)
    /\ HandlerStep
    /\ UNCHANGED <<busVars, trigger, ended>>

\* Prepare or Unprepare changes the binding of a queue.
Write(r, q, d) ==
    /\ rpc[r] = "write"
    /\ type[CardOf(q)] # "none"
    /\ driver[q] # d
    /\ driver' = [driver EXCEPT ![q] = d]
    /\ HandlerStep
    /\ UNCHANGED <<type, keys, trigger, rpcVars>>

\* A write that never returns.
BlockedWrite(r) ==
    /\ "blocked_write" \in Faults
    /\ rpc[r] = "write"
    /\ rpc' = [rpc EXCEPT ![r] = "blocked"]
    /\ HandlerStep
    /\ UNCHANGED <<busVars, trigger, claims, ended>>

\* Prepare or Unprepare returns and with it the lock.
Unlock(r) ==
    /\ rpc[r] = "write"
    /\ NextClaim(r)
    /\ HandlerStep
    /\ UNCHANGED <<busVars, trigger, ended>>

\* Mutant: a scan is requested only by a call that still has its context.
ReturnTriggersIfLive(r) ==
    /\ rpc[r] = "return"
    /\ trigger' = (trigger \/ ~ended[r])
    /\ rpc' = [rpc EXCEPT ![r] = "idle"]
    /\ ended' = [ended EXCEPT ![r] = FALSE]
    /\ HandlerStep
    /\ UNCHANGED <<busVars, claims>>

\* triggerScan, and the handler returns.
Return(r) ==
    /\ rpc[r] = "return"
    /\ trigger' = TRUE
    /\ rpc' = [rpc EXCEPT ![r] = "idle"]
    /\ ended' = [ended EXCEPT ![r] = FALSE]
    /\ HandlerStep
    /\ UNCHANGED <<busVars, claims>>

-----------------------------------------------------------------------------
(* The specification *)

BusChanges ==
    /\ \/ \E c \in Cards, t \in CardTypes \cup {"none"} : Hotplug(c, t)
       \/ \E q \in Queues, k \in Keys : Rekey(q, k)
    /\ dirty' = TRUE
    /\ UNCHANGED <<loopVars, trigger, timeVars, mainVars, rpcVars>>

LockedStep == CompareAndUpdate \/ PublishResources

LoopStep ==
    \/ ScanRead(TRUE)
    \/ CardGone
    \/ StartHelper
    \/ SelectTick
    \/ SelectTrigger
    \/ SelectDone

Plugged == {q \in Queues : type[CardOf(q)] # "none"}

ProcessStep ==
    \/ \E orphans \in SUBSET Plugged : Start(orphans)
    \/ StopHelper
    \/ Shutdown

HandlerGoesOn(r) == CheckContext(r) \/ lockCtx(r) \/ Unlock(r) \/ Return(r)

Fault ==
    \/ ScanRead(FALSE)
    \/ ScanFails
    \/ MuteCard
    \/ BusChanges
    \/ Crash
    \/ Signal
    \/ \E r \in Rpcs : Expire(r) \/ BlockedWrite(r)

Next ==
    \/ LockedStep
    \/ LoopStep
    \/ ProcessStep
    \/ Restart
    \/ Tick
    \/ Fault
    \/ \E r \in Rpcs :
          \/ \E n \in 1 .. MaxClaims : Call(r, n)
          \/ Serialize(r)
          \/ HandlerGoesOn(r)
          \/ \E q \in Queues, d \in Bindings : Write(r, q, d)

Spec == Init /\ [][Next]_vars

\* Every goroutine, the loop's and each handler's, goes on if it can again and
\* again, and time passes.  Waiters on the two locks are served in turn: a Go
\* mutex and a Go channel both starve nobody.  Go's select picks at random among
\* the ready cases, so the end of the context is not passed over for ever.
Fairness ==
    /\ SF_vars(LoopStep \/ LockedStep)
    /\ SF_vars(SelectDone)
    /\ WF_vars(ProcessStep)
    /\ WF_vars(Restart)
    /\ WF_vars(Tick)
    /\ \A r \in Rpcs : SF_vars(Serialize(r) \/ HandlerGoesOn(r))

LiveSpec == Spec /\ Fairness

-----------------------------------------------------------------------------
(* Properties *)

\* What unknownHealthReport names: the devices of DriverResources.
unknownHealthReport == {q \in Queues : stored[q] # Absent}

\* Between two cycles the ResourceSlices carry exactly the devices the state
\* holds, which are the ones the health stream names (driver.go, "The identities
\* come from the same DriverResources the ResourceSlices are built from").
PublishedIsStored ==
    at = "select" /\ helper =>
        /\ published = stored
        /\ unknownHealthReport = {q \in Queues : published[q] # Absent}

\* No binding is forgotten: when the loop sleeps with no scan requested, no call
\* is being served, and neither the hardware nor a failed read interfered since
\* the last scan began, the published types and bindings are the bus's.  Calls
\* switch queues while a scan reads them, and their requests coalesce.
NoChangeForgotten ==
    at = "select" /\ helper /\ ~trigger /\ ~dirty /\ grpcMutexFree =>
        \A q \in Queues : /\ published[q].type = type[CardOf(q)]
                          /\ published[q].driver = driver[q]

\* mkvp_state tells the truth about every device a scan finds on a card with
\* master keys: "known" values come from a read of this scan, "cached" ones are
\* the last values read, at most MKVPRetryBudget failed reads ago, and "unknown"
\* is said only without such values (Evaluate, readZcryptMKVPs).
MkvpStateTruthful ==
    [][\A q \in Queues :
          found'[q] # found[q] /\ found'[q].type \in KeyedTypes =>
             LET d == found'[q] IN
             /\ d.mkvpState = "known" =>
                   d.mkvps = lastRead'[q] /\ misses'[q] = 0 /\ at = "read"
             /\ d.mkvpState = "cached" =>
                   d.mkvps = lastRead'[q] /\ misses'[q] <= MKVPRetryBudget
             /\ d.mkvpState = "unknown" =>
                   lastRead'[q] = Nil \/ misses'[q] > MKVPRetryBudget]_vars

\* The probe never restarts a driver whose loop turns: once a cycle has ended,
\* failed or not, a loop in its select has a heartbeat of this interval or the
\* last (runScanCycle).  Ten intervals, StaleMultiple, are left for a cycle.
HeartbeatFresh == at = "select" /\ cycle = "none" => age <= 1

\* How far a cycle is from its end: its stage, and in the scan the reads ahead,
\* up to three for a queue and one for a card.
CycleStage ==
    CASE at = "list"                    -> 4
      [] at \in ScanSteps \ {"list"}    -> 3
      [] at = "helper"                  -> 2
      [] at = "publish"                 -> 1
      [] OTHER                          -> 0

Unread == {q \in Queues : CardOf(q) \in todo}
OfThisQueue == CASE at = "mkvps" -> 2 [] at \in {"read", "wedged"} -> 1 [] OTHER -> 0
ReadsLeft == Cardinality(todo) + 3 * (Cardinality(left) + Cardinality(Unread)) + OfThisQueue

Closer == \/ CycleStage' < CycleStage
          \/ CycleStage' = CycleStage /\ ReadsLeft' < ReadsLeft
AsClose == CycleStage' = CycleStage /\ ReadsLeft' = ReadsLeft

CycleStep ==
    \/ \E ok \in BOOLEAN : ScanRead(ok)
    \/ ScanFails
    \/ StartHelper
    \/ LockedStep

\* A cycle always comes nearer to its end: each of its steps, failed reads
\* included, leaves less to do, and neither a call nor a change of the bus sets
\* it back or adds to it.  Only a mute card or a held lock can hold it up
\* (Scan reads each card and each queue it listed once, runScanCycle).
CyclesAdvance == [][CycleStage > 0 => Closer \/ (AsClose /\ ~CycleStep)]_vars

\* Every call is answered, or cut off by the end of the process: a caller is idle
\* again and again, though it waits for the helper's mutex behind another call
\* and for the state lock, with its deadline past or not, if no write blocks for
\* good (serializeGRPCIfEnabled, lockCtx).
RpcAnswered == \A r \in Rpcs : []<>(rpc[r] = "idle")

\* A shutdown comes to its end, which alone resets stopping, whatever the loop
\* and the handlers are doing when the signal arrives, if no write blocks for
\* good (Driver.Shutdown).
ShutdownCompletes == []<>~stopping

Current ==
    \A q \in Queues :
        /\ published[q].type = type[CardOf(q)]
        /\ published[q].driver = driver[q]
        /\ MkvpsFileExists(q) => published[q].mkvps = <<type[CardOf(q)], keys[q]>>

\* Once the faults and the calls cease, the ResourceSlices come to show the bus
\* and stay so: a missed change, a failed cycle, a card that never answered (the
\* probe gets the driver restarted) or a restart leaves nothing stale behind.
CatchesUp ==
    <>[][~Fault /\ ~\E r \in Rpcs, n \in 1 .. MaxClaims : Call(r, n)]_vars => <>[]Current

\* What lockCtx is for: a call whose context has ended fails fast, even behind a
\* call whose write never returns.
FailsFast == \A r \in Rpcs : (rpc[r] = "queued" /\ ended[r]) ~> rpc[r] = "idle"
=============================================================================
