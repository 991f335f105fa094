--------------------------- MODULE ScanLoopSafety ---------------------------
(***************************************************************************)
(* What the scan loop publishes, for any bus, any number of calls and any  *)
(* interleaving of them with its reads.                                    *)
(***************************************************************************)
EXTENDS ScanLoopTypes, FiniteSetTheorems

\* Every step of the specification, by who takes it.
LEMMA StepCases ==
    ASSUME [Next]_vars
    PROVE  \/ \E ok \in BOOLEAN : ScanRead(ok)
           \/ Crash \/ Restart \/ Shutdown
           \/ \E orphans \in SUBSET Plugged : Start(orphans)
           \/ StopHelper \/ Signal
           \/ ScanFails \/ CompareAndUpdate \/ PublishResources
           \/ MuteCard \/ CardGone \/ StartHelper
           \/ SelectTick \/ SelectTrigger \/ SelectDone \/ Tick
           \/ BusChanges
           \/ \E r \in Rpcs : \/ \E n \in 1 .. MaxClaims : Call(r, n)
                              \/ Serialize(r) \/ HandlerGoesOn(r) \/ Expire(r)
                              \/ BlockedWrite(r)
                              \/ \E q \in Queues, d \in Bindings : Write(r, q, d)
           \/ UNCHANGED vars
  BY Zenon DEF Next, LoopStep, Fault, LockedStep, ProcessStep

\* A step of a handler: what it leaves alone.
Handles(r) ==
    \/ \E n \in 1 .. MaxClaims : Call(r, n)
    \/ Serialize(r) \/ HandlerGoesOn(r) \/ Expire(r) \/ BlockedWrite(r)
    \/ \E q \in Queues, d \in Bindings : Write(r, q, d)

\* A handler leaves the loop alone.
LEMMA HandlerFrame ==
    ASSUME NEW r \in Rpcs, Handles(r)
    PROVE  UNCHANGED <<trackerVars, scanVars, loopVars, timeVars, mainVars, dirty>>
  BY Zenon DEF Handles, Call, Serialize, HandlerGoesOn, CheckContext, lockCtx, Unlock, Return,
         Expire, BlockedWrite, Write, HandlerStep

\* A device that is absent.
LEMMA AbsentFields == Absent.type = "none" /\ Absent.driver = ""
  BY Zenon DEF Absent

-----------------------------------------------------------------------------
(* Master key patterns *)

\* What MkvpStateTruthful says of one device d that joins the result for q.
Truthful(q, d) ==
    /\ d.mkvpState = "known" =>
          d.mkvps = lastRead'[q] /\ misses'[q] = 0 /\ at = "read"
    /\ d.mkvpState = "cached" =>
          d.mkvps = lastRead'[q] /\ misses'[q] <= MKVPRetryBudget
    /\ d.mkvpState = "unknown" =>
          lastRead'[q] = Nil \/ misses'[q] > MKVPRetryBudget

\* Only the queue being read joins the result.
LEMMA FoundOnlyCur ==
    ASSUME LoopInv, NEW mkvps, NEW mkvpState, Found(mkvps, mkvpState),
           NEW q \in Queues, found'[q] # found[q]
    PROVE  /\ q = cur
           /\ found'[q].type = cardType
           /\ found'[q].mkvpState = mkvpState
           /\ found'[q].mkvps = mkvps
  BY Zenon DEF Found, LoopInv, TypeOK, ScannerTypeOK, Snapshots

\* Every read of a scan tells the truth: the tracker says how old its value is.
LEMMA ScanReadTruthful ==
    ASSUME LoopInv, NEW ok \in BOOLEAN, ScanRead(ok),
           NEW q \in Queues, found'[q] # found[q], found'[q].type \in KeyedTypes
    PROVE  Truthful(q, found'[q])
  <1>0. MKVPRetryBudget \in Nat
    BY Zenon, ScannerAssumption
  <1>1. CASE ListCards
    BY Zenon, <1>1 DEF ListCards, NoDevices, Absent, KeyedTypes
  <1>2. CASE EvaluateKeyless
    <2>1. Found(NoMKVPs, "known") /\ cardType \notin KeyedTypes
      BY Zenon, <1>2 DEF EvaluateKeyless
    <2> QED
      BY Zenon, <2>1, FoundOnlyCur
  <1>3. CASE Evaluate
    BY Zenon, <1>3 DEF Evaluate
  <1>4. CASE ServeFromCache
    <2>1. /\ at = "mkvps" /\ cur \in Queues /\ UNCHANGED trackerVars
          /\ cache[cur] = IF misses[cur] <= MKVPRetryBudget THEN lastRead[cur] ELSE Nil
          /\ misses[cur] \in Nat
      BY <1>4 DEF ServeFromCache, LoopInv, TypeOK, ScannerTypeOK, CursorOK, TrackerOK
    <2>2. CASE cache[cur] # Nil
      <3>1. q = cur /\ found'[q].mkvpState = "cached" /\ found'[q].mkvps = cache[cur]
        BY <1>4, <2>2, FoundOnlyCur DEF ServeFromCache
      <3> QED
        BY Zenon, <2>1, <2>2, <3>1 DEF Truthful, trackerVars
    <2>3. CASE cache[cur] = Nil
      <3>1. q = cur /\ found'[q].mkvpState = "unknown"
        BY <1>4, <2>3, FoundOnlyCur DEF ServeFromCache
      <3> QED
        BY <1>0, <2>1, <2>3, <3>1 DEF Truthful, trackerVars
    <2> QED
      BY Zenon, <2>2, <2>3
  <1>5. CASE ReadSucceeds
    <2>1. /\ at = "read" /\ cur \in Queues
          /\ lastRead' = [lastRead EXCEPT ![cur] = ParseMKVPs(cur, cardType)]
          /\ misses' = [misses EXCEPT ![cur] = 0]
      BY Zenon, <1>5 DEF ReadSucceeds, LoopInv, CursorOK
    <2>2. /\ q = cur /\ found'[q].mkvpState = "known"
          /\ found'[q].mkvps = ParseMKVPs(cur, cardType)
      BY <1>5, FoundOnlyCur DEF ReadSucceeds
    <2> QED
      BY Zenon, <2>1, <2>2 DEF Truthful, LoopInv, TypeOK, ScannerTypeOK
  <1>6. CASE ReadFails(ok)
    <2>1. /\ at = "read" /\ cur \in Queues /\ lastRead' = lastRead
          /\ misses' = [misses EXCEPT ![cur] = IF @ < MissBound THEN @ + 1 ELSE @]
          /\ cache[cur] = IF misses[cur] <= MKVPRetryBudget THEN lastRead[cur] ELSE Nil
          /\ cache[cur] # Nil => failCount[cur] = misses[cur]
          /\ misses[cur] \in 0 .. MissBound /\ misses \in [Queues -> 0 .. MissBound]
      BY Zenon, <1>6 DEF ReadFails, LoopInv, TypeOK, ScannerTypeOK, CursorOK, TrackerOK
    <2>2. misses'[cur] = IF misses[cur] < MissBound THEN misses[cur] + 1 ELSE misses[cur]
      BY Zenon, <2>1
    <2>3. CASE cache[cur] = Nil
      <3>1. q = cur /\ found'[q].mkvpState = "unknown"
        BY <1>6, <2>3, FoundOnlyCur DEF ReadFails
      <3> QED
        BY <1>0, <2>1, <2>2, <2>3, <3>1 DEF Truthful, MissBound
    <2>4. CASE cache[cur] # Nil /\ failCount[cur] + 1 <= MKVPRetryBudget
      <3>1. q = cur /\ found'[q].mkvpState = "cached" /\ found'[q].mkvps = cache[cur]
        BY <1>6, <2>4, FoundOnlyCur DEF ReadFails
      <3> QED
        BY Zenon, <1>0, <2>1, <2>2, <2>4, <3>1 DEF Truthful, MissBound
    <2>5. CASE cache[cur] # Nil /\ ~(failCount[cur] + 1 <= MKVPRetryBudget)
      <3>1. q = cur /\ found'[q].mkvpState = "unknown"
        BY <1>6, <2>5, FoundOnlyCur DEF ReadFails
      <3> QED
        BY <1>0, <2>1, <2>2, <2>5, <3>1 DEF Truthful, MissBound
    <2> QED
      BY Zenon, <2>3, <2>4, <2>5
  <1>7. ASSUME NEW c \in Cards, ScanCard(c)
        PROVE  FALSE
    BY Zenon, <1>7 DEF ScanCard
  <1>8. ASSUME NEW p \in Queues, readQueueDriver(p, ok)
        PROVE  FALSE
    BY Zenon, <1>8 DEF readQueueDriver
  <1> QED
    BY Zenon, <1>1, <1>2, <1>3, <1>4, <1>5, <1>6, <1>7, <1>8 DEF ScanRead

\* Only a read adds to the result; everything else keeps or discards it.
LEMMA FoundFrame ==
    ASSUME [Next]_vars, ~\E ok \in BOOLEAN : ScanRead(ok)
    PROVE  found' = found \/ found' = NoDevices
  <1>1. CASE \E r \in Rpcs : Handles(r)
    BY Zenon, <1>1, HandlerFrame DEF scanVars
  <1>2. CASE ~\E r \in Rpcs : Handles(r)
    BY Zenon, <1>2, StepCases
       DEF Handles, Crash, Restart, Shutdown, ProcessEnds, Start, StopHelper, Signal, ScanFails,
           CompareAndUpdate, PublishResources, EndCycle, MuteCard, CardGone, StartHelper,
           SelectTick, SelectTrigger, SelectDone, Tick, BusChanges, Hotplug, Rekey, scanVars,
           vars
  <1> QED
    BY Zenon, <1>1, <1>2

\* mkvp_state never lies, however reads fail, cards go and calls rebind queues in
\* between: Evaluate's cache is the last read, within the retry budget.
THEOREM MkvpStateIsTruthful == Spec => MkvpStateTruthful
  <1>1. ASSUME LoopInv, [Next]_vars, NEW q \in Queues,
               found'[q] # found[q], found'[q].type \in KeyedTypes
        PROVE  Truthful(q, found'[q])
    <2>1. CASE \E ok \in BOOLEAN : ScanRead(ok)
      BY Zenon, <1>1, <2>1, ScanReadTruthful
    <2>2. CASE ~\E ok \in BOOLEAN : ScanRead(ok)
      <3>1. found'[q] = Absent
        BY Zenon, <1>1, <2>2, FoundFrame DEF NoDevices
      <3>2. found'[q].type = "none"
        BY Zenon, <3>1, AbsentFields
      <3> QED
        BY Zenon, <1>1, <3>2 DEF KeyedTypes
    <2> QED
      BY Zenon, <2>1, <2>2
  <1> DEFINE Step == \A q \in Queues :
          found'[q] # found[q] /\ found'[q].type \in KeyedTypes =>
             LET d == found'[q] IN
             /\ d.mkvpState = "known" =>
                   d.mkvps = lastRead'[q] /\ misses'[q] = 0 /\ at = "read"
             /\ d.mkvpState = "cached" =>
                   d.mkvps = lastRead'[q] /\ misses'[q] <= MKVPRetryBudget
             /\ d.mkvpState = "unknown" =>
                   lastRead'[q] = Nil \/ misses'[q] > MKVPRetryBudget
  <1>2. LoopInv /\ [Next]_vars => [Step]_vars
    BY Zenon, <1>1 DEF Truthful
  <1> QED
    BY <1>2, LoopInvariant, PTL DEF Spec, MkvpStateTruthful

-----------------------------------------------------------------------------
(* The heartbeat *)

\* In its select the loop has a heartbeat of this interval, or its next tick.
HeartbeatInv == at = "select" /\ cycle = "none" => age = 0 \/ (age = 1 /\ tick)

\* A tick is pending from the first interval on, and only a cycle takes it.
LEMMA HeartbeatNext ==
    ASSUME LoopInv, HeartbeatInv, [Next]_vars
    PROVE  HeartbeatInv'
  <1>1. CASE \E r \in Rpcs : Handles(r)
    BY Zenon, <1>1, HandlerFrame DEF scanVars, loopVars, timeVars, HeartbeatInv
  <1>2. CASE \E ok \in BOOLEAN : ScanRead(ok)
    <2>1. at' # "select"
      BY Zenon, <1>2 DEF ScanRead, ListCards, ScanCard, readQueueDriver, EvaluateKeyless, Evaluate,
                  ServeFromCache, ReadSucceeds, ReadFails, Found
    <2> QED
      BY Zenon, <2>1 DEF HeartbeatInv
  <1>3. CASE Tick
    <2>1. ASSUME at = "select", cycle = "none"
          PROVE  age' = 1 /\ tick'
      <3>1. Waiting /\ ~tick
        BY Zenon, <1>3, <2>1 DEF Tick, Waiting
      <3>2. age = 0
        BY Zenon, <2>1, <3>1 DEF HeartbeatInv
      <3>3. 0 < AgeBound
        BY ScanLoopAssumption DEF AgeBound
      <3>4. age' = 1
        BY <1>3, <3>2, <3>3 DEF Tick
      <3>5. tick'
        BY Zenon, <1>3, <2>1 DEF Tick
      <3> QED
        BY Zenon, <3>4, <3>5
    <2> QED
      BY Zenon, <1>3, <2>1 DEF Tick, HeartbeatInv, scanVars, loopVars
  <1>4. CASE ~(\E r \in Rpcs : Handles(r)) /\ ~(\E ok \in BOOLEAN : ScanRead(ok)) /\ ~Tick
    BY Zenon, <1>4, StepCases
       DEF HeartbeatInv, Handles, Crash, Restart, Shutdown, ProcessEnds, Start, StopHelper,
           Signal, ScanFails, CompareAndUpdate, PublishResources, EndCycle, MuteCard, CardGone,
           StartHelper, SelectTick, SelectTrigger, SelectDone, BusChanges, Hotplug, Rekey,
           scanVars, loopVars, timeVars, vars
  <1> QED
    BY Zenon, <1>1, <1>2, <1>3, <1>4

\* No interleaving and no failed cycle makes the probe restart a loop that turns
\* (runScanCycle stamps the heartbeat after every cycle).
THEOREM HeartbeatStaysFresh == Spec => []HeartbeatFresh
  <1>1. Init => HeartbeatInv
    BY Zenon DEF Init, HeartbeatInv
  <1>2. LoopInv /\ HeartbeatInv /\ [Next]_vars => HeartbeatInv'
    BY Zenon, HeartbeatNext
  <1>3. HeartbeatInv => HeartbeatFresh
    BY DEF HeartbeatInv, HeartbeatFresh
  <1> QED
    BY <1>1, <1>2, <1>3, LoopInvariant, PTL DEF Spec

-----------------------------------------------------------------------------
(* What is published *)

\* Outside its two publishing steps the loop has published what it stored.
PublishedInv == helper /\ at \notin {"helper", "publish"} => published = stored

\* driver.New publishes once the helper serves; the loop after every change.
LEMMA PublishedNext ==
    ASSUME LoopInv, PublishedInv, [Next]_vars
    PROVE  PublishedInv'
  <1>1. CASE \E r \in Rpcs : Handles(r)
    BY Zenon, <1>1, HandlerFrame DEF scanVars, loopVars, mainVars, PublishedInv
  <1>2. CASE \E ok \in BOOLEAN : ScanRead(ok)
    <2>1. at \notin {"helper", "publish"} /\ UNCHANGED <<loopVars, mainVars>>
      BY Zenon, <1>2 DEF ScanRead, ListCards, ScanCard, readQueueDriver, EvaluateKeyless, Evaluate,
                  ServeFromCache, ReadSucceeds, ReadFails
    <2> QED
      BY Zenon, <2>1 DEF PublishedInv, loopVars, mainVars
  <1>3. CASE ~(\E r \in Rpcs : Handles(r)) /\ ~(\E ok \in BOOLEAN : ScanRead(ok))
    BY Zenon, <1>3, StepCases
       DEF PublishedInv, Handles, Crash, Restart, Shutdown, ProcessEnds, Start, StopHelper,
           Signal, ScanFails, CompareAndUpdate, PublishResources, EndCycle, MuteCard, CardGone,
           StartHelper, SelectTick, SelectTrigger, SelectDone, Tick, BusChanges, Hotplug, Rekey,
           scanVars, loopVars, mainVars, vars
  <1> QED
    BY Zenon, <1>1, <1>2, <1>3

\* The ResourceSlices and the health stream name the same devices whenever the
\* loop sleeps.
THEOREM SlicesMatchState == Spec => []PublishedIsStored
  <1>1. Init => PublishedInv
    BY Zenon DEF Init, PublishedInv
  <1>2. LoopInv /\ PublishedInv /\ [Next]_vars => PublishedInv'
    BY Zenon, PublishedNext
  <1>3. PublishedInv => PublishedIsStored
    BY Zenon DEF PublishedInv, PublishedIsStored, unknownHealthReport
  <1> QED
    BY <1>1, <1>2, <1>3, LoopInvariant, PTL DEF Spec

-----------------------------------------------------------------------------
(* No change is forgotten *)

\* Nothing has touched the bus behind the scan: no call is being served, none has
\* asked for another scan, and neither hardware nor a failed read interfered.
Quiet == ~dirty /\ ~trigger /\ grpcMutexFree

Matches(snapshot, q) ==
    snapshot[q].type = type[CardOf(q)] /\ snapshot[q].driver = driver[q]

Reading == at \in {"queue", "mkvps", "read", "wedged"}
Scanning == at = "card" \/ Reading

\* The scan has still to read q.
Pending(q) == CardOf(q) \in todo \/ q \in left \/ q = cur

\* Holds at any time: a queue that is not plugged in has no driver, the card being
\* read is off the list, and what has still to be read is not in the result.
BusOK ==
    /\ \A q \in Queues : type[CardOf(q)] = "none" => driver[q] = ""
    /\ Reading => \A q \in Queues : q \in left \/ q = cur => CardOf(q) \notin todo
    /\ Scanning => \A q \in Queues : Pending(q) => found[q] = Absent

\* Holds while it is quiet: what has been read is still so, and travels from the
\* scan's result over the state to the ResourceSlices.
QuietOK ==
    /\ Scanning => \A q \in Queues : ~Pending(q) => Matches(found, q)
    /\ Reading => \A q \in Queues : q \in left \/ q = cur => cardType = type[CardOf(q)]
    /\ at \in {"mkvps", "read", "wedged"} => seen = driver[cur]
    /\ at \in {"helper", "publish"} => \A q \in Queues : Matches(stored, q)
    /\ at = "select" /\ helper => \A q \in Queues : Matches(published, q)

ChangesInv == BusOK /\ (Quiet => QuietOK)

\* An absent device matches a queue that is not plugged in.
LEMMA AbsentMatches ==
    ASSUME BusOK, NEW q \in Queues, type[CardOf(q)] = "none"
    PROVE  Absent.type = type[CardOf(q)] /\ Absent.driver = driver[q]
  BY Zenon, AbsentFields DEF BusOK

\* A device that joins the result matches, and the others stay as they are.
LEMMA FoundMatches ==
    ASSUME LoopInv, BusOK, at \in {"mkvps", "read"},
           NEW mkvps, NEW mkvpState, Found(mkvps, mkvpState)
    PROVE  BusOK' /\ (QuietOK => QuietOK')
  <1>1. /\ cur \in Queues /\ cur \notin left
        /\ cur' = NoQueue /\ NoQueue \notin Queues
        /\ UNCHANGED <<todo, cardType, left, type, driver>>
        /\ at' = IF left = {} THEN "card" ELSE "queue"
    BY Zenon, ScannerAssumption DEF LoopInv, CursorOK, Found, busVars
  <1>2. /\ \A q \in Queues : q # cur => found'[q] = found[q]
        /\ found'[cur].type = cardType /\ found'[cur].driver = seen
    BY Zenon, <1>1 DEF Found, LoopInv, TypeOK, ScannerTypeOK, Snapshots
  <1>3. Scanning /\ Reading /\ Scanning'
    BY Zenon, <1>1 DEF Scanning, Reading
  <1>4. \A q \in Queues : Pending(q)' <=> (Pending(q) /\ q # cur)
    BY Zenon, <1>1, <1>3 DEF Pending, BusOK
  <1>5. BusOK'
    BY Zenon, <1>1, <1>2, <1>3, <1>4 DEF BusOK, Reading
  <1>6. ASSUME QuietOK
        PROVE  QuietOK'
    <2>1. cardType = type[CardOf(cur)] /\ seen = driver[cur]
      BY Zenon, <1>1, <1>3, <1>6 DEF QuietOK, Reading
    <2>2. ASSUME NEW q \in Queues, ~Pending(q)'
          PROVE  Matches(found, q)'
      BY <1>1, <1>2, <1>3, <1>4, <1>6, <2>1, <2>2 DEF QuietOK, Matches
    <2> QED
      BY Zenon, <1>1, <1>3, <1>6, <2>2 DEF QuietOK, Reading
  <1> QED
    BY Zenon, <1>5, <1>6

\* A step of the scan: what it reads is so when it reads it.
LEMMA ScanReadMatches ==
    ASSUME LoopInv, ChangesInv, NEW ok \in BOOLEAN, ScanRead(ok)
    PROVE  ChangesInv'
  <1>0. /\ Quiet' => Quiet /\ ~(at = "queue" /\ ~ok)
        /\ BusOK
    BY Zenon DEF ScanRead, Quiet, grpcMutexFree, rpcVars, ChangesInv
  <1>1. CASE EvaluateKeyless \/ ServeFromCache \/ ReadSucceeds \/ ReadFails(ok)
    <2>1. at \in {"mkvps", "read"} /\ \E mkvps, mkvpState : Found(mkvps, mkvpState)
      BY Zenon, <1>1 DEF EvaluateKeyless, ServeFromCache, ReadSucceeds, ReadFails
    <2> QED
      BY Zenon, <1>0, <2>1, FoundMatches DEF ChangesInv
  <1>2. CASE Evaluate
    BY Zenon, <1>0, <1>2 DEF Evaluate, ChangesInv, BusOK, QuietOK, Scanning, Reading, Pending, Matches,
                      cursorVars, busVars
  <1>3. CASE ListCards
    <2>1. /\ at' = "card" /\ left' = {} /\ cur' = NoQueue /\ NoQueue \notin Queues
          /\ \A q \in Queues : found'[q] = Absent
          /\ UNCHANGED <<type, driver>>
          /\ todo' = {c \in Cards : type[c] # "none"}
      BY Zenon, <1>3, ScannerAssumption DEF ListCards, LoopInv, CursorOK, NoDevices, busVars
    <2>2. ASSUME NEW q \in Queues, ~Pending(q)'
          PROVE  Matches(found, q)'
      <3>1. type[CardOf(q)] = "none"
        BY Zenon, <2>1, <2>2, ScannerAssumption DEF Pending
      <3> QED
        BY Zenon, <1>0, <2>1, <3>1, AbsentMatches DEF Matches
    <2> QED
      BY Zenon, <1>0, <2>1, <2>2 DEF ChangesInv, BusOK, QuietOK, Scanning, Reading
  <1>4. ASSUME NEW c \in Cards, ScanCard(c)
        PROVE  ChangesInv'
    <2>1. /\ at = "card" /\ left = {} /\ cur = NoQueue /\ NoQueue \notin Queues
          /\ cur' = cur /\ found' = found /\ c \in todo /\ todo' = todo \ {c}
          /\ UNCHANGED <<type, driver>>
      BY Zenon, <1>4, ScannerAssumption DEF ScanCard, LoopInv, CursorOK, busVars
    <2>2. CASE type[c] # "none" /\ QueuesOf(c) # {}
      <3>1. at' = "queue" /\ cardType' = type[c] /\ left' = QueuesOf(c)
        BY Zenon, <1>4, <2>2 DEF ScanCard
      <3>2. \A q \in Queues : /\ Pending(q)' <=> Pending(q)
                              /\ (q \in left' \/ q = cur') => CardOf(q) = c
        BY Zenon, <2>1, <3>1 DEF Pending, QueuesOf
      <3> QED
        BY Zenon, <1>0, <2>1, <3>1, <3>2
           DEF ChangesInv, BusOK, QuietOK, Scanning, Reading, Matches
    <2>3. CASE ~(type[c] # "none" /\ QueuesOf(c) # {})
      <3>1. at' = "card" /\ left' = {}
        BY Zenon, <1>4, <2>1, <2>3 DEF ScanCard
      <3>2. ASSUME NEW q \in Queues, ~Pending(q)', Quiet'
            PROVE  Matches(found, q)'
        <4>1. CASE CardOf(q) = c
          <5>1. type[CardOf(q)] = "none"
            BY Zenon, <2>3, <4>1 DEF QueuesOf
          <5>2. found[q] = Absent
            BY Zenon, <1>0, <2>1, <4>1 DEF BusOK, Scanning, Pending
          <5> QED
            BY Zenon, <1>0, <2>1, <5>1, <5>2, AbsentMatches DEF Matches
        <4>2. CASE CardOf(q) # c
          BY Zenon, <1>0, <2>1, <3>1, <3>2, <4>2 DEF ChangesInv, QuietOK, Scanning, Pending, Matches
        <4> QED
          BY Zenon, <4>1, <4>2
      <3>3. \A q \in Queues : Pending(q)' => Pending(q)
        BY Zenon, <2>1, <3>1 DEF Pending
      <3> QED
        BY Zenon, <1>0, <2>1, <3>1, <3>2, <3>3 DEF ChangesInv, BusOK, QuietOK, Scanning, Reading
    <2> QED
      BY Zenon, <2>2, <2>3
  <1>5. ASSUME NEW p \in Queues, readQueueDriver(p, ok)
        PROVE  ChangesInv'
    <2>1. /\ at = "queue" /\ at' = "mkvps" /\ p \in left /\ left' = left \ {p}
          /\ cur = NoQueue /\ NoQueue \notin Queues /\ cur' = p
          /\ ok => seen' = driver[p]
          /\ UNCHANGED <<todo, cardType, found, type, driver>>
      BY Zenon, <1>5, ScannerAssumption DEF readQueueDriver, LoopInv, CursorOK, busVars
    <2>2. \A q \in Queues : /\ Pending(q)' <=> Pending(q)
                            /\ (q \in left' \/ q = cur') => q \in left
      BY Zenon, <2>1 DEF Pending
    <2> QED
      BY Zenon, <1>0, <2>1, <2>2 DEF ChangesInv, BusOK, QuietOK, Scanning, Reading, Matches
  <1> QED
    BY Zenon, <1>1, <1>2, <1>3, <1>4, <1>5 DEF ScanRead

\* A call's step is quiet only if it leaves the bus alone: a call that changed a
\* binding asks for a scan before the next one is served.
LEMMA HandlerMatches ==
    ASSUME LoopInv, ChangesInv, NEW r \in Rpcs, Handles(r)
    PROVE  ChangesInv'
  <1>1. UNCHANGED <<at, todo, cardType, left, cur, seen, found, stored, published, helper, dirty>>
    BY Zenon, HandlerFrame DEF scanVars, cursorVars, loopVars, mainVars
  <1>2. CASE \E q \in Queues, d \in Bindings : Write(r, q, d)
    <2>1. PICK q \in Queues, d \in Bindings : Write(r, q, d)
      BY Zenon, <1>2
    <2>2. /\ type' = type /\ rpc' = rpc /\ rpc[r] = "write" /\ type[CardOf(q)] # "none"
          /\ driver' = [driver EXCEPT ![q] = d]
      BY Zenon, <2>1 DEF Write, rpcVars
    <2>3. ~Quiet'
      BY Zenon, <2>2 DEF Quiet, grpcMutexFree
    <2>4. BusOK'
      BY Zenon, <1>1, <2>2 DEF ChangesInv, BusOK, Scanning, Reading, Pending, LoopInv, TypeOK,
                        ScannerTypeOK
    <2> QED
      BY Zenon, <2>3, <2>4 DEF ChangesInv
  <1>3. CASE Return(r)
    BY Zenon, <1>1, <1>3 DEF Return, Quiet, ChangesInv, BusOK, Scanning, Reading, Pending, busVars
  <1>4. CASE ~Return(r) /\ ~\E q \in Queues, d \in Bindings : Write(r, q, d)
    <2>1. UNCHANGED busVars /\ trigger' = trigger
      BY Zenon, <1>4 DEF Handles, Call, Serialize, HandlerGoesOn, CheckContext, lockCtx, Unlock, Expire,
                  BlockedWrite
    <2>2. grpcMutexFree' => grpcMutexFree
      BY Zenon, <1>4 DEF Handles, Call, Serialize, HandlerGoesOn, CheckContext, lockCtx, Unlock, Expire,
                  BlockedWrite, NextClaim, grpcMutexFree, LoopInv, TypeOK, RpcSteps
    <2>3. Quiet' => Quiet
      BY Zenon, <1>1, <2>1, <2>2 DEF Quiet
    <2> QED
      BY Zenon, <1>1, <2>1, <2>3 DEF ChangesInv, BusOK, QuietOK, Scanning, Reading, Pending, Matches,
                              busVars
  <1> QED
    BY Zenon, <1>2, <1>3, <1>4

\* A step of the hardware or the administrator leaves no driver behind.
LEMMA BusChangesMatches ==
    ASSUME LoopInv, ChangesInv, BusChanges
    PROVE  ChangesInv'
  <1>1. ~Quiet' /\ UNCHANGED scanVars
    BY Zenon DEF BusChanges, Hotplug, Rekey, Quiet
  <1>2. \A q \in Queues : type'[CardOf(q)] = "none" => driver'[q] = ""
    <2>1. ASSUME NEW c \in Cards, NEW t \in CardTypes \cup {"none"}, Hotplug(c, t)
          PROVE  \A q \in Queues : type'[CardOf(q)] = "none" => driver'[q] = ""
      <3> SUFFICES ASSUME NEW q \in Queues, type'[CardOf(q)] = "none"
                   PROVE  driver'[q] = ""
        BY Zenon
      <3>1. /\ CardOf(q) # c => driver'[q] = driver[q]
            /\ CardOf(q) = c => driver'[q] = IF t = "none" THEN "" ELSE "cex4queue"
        BY Zenon, <2>1 DEF Hotplug
      <3>2. type' = [type EXCEPT ![c] = t] /\ CardOf(q) \in Cards
        BY Zenon, <2>1, ScannerAssumption DEF Hotplug
      <3>3. type'[CardOf(q)] = IF CardOf(q) = c THEN t ELSE type[CardOf(q)]
        BY Zenon, <3>2 DEF LoopInv, TypeOK, ScannerTypeOK
      <3> QED
        BY Zenon, <3>1, <3>3 DEF ChangesInv, BusOK
    <2>2. ASSUME NEW p \in Queues, NEW k \in Keys, Rekey(p, k)
          PROVE  \A q \in Queues : type'[CardOf(q)] = "none" => driver'[q] = ""
      BY Zenon, <2>2 DEF Rekey, ChangesInv, BusOK
    <2> QED
      BY Zenon, <2>1, <2>2 DEF BusChanges
  <1> QED
    BY Zenon, <1>1, <1>2 DEF ChangesInv, BusOK, Scanning, Reading, Pending, scanVars, cursorVars

\* The loop hands on what the scan found.
LEMMA LockedStepMatches ==
    ASSUME LoopInv, PublishedInv, ChangesInv, LockedStep
    PROVE  ChangesInv'
  <1>1. /\ at' \in {"helper", "publish", "select"} /\ BusOK
        /\ UNCHANGED <<type, keys, driver, dirty, rpc, helper>>
    BY Zenon DEF LockedStep, CompareAndUpdate, PublishResources, EndCycle, ChangesInv, busVars, rpcVars,
           mainVars
  <1>2. Quiet' => Quiet
    BY Zenon, <1>1 DEF Quiet, grpcMutexFree, LockedStep, CompareAndUpdate, PublishResources, EndCycle
  <1>3. BusOK'
    BY Zenon, <1>1 DEF BusOK, Scanning, Reading
  <1>4. ASSUME Quiet'
        PROVE  QuietOK'
    <2>1. CASE CompareAndUpdate
      <3>1. \A q \in Queues : Matches(found, q)
        BY Zenon, <1>2, <1>4, <2>1, ScannerAssumption
           DEF CompareAndUpdate, ChangesInv, QuietOK, Scanning, Pending, LoopInv, CursorOK
      <3>2. \/ at' # "select" /\ stored' = found
            \/ at' = "select" /\ published' = published /\ found = stored
        BY Zenon, <2>1 DEF CompareAndUpdate, EndCycle, HashDiffers
      <3>3. at' = "select" /\ helper' => published' = found
        BY Zenon, <1>1, <2>1, <3>2 DEF CompareAndUpdate, PublishedInv
      <3> QED
        BY <1>1, <3>1, <3>2, <3>3 DEF QuietOK, Scanning, Reading, Matches
    <2>2. CASE PublishResources
      <3>1. \A q \in Queues : Matches(stored, q)
        BY Zenon, <1>2, <1>4, <2>2 DEF PublishResources, ChangesInv, QuietOK
      <3>2. at' = "select" /\ (helper' => published' = stored)
        BY <1>1, <2>2 DEF PublishResources, EndCycle
      <3> QED
        BY <1>1, <3>1, <3>2 DEF QuietOK, Scanning, Reading, Matches
    <2> QED
      BY Zenon, <2>1, <2>2 DEF LockedStep
  <1> QED
    BY Zenon, <1>3, <1>4 DEF ChangesInv

\* Every step keeps the published devices on the trail of the bus.
LEMMA ChangesNext ==
    ASSUME LoopInv, PublishedInv, ChangesInv, [Next]_vars
    PROVE  ChangesInv'
  <1> USE DEF ChangesInv
  <1>1. CASE \E r \in Rpcs : Handles(r)
    BY Zenon, <1>1, HandlerMatches
  <1>2. CASE \E ok \in BOOLEAN : ScanRead(ok)
    BY Zenon, <1>2, ScanReadMatches
  <1>3. CASE LockedStep
    BY Zenon, <1>3, LockedStepMatches
  <1>4. CASE BusChanges
    BY Zenon, <1>4, BusChangesMatches
  <1>5. CASE ProcessEnds
    BY Zenon, <1>5 DEF ProcessEnds, BusOK, QuietOK, Scanning, Reading, busVars
  <1>6. ASSUME NEW orphans \in SUBSET Plugged, Start(orphans)
        PROVE  ChangesInv'
    BY Zenon, <1>6 DEF Start, Plugged, BusOK, QuietOK, Scanning, Reading
  <1>7. CASE SelectTick \/ SelectTrigger \/ SelectDone
    BY Zenon, <1>7 DEF SelectTick, SelectTrigger, SelectDone, BusOK, QuietOK, Scanning, Reading, busVars
  <1>8. CASE ScanFails
    <2>1. CASE cycle = "initial"
      BY Zenon, <1>5, <1>8, <2>1 DEF ScanFails
    <2>2. CASE cycle # "initial"
      BY Zenon, <1>8, <2>2 DEF ScanFails, EndCycle, BusOK, Quiet, Scanning, Reading, busVars
    <2> QED
      BY Zenon, <2>1, <2>2
  <1>9. CASE MuteCard \/ CardGone \/ StartHelper \/ StopHelper \/ Signal \/ Tick \/ UNCHANGED vars
    <2>1. /\ UNCHANGED <<busVars, cursorVars, found, stored, published, trigger, rpc, dirty>>
          /\ \/ at' = at /\ (helper' => helper)
             \/ at = "read" /\ at' = "wedged"
             \/ at = "wedged" /\ at' = "read"
             \/ at = "helper" /\ at' = "publish"
      BY <1>9 DEF MuteCard, CardGone, StartHelper, StopHelper, Signal, Tick, vars, scanVars,
                  loopVars, rpcVars, mainVars
    <2> QED
      BY Zenon, <2>1 DEF BusOK, Quiet, QuietOK, grpcMutexFree, Scanning, Reading, Pending, Matches,
                  busVars, cursorVars
  <1> QED
    BY Zenon, <1>1, <1>2, <1>3, <1>4, <1>5, <1>6, <1>7, <1>8, <1>9, StepCases
       DEF Handles, LockedStep, Crash, Restart, Shutdown

\* Whatever calls did to the bindings while a scan read them, once the loop sleeps
\* with nothing requested and nobody served, the ResourceSlices show the bus.
THEOREM NoChangeIsForgotten == Spec => []NoChangeForgotten
  <1>1. Init => PublishedInv /\ ChangesInv
    <2>1. ASSUME Init
          PROVE  BusOK
      BY Zenon, <2>1, ScannerAssumption DEF Init, BusOK, Scanning, Reading, KeyedTypes
    <2> QED
      BY Zenon, <2>1 DEF Init, PublishedInv, ChangesInv, QuietOK, Scanning, Reading
  <1>2. LoopInv /\ PublishedInv /\ ChangesInv /\ [Next]_vars => PublishedInv' /\ ChangesInv'
    BY Zenon, PublishedNext, ChangesNext
  <1>3. ChangesInv => NoChangeForgotten
    BY Zenon DEF ChangesInv, Quiet, QuietOK, Matches, NoChangeForgotten
  <1> QED
    BY <1>1, <1>2, <1>3, LoopInvariant, PTL DEF Spec

-----------------------------------------------------------------------------
(* Every cycle comes to its end *)

\* What is ahead of a scan is finite: so are the cards and the queues.
LEMMA ReadsAreCounted ==
    ASSUME LoopInv
    PROVE  /\ IsFiniteSet(todo) /\ IsFiniteSet(left) /\ IsFiniteSet(Unread)
           /\ Cardinality(todo) \in Nat /\ Cardinality(left) \in Nat
           /\ Cardinality(Unread) \in Nat
  <1>1. IsFiniteSet(Cards) /\ IsFiniteSet(Queues)
    BY Zenon, ScannerAssumption
  <1>2. todo \in SUBSET Cards /\ left \in SUBSET Queues /\ Unread \in SUBSET Queues
    BY Zenon DEF LoopInv, TypeOK, ScannerTypeOK, Unread
  <1>3. IsFiniteSet(todo) /\ IsFiniteSet(left) /\ IsFiniteSet(Unread)
    BY Zenon, <1>1, <1>2, FS_Subset
  <1> QED
    BY Zenon, <1>3, FS_CardinalityType

\* The reads left are those of the sets and of the queue at hand.
LEMMA ReadsOfStep ==
    ASSUME LoopInv
    PROVE  /\ OfThisQueue \in 0 .. 2
           /\ at = "mkvps" => OfThisQueue = 2
           /\ at \in {"read", "wedged"} => OfThisQueue = 1
           /\ at \in {"card", "queue"} => OfThisQueue = 0
  BY DEF OfThisQueue

\* A card that is taken up takes its queues with it.
LEMMA CardTaken ==
    ASSUME LoopInv, NEW c \in todo, todo' = todo \ {c}
    PROVE  /\ Cardinality(todo') = Cardinality(todo) - 1
           /\ IsFiniteSet(QueuesOf(c)) /\ Cardinality(QueuesOf(c)) \in Nat
           /\ Cardinality(Unread') = Cardinality(Unread) - Cardinality(QueuesOf(c))
  <1> IsFiniteSet(todo) /\ IsFiniteSet(Unread)
    BY Zenon, ReadsAreCounted
  <1>1. Cardinality(todo') = Cardinality(todo) - 1
    BY Zenon, FS_RemoveElement
  <1>2. QueuesOf(c) \in SUBSET Unread /\ Unread \cap QueuesOf(c) = QueuesOf(c)
    BY Zenon DEF QueuesOf, Unread
  <1>3. Unread' = Unread \ QueuesOf(c)
    BY Zenon DEF QueuesOf, Unread
  <1>4. IsFiniteSet(QueuesOf(c)) /\ Cardinality(QueuesOf(c)) \in Nat
    BY Zenon, <1>2, FS_Subset, FS_CardinalityType
  <1>5. Cardinality(Unread \ QueuesOf(c)) = Cardinality(Unread) - Cardinality(QueuesOf(c))
    <2>1. Cardinality(Unread \ QueuesOf(c))
            = Cardinality(Unread) - Cardinality(Unread \cap QueuesOf(c))
      BY Zenon, FS_Difference
    <2> QED
      BY Zenon, <1>2, <2>1
  <1> QED
    BY Zenon, <1>1, <1>3, <1>4, <1>5

\* The stages of a cycle.
LEMMA CycleStages ==
    /\ CycleStage \in 0 .. 4
    /\ at = "list" => CycleStage = 4
    /\ at \in {"card", "queue", "mkvps", "read", "wedged"} => CycleStage = 3
    /\ at = "helper" => CycleStage = 2
    /\ at = "publish" => CycleStage = 1
    /\ at \in {"down", "select", "stopped"} => CycleStage = 0
  BY DEF CycleStage, ScanSteps

\* The end of a cycle or of the process, and each stage but the scan.
LEMMA StageEnds ==
    ASSUME LoopInv, LoopInv',
           \/ at' \in {"down", "select", "stopped"} /\ CycleStage > 0
           \/ at = "list" /\ at' = "card"
           \/ at = "card" /\ at' \in {"helper", "publish"}
           \/ at = "helper" /\ at' = "publish"
    PROVE  Closer
  <1>1. (/\ CycleStage \in 0 .. 4
         /\ at = "list" => CycleStage = 4
         /\ at \in {"card", "queue", "mkvps", "read", "wedged"} => CycleStage = 3
         /\ at = "helper" => CycleStage = 2
         /\ at = "publish" => CycleStage = 1
         /\ at \in {"down", "select", "stopped"} => CycleStage = 0)'
    BY CycleStages, PTL
  <1> QED
    BY <1>1, CycleStages DEF Closer

\* A card or a queue is read.
LEMMA ReadsAdvance ==
    ASSUME LoopInv, LoopInv', NEW ok \in BOOLEAN, ScanRead(ok)
    PROVE  Closer
  <1>1. (/\ OfThisQueue \in 0 .. 2
         /\ at = "mkvps" => OfThisQueue = 2
         /\ at \in {"read", "wedged"} => OfThisQueue = 1
         /\ at \in {"card", "queue"} => OfThisQueue = 0)'
    BY ReadsOfStep, PTL
  <1>2. (at \in {"card", "queue", "mkvps", "read", "wedged"} => CycleStage = 3)'
    BY CycleStages, PTL
  <1>3. CASE ListCards
    BY <1>3, StageEnds DEF ListCards
  <1>4. ASSUME NEW c \in Cards, ScanCard(c)
        PROVE  Closer
    <2>1. c \in todo /\ at = "card" /\ todo' = todo \ {c} /\ left = {}
      BY Zenon, <1>4 DEF ScanCard, LoopInv, CursorOK
    <2>2. /\ at' \in {"card", "queue"}
          /\ left' = {} \/ left' = QueuesOf(c)
      BY Zenon, <1>4, <2>1 DEF ScanCard
    <2>3. Cardinality(left) = 0 /\ (left' = {} => Cardinality(left') = 0)
      BY <2>1, FS_EmptySet
    <2>4. Cardinality(left') \in 0 .. Cardinality(QueuesOf(c))
      BY <2>1, <2>2, <2>3, CardTaken
    <2>5. OfThisQueue = 0 /\ OfThisQueue' = 0
      BY Zenon, <1>1, <2>1, <2>2, ReadsOfStep
    <2>6. /\ Cardinality(todo') = Cardinality(todo) - 1
          /\ Cardinality(QueuesOf(c)) \in Nat
          /\ Cardinality(Unread') = Cardinality(Unread) - Cardinality(QueuesOf(c))
      BY Zenon, <2>1, CardTaken
    <2>7. Cardinality(todo) \in Nat /\ Cardinality(Unread) \in Nat
      BY Zenon, ReadsAreCounted
    <2>8. ReadsLeft' < ReadsLeft
      <3>1. ReadsLeft = Cardinality(todo) + 3 * Cardinality(Unread)
        BY <2>3, <2>5, <2>7 DEF ReadsLeft
      <3>2. ReadsLeft' = Cardinality(todo') + 3 * (Cardinality(left') + Cardinality(Unread'))
        BY <2>4, <2>5, <2>6, <2>7 DEF ReadsLeft
      <3> QED
        BY <2>4, <2>6, <2>7, <3>1, <3>2
    <2> QED
      BY Zenon, <1>2, <2>1, <2>2, <2>8, CycleStages DEF Closer
  <1>5. ASSUME NEW q \in Queues, readQueueDriver(q, ok)
        PROVE  Closer
    <2>1. /\ at = "queue" /\ at' = "mkvps" /\ q \in left /\ left' = left \ {q}
          /\ todo' = todo
      BY Zenon, <1>5 DEF readQueueDriver
    <2>2. IsFiniteSet(left) /\ Cardinality(left) \in Nat
      BY Zenon, ReadsAreCounted
    <2>3. Unread' = Unread
      BY Zenon, <2>1 DEF Unread
    <2>4. Cardinality(left') = Cardinality(left) - 1
      BY Zenon, <2>1, <2>2, FS_RemoveElement
    <2>5. ReadsLeft' < ReadsLeft
      BY <1>1, <2>1, <2>2, <2>3, <2>4, ReadsAreCounted, ReadsOfStep DEF ReadsLeft
    <2> QED
      BY Zenon, <1>2, <2>1, <2>5, CycleStages DEF Closer
  <1>6. CASE EvaluateKeyless \/ Evaluate \/ ServeFromCache \/ ReadSucceeds \/ ReadFails(ok)
    <2>1. /\ todo' = todo /\ left' = left
          /\ \/ at = "mkvps" /\ at' = "read"
             \/ at \in {"mkvps", "read"} /\ at' \in {"card", "queue"}
      BY Zenon, <1>6 DEF EvaluateKeyless, Evaluate, ServeFromCache, ReadSucceeds, ReadFails,
                         Found, cursorVars
    <2>2. Unread' = Unread
      BY Zenon, <2>1 DEF Unread
    <2>3. ReadsLeft' < ReadsLeft
      BY <1>1, <2>1, <2>2, ReadsAreCounted, ReadsOfStep DEF ReadsLeft
    <2> QED
      BY Zenon, <1>2, <2>1, <2>3, CycleStages DEF Closer
  <1> QED
    BY Zenon, <1>3, <1>4, <1>5, <1>6 DEF ScanRead

\* Each step that can fall into a cycle: its own ones lower the measure, the
\* others leave it, or end the cycle.
LEMMA CycleNext ==
    ASSUME LoopInv, LoopInv', [Next]_vars, CycleStage > 0
    PROVE  Closer \/ (AsClose /\ ~CycleStep)
  <1>1. ASSUME NEW ok \in BOOLEAN, ScanRead(ok)
        PROVE  Closer
    BY Zenon, <1>1, ReadsAdvance
  <1>2. CASE Crash \/ Restart \/ Shutdown \/ ScanFails \/ SelectDone \/ PublishResources
    <2>1. at' \in {"down", "select", "stopped"}
      BY Zenon, <1>2 DEF Crash, Restart, Shutdown, ProcessEnds, ScanFails, EndCycle, SelectDone,
                         PublishResources
    <2> QED
      BY <2>1, StageEnds
  <1>3. CASE CompareAndUpdate \/ StartHelper
    <2>1. \/ at' = "select"
          \/ at = "card" /\ at' \in {"helper", "publish"}
          \/ at = "helper" /\ at' = "publish"
      BY Zenon, <1>3 DEF CompareAndUpdate, EndCycle, StartHelper
    <2> QED
      BY Zenon, <2>1, StageEnds
  <1>4. CASE SelectTick \/ SelectTrigger \/ \E orphans \in SUBSET Plugged : Start(orphans)
    <2>1. at \in {"down", "select"}
      BY Zenon, <1>4 DEF SelectTick, SelectTrigger, Start
    <2> QED
      BY <2>1, CycleStages
  <1>5. CASE ~CycleStep /\ (MuteCard \/ CardGone)
    <2>1. /\ at \in {"read", "wedged"} /\ at' \in {"read", "wedged"}
          /\ todo' = todo /\ left' = left
      BY Zenon, <1>5 DEF MuteCard, CardGone, cursorVars
    <2>2. CycleStage' = CycleStage /\ OfThisQueue' = OfThisQueue
      BY Zenon, <2>1 DEF CycleStage, OfThisQueue, ScanSteps
    <2> QED
      BY Zenon, <1>5, <2>1, <2>2 DEF AsClose, ReadsLeft, Unread
  <1>6. CASE ~CycleStep /\ UNCHANGED <<at, todo, left>>
    BY Zenon, <1>6 DEF AsClose, CycleStage, ReadsLeft, OfThisQueue, Unread
  <1>7. CASE \/ StopHelper \/ Signal \/ Tick \/ BusChanges \/ UNCHANGED vars
             \/ \E r \in Rpcs : Handles(r)
    <2>1. UNCHANGED scanVars
      BY Zenon, <1>7, HandlerFrame DEF StopHelper, Signal, Tick, BusChanges, Hotplug, Rekey, vars
    <2> QED
      BY Zenon, <1>1, <1>2, <1>3, <1>6, <2>1 DEF scanVars, cursorVars, CycleStep, LockedStep
  <1> QED
    BY Zenon, <1>1, <1>2, <1>3, <1>4, <1>5, <1>7, StepCases DEF Handles, CycleStep, LockedStep

\* Every step of a cycle leaves less of it to do, whatever the calls, the hardware
\* and the failures of the reads: a cycle of any bus is bounded by its cards and
\* queues.
THEOREM CyclesComeToAnEnd == Spec => CyclesAdvance
  <1>1. LoopInv /\ LoopInv' /\ [Next]_vars
           => [CycleStage > 0 => Closer \/ (AsClose /\ ~CycleStep)]_vars
    BY Zenon, CycleNext
  <1> QED
    BY <1>1, LoopInvariant, PTL DEF Spec, CyclesAdvance

-----------------------------------------------------------------------------
(* One operation at a time *)

\* Before the helper serves.
Booting == at = "down" \/ (cycle = "initial" /\ at # "publish")

\* What module Driver takes for granted: no call is served while the driver
\* drains, sweeps and scans before its helper starts, or after its end, and of
\* the calls that arrive later only one is past the helper's mutex.
OneAtATime ==
    /\ Booting => ~helper /\ \A r \in Rpcs : rpc[r] = "idle"
    /\ \A r, s \in Rpcs : r # s => rpc[r] \in {"idle", "queued"} \/ rpc[s] \in {"idle", "queued"}

\* A handler moves on past the mutex, or enters while nobody is.
LEMMA HandlersInTurn ==
    ASSUME LoopInv, OneAtATime, NEW r \in Rpcs, Handles(r)
    PROVE  OneAtATime'
  <1>1. UNCHANGED <<scanVars, loopVars, mainVars>>
    BY Zenon, HandlerFrame
  <1>2. rpc \in [Rpcs -> RpcSteps]
    BY Zenon DEF LoopInv, TypeOK
  <1>3. ~Booting
    BY Zenon, <1>2 DEF Handles, OneAtATime, Call, Serialize, HandlerGoesOn, CheckContext, lockCtx,
                Unlock, Return, Expire, BlockedWrite, Write
  <1>4. ~Booting'
    BY Zenon, <1>1, <1>3 DEF Booting, scanVars, loopVars
  <1>5. \/ rpc' = rpc
        \/ \E step \in RpcSteps :
              /\ rpc' = [rpc EXCEPT ![r] = step]
              /\ \/ step \in {"idle", "queued"}
                 \/ rpc[r] \notin {"idle", "queued"}
                 \/ grpcMutexFree
    BY Zenon DEF Handles, Call, Serialize, HandlerGoesOn, CheckContext, lockCtx, NextClaim, Unlock,
           Return, Expire, BlockedWrite, Write, rpcVars, RpcSteps
  <1>6. ASSUME NEW s \in Rpcs, NEW t \in Rpcs, s # t
        PROVE  rpc'[s] \in {"idle", "queued"} \/ rpc'[t] \in {"idle", "queued"}
    BY Zenon, <1>2, <1>5, <1>6 DEF OneAtATime, grpcMutexFree
  <1> QED
    BY Zenon, <1>4, <1>6 DEF OneAtATime

\* The kubelet's calls take turns, and the driver's start has none: an operation
\* of module Driver runs alone.
THEOREM OperationsRunAlone == Spec => []OneAtATime
  <1>1. Init => OneAtATime
    BY Zenon DEF Init, OneAtATime
  <1>2. ASSUME LoopInv, OneAtATime, [Next]_vars
        PROVE  OneAtATime'
    <2>1. CASE \E r \in Rpcs : Handles(r)
      BY Zenon, <1>2, <2>1, HandlersInTurn
    <2>2. CASE Crash \/ Restart \/ Shutdown \/ (ScanFails /\ cycle = "initial")
      BY Zenon, <2>2 DEF Crash, Restart, Shutdown, ScanFails, ProcessEnds, OneAtATime
    <2>3. CASE ~(\E r \in Rpcs : Handles(r)) /\ ~(Crash \/ Restart \/ Shutdown)
               /\ ~(ScanFails /\ cycle = "initial")
      <3>1. rpc' = rpc
        BY Zenon, <1>2, <2>3, StepCases
           DEF Handles, ScanRead, Start, StopHelper, Signal, ScanFails, CompareAndUpdate,
               PublishResources, MuteCard, CardGone, StartHelper, SelectTick, SelectTrigger,
               SelectDone, Tick, BusChanges, rpcVars, vars
      <3>2. Booting' => Booting /\ (helper' => helper)
        BY Zenon, <1>2, <2>3, StepCases
           DEF Booting, Handles, ScanRead, ListCards, ScanCard, readQueueDriver, EvaluateKeyless,
               Evaluate, ServeFromCache, ReadSucceeds, ReadFails, Found, Start, StopHelper,
               Signal, ScanFails, CompareAndUpdate, PublishResources, EndCycle, MuteCard,
               CardGone, StartHelper, SelectTick, SelectTrigger, SelectDone, Tick, BusChanges,
               Hotplug, Rekey, scanVars, loopVars, mainVars, vars
      <3> QED
        BY Zenon, <1>2, <3>1, <3>2 DEF OneAtATime
    <2> QED
      BY <2>1, <2>2, <2>3
  <1> QED
    BY <1>1, <1>2, LoopInvariant, PTL DEF Spec
=============================================================================
