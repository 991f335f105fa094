--------------------------- MODULE ScanLoopTypes ---------------------------
(***************************************************************************)
(* Type correctness of the scan loop, with what its tracker remembers, for *)
(* any bus, any number of calls and any retry budget.                      *)
(***************************************************************************)
EXTENDS ScanLoop, TLAPS

\* The tracker remembers the last read, and counts the failures after it, until
\* the budget is spent.
TrackerOK ==
    \A q \in Queues :
        /\ cache[q] = IF misses[q] <= MKVPRetryBudget THEN lastRead[q] ELSE Nil
        /\ cache[q] # Nil => failCount[q] = misses[q]

\* Where the scan stands.
CursorOK ==
    /\ IF at \in {"mkvps", "read", "wedged"} THEN cur \in Queues \ left ELSE cur = NoQueue
    /\ at \in {"read", "wedged"} => cardType \in KeyedTypes
    /\ at \notin {"queue", "mkvps", "read", "wedged"} => left = {}

\* A handler at work has a claim left.
ClaimsOK == \A r \in Rpcs : rpc[r] \in {"queued", "check", "wait", "write"} => claims[r] > 0

LoopInv == TypeOK /\ TrackerOK /\ CursorOK /\ ClaimsOK

\* The scanner's part of it.
ScanInv == ScannerTypeOK /\ at \in LoopSteps /\ TrackerOK /\ CursorOK

-----------------------------------------------------------------------------
(* The scan *)

\* No device is a device.
LEMMA AbsentIsDevice == Absent \in Device /\ NoDevices \in Snapshots
  BY Zenon DEF Absent, Device, NoDevices, Snapshots, MKVPs, ReadMKVPs, Drivers

\* QueueToDevice yields a device.
LEMMA FoundTypes ==
    ASSUME ScanInv, at \in {"mkvps", "read"}, NEW mkvps \in MKVPs,
           NEW mkvpState \in {"known", "cached", "unknown"}, Found(mkvps, mkvpState)
    PROVE  /\ found' \in Snapshots
           /\ at' \in {"card", "queue"}
           /\ at' = "card" => left = {}
           /\ cur' = NoQueue /\ seen' \in Drivers
           /\ UNCHANGED <<todo, cardType, left, busVars>>
  BY Zenon DEF ScanInv, ScannerTypeOK, CursorOK, Found, Snapshots, Device, Drivers

\* The same, as the scan's part of the invariant without the tracker.
LEMMA FoundKeepsCursor ==
    ASSUME ScanInv, at \in {"mkvps", "read"}, NEW mkvps \in MKVPs,
           NEW mkvpState \in {"known", "cached", "unknown"}, Found(mkvps, mkvpState),
           cache' \in [Queues -> ReadMKVPs \cup {Nil}],
           failCount' \in [Queues -> 0 .. MissBound],
           lastRead' \in [Queues -> ReadMKVPs \cup {Nil}],
           misses' \in [Queues -> 0 .. MissBound]
    PROVE  ScannerTypeOK' /\ at' \in LoopSteps /\ CursorOK'
  BY Zenon, FoundTypes DEF ScanInv, ScannerTypeOK, CursorOK, LoopSteps, ScanSteps, busVars

\* Nothing of the tracker changes.
LEMMA TrackerUnchanged ==
    ASSUME TrackerOK, UNCHANGED trackerVars
    PROVE  TrackerOK'
  BY Zenon DEF TrackerOK, trackerVars

\* The MKVPs that are published instead of a read.
LEMMA KnownMKVPs ==
    /\ NoMKVPs \in MKVPs /\ ReadMKVPs \subseteq MKVPs
    /\ \A t \in KeyedTypes : UnknownMKVPs(t) \in MKVPs
  BY Zenon DEF MKVPs, ReadMKVPs

\* A successful read is remembered and starts the count anew.
LEMMA ReadSucceedsKeeps ==
    ASSUME ScanInv, ReadSucceeds
    PROVE  ScanInv' /\ UNCHANGED busVars
  <1> DEFINE mkvps == ParseMKVPs(cur, cardType)
  <1>1. /\ at = "read" /\ cur \in Queues /\ cardType \in KeyedTypes
        /\ Found(mkvps, "known")
        /\ cache' = [cache EXCEPT ![cur] = mkvps]
        /\ lastRead' = [lastRead EXCEPT ![cur] = mkvps]
        /\ failCount' = [failCount EXCEPT ![cur] = 0]
        /\ misses' = [misses EXCEPT ![cur] = 0]
    BY Zenon DEF ReadSucceeds, ScanInv, CursorOK
  <1>2. mkvps \in ReadMKVPs
    BY Zenon, <1>1 DEF ParseMKVPs, ReadMKVPs, ScanInv, ScannerTypeOK
  <1> HIDE DEF mkvps
  <1>3. MKVPRetryBudget \in Nat
    BY Zenon, ScannerAssumption
  <1>4. /\ cache' \in [Queues -> ReadMKVPs \cup {Nil}]
        /\ lastRead' \in [Queues -> ReadMKVPs \cup {Nil}]
        /\ failCount' \in [Queues -> 0 .. MissBound]
        /\ misses' \in [Queues -> 0 .. MissBound]
    BY <1>1, <1>2, <1>3 DEF ScanInv, ScannerTypeOK, MissBound
  <1>5. TrackerOK'
    BY <1>1, <1>3 DEF TrackerOK, ScanInv, ScannerTypeOK
  <1>6. ScannerTypeOK' /\ at' \in LoopSteps /\ CursorOK'
    BY Zenon, <1>1, <1>2, <1>4, KnownMKVPs, FoundKeepsCursor
  <1> QED
    BY Zenon, <1>1, <1>5, <1>6 DEF ScanInv, Found

\* A failed read is counted; the last one the budget allows drops the value.
LEMMA ReadFailsKeeps ==
    ASSUME ScanInv, NEW ok \in BOOLEAN, ReadFails(ok)
    PROVE  ScanInv' /\ UNCHANGED busVars
  <1>1. /\ at = "read" /\ cur \in Queues /\ cardType \in KeyedTypes
        /\ misses' = [misses EXCEPT ![cur] = IF @ < MissBound THEN @ + 1 ELSE @]
        /\ lastRead' = lastRead
    BY Zenon DEF ReadFails, ScanInv, CursorOK
  <1>2. MKVPRetryBudget \in Nat
    BY Zenon, ScannerAssumption
  <1>3. misses' \in [Queues -> 0 .. MissBound]
    BY <1>1, <1>2 DEF ScanInv, ScannerTypeOK, MissBound
  <1>4. UnknownMKVPs(cardType) \in MKVPs
    BY Zenon, <1>1, KnownMKVPs
  <1>5. CASE cache[cur] = Nil
    <2>1. Found(UnknownMKVPs(cardType), "unknown") /\ UNCHANGED <<cache, failCount>>
      BY Zenon, <1>5 DEF ReadFails
    <2>2. TrackerOK'
      BY <1>1, <1>2, <1>5, <2>1 DEF TrackerOK, ScanInv, ScannerTypeOK, MissBound
    <2>3. ScannerTypeOK' /\ at' \in LoopSteps /\ CursorOK'
      BY Zenon, <1>1, <1>3, <1>4, <2>1, FoundKeepsCursor DEF ScanInv, ScannerTypeOK
    <2> QED
      BY Zenon, <2>1, <2>2, <2>3 DEF ScanInv, Found
  <1>6. CASE cache[cur] # Nil
    <2>1. /\ failCount[cur] = misses[cur] /\ misses[cur] <= MKVPRetryBudget
          /\ cache[cur] = lastRead[cur] /\ cache[cur] \in ReadMKVPs
          /\ failCount' = [failCount EXCEPT ![cur] = @ + 1]
      BY Zenon, <1>1, <1>6 DEF ReadFails, ScanInv, TrackerOK, ScannerTypeOK
    <2>2. failCount' \in [Queues -> 0 .. MissBound]
      BY <1>1, <1>2, <2>1 DEF ScanInv, ScannerTypeOK, MissBound
    <2>3. CASE failCount[cur] + 1 <= MKVPRetryBudget
      <3>1. Found(cache[cur], "cached") /\ UNCHANGED cache
        BY Zenon, <1>6, <2>3 DEF ReadFails
      <3>2. TrackerOK'
        BY <1>1, <1>2, <2>1, <2>3, <3>1 DEF TrackerOK, ScanInv, ScannerTypeOK, MissBound
      <3>3. ScannerTypeOK' /\ at' \in LoopSteps /\ CursorOK'
        BY Zenon, <1>1, <1>3, <2>1, <2>2, <3>1, KnownMKVPs, FoundKeepsCursor
           DEF ScanInv, ScannerTypeOK
      <3> QED
        BY Zenon, <3>1, <3>2, <3>3 DEF ScanInv, Found
    <2>4. CASE ~(failCount[cur] + 1 <= MKVPRetryBudget)
      <3>1. /\ Found(UnknownMKVPs(cardType), "unknown")
            /\ cache' = [cache EXCEPT ![cur] = Nil]
        BY Zenon, <1>6, <2>4 DEF ReadFails
      <3>2. TrackerOK'
        BY <1>1, <1>2, <2>1, <2>4, <3>1 DEF TrackerOK, ScanInv, ScannerTypeOK, MissBound
      <3>3. cache' \in [Queues -> ReadMKVPs \cup {Nil}]
        BY Zenon, <3>1 DEF ScanInv, ScannerTypeOK
      <3>4. ScannerTypeOK' /\ at' \in LoopSteps /\ CursorOK'
        BY Zenon, <1>1, <1>3, <1>4, <2>2, <3>1, <3>3, FoundKeepsCursor DEF ScanInv, ScannerTypeOK
      <3> QED
        BY Zenon, <3>1, <3>2, <3>4 DEF ScanInv, Found
    <2> QED
      BY Zenon, <2>3, <2>4
  <1> QED
    BY Zenon, <1>5, <1>6

\* Evaluate serves what it can without a read.
LEMMA EvaluateKeeps ==
    ASSUME ScanInv, EvaluateKeyless \/ Evaluate \/ ServeFromCache
    PROVE  ScanInv' /\ UNCHANGED busVars
  <1>1. UNCHANGED trackerVars /\ TrackerOK'
    BY Zenon, TrackerUnchanged DEF EvaluateKeyless, Evaluate, ServeFromCache, ScanInv
  <1>2. CASE Evaluate
    BY Zenon, <1>1, <1>2
       DEF Evaluate, ScanInv, ScannerTypeOK, CursorOK, busVars, cursorVars, trackerVars,
           LoopSteps, ScanSteps
  <1>3. ASSUME NEW mkvps \in MKVPs, NEW mkvpState \in {"known", "cached", "unknown"},
               at = "mkvps", Found(mkvps, mkvpState)
        PROVE  ScanInv' /\ UNCHANGED busVars
    <2>1. ScannerTypeOK' /\ at' \in LoopSteps /\ CursorOK'
      BY Zenon, <1>1, <1>3, FoundKeepsCursor DEF ScanInv, ScannerTypeOK, trackerVars
    <2> QED
      BY Zenon, <1>1, <1>3, <2>1 DEF ScanInv, Found
  <1>4. CASE EvaluateKeyless
    BY Zenon, <1>3, <1>4, KnownMKVPs DEF EvaluateKeyless
  <1>5. CASE ServeFromCache
    <2>1. cur \in Queues /\ cache[cur] \in ReadMKVPs \cup {Nil} /\ at = "mkvps"
      BY Zenon, <1>5 DEF ServeFromCache, ScanInv, CursorOK, ScannerTypeOK
    <2>2. CASE cache[cur] # Nil
      BY Zenon, <1>3, <1>5, <2>1, <2>2, KnownMKVPs DEF ServeFromCache
    <2>3. CASE cache[cur] = Nil
      BY Zenon, <1>3, <1>5, <2>1, <2>3, KnownMKVPs DEF ServeFromCache
    <2> QED
      BY Zenon, <2>2, <2>3
  <1> QED
    BY Zenon, <1>2, <1>4, <1>5

\* The steps of a scan keep the scanner's part of the invariant and the bus.
LEMMA ScanReadKeeps ==
    ASSUME ScanInv, NEW ok \in BOOLEAN, ScanRead(ok)
    PROVE  ScanInv' /\ UNCHANGED busVars
  <1> USE DEF ScanInv, ScannerTypeOK, CursorOK, LoopSteps, ScanSteps, trackerVars, busVars
  <1>1. CASE ListCards
    BY Zenon, <1>1, AbsentIsDevice, TrackerUnchanged DEF ListCards
  <1>2. ASSUME NEW c \in Cards, ScanCard(c)
        PROVE  ScanInv' /\ UNCHANGED busVars
    BY Zenon, <1>2, TrackerUnchanged DEF ScanCard, QueuesOf
  <1>3. ASSUME NEW q \in Queues, readQueueDriver(q, ok)
        PROVE  ScanInv' /\ UNCHANGED busVars
    BY Zenon, <1>3, TrackerUnchanged DEF readQueueDriver, Drivers
  <1> QED
    BY Zenon, <1>1, <1>2, <1>3, EvaluateKeeps, ReadSucceedsKeeps, ReadFailsKeeps DEF ScanRead

-----------------------------------------------------------------------------
(* The process *)

\* The counters start within their bounds.
LEMMA ZeroInBounds ==
    /\ 0 \in 0 .. MissBound /\ 0 \in 0 .. MaxClaims /\ 0 \in 0 .. AgeBound
    /\ 0 <= MKVPRetryBudget
  <1>1. MKVPRetryBudget \in Nat
    BY Zenon, ScannerAssumption
  <1>2. MaxClaims \in Nat /\ StaleMultiple \in Nat
    BY Zenon, ScanLoopAssumption
  <1> QED
    BY <1>1, <1>2 DEF MissBound, AgeBound

\* A node before the driver starts.
LEMMA LoopInit == Init => LoopInv
  <1> SUFFICES ASSUME Init
               PROVE  LoopInv
    OBVIOUS
  <1>1. /\ 0 \in 0 .. MissBound /\ 0 \in 0 .. MaxClaims /\ 0 \in 0 .. AgeBound
        /\ 0 <= MKVPRetryBudget
    BY Zenon, ZeroInBounds
  <1>2. ScannerTypeOK
    <2>1. type \in [Cards -> CardTypes \cup {"none"}]
      BY Zenon DEF Init
    <2>2. keys \in [Queues -> Keys] /\ driver \in [Queues -> Drivers]
      BY Zenon DEF Init, Drivers
    <2>3. /\ cache \in [Queues -> ReadMKVPs \cup {Nil}]
          /\ lastRead \in [Queues -> ReadMKVPs \cup {Nil}]
      BY Zenon DEF Init
    <2>4. /\ failCount \in [Queues -> 0 .. MissBound]
          /\ misses \in [Queues -> 0 .. MissBound]
      BY Zenon, <1>1 DEF Init
    <2>5. todo = {} /\ left = {} /\ seen \in Drivers /\ found \in Snapshots
      BY Zenon, AbsentIsDevice DEF Init, Drivers
    <2> QED
      BY Zenon, <2>1, <2>2, <2>3, <2>4, <2>5 DEF Init, ScannerTypeOK
  <1>3. TrackerOK /\ CursorOK
    BY Zenon, <1>1 DEF Init, TrackerOK, CursorOK
  <1>4. TypeOK /\ ClaimsOK
    <2>1. rpc \in [Rpcs -> RpcSteps] /\ claims \in [Rpcs -> 0 .. MaxClaims] /\ ClaimsOK
      BY Zenon, <1>1 DEF Init, RpcSteps, ClaimsOK
    <2>2. ended \in [Rpcs -> BOOLEAN]
      BY Zenon DEF Init
    <2>3. age \in 0 .. AgeBound /\ stored \in Snapshots /\ published \in Snapshots
      BY Zenon, <1>1, AbsentIsDevice DEF Init
    <2> QED
      BY Zenon, <1>2, <2>1, <2>2, <2>3 DEF Init, TypeOK, LoopSteps
  <1> QED
    BY Zenon, <1>3, <1>4 DEF LoopInv

\* The end of the process leaves a node before the driver starts.
LEMMA ProcessEndsKeeps ==
    ASSUME LoopInv, ProcessEnds
    PROVE  LoopInv'
  <1>1. /\ 0 \in 0 .. MissBound /\ 0 \in 0 .. MaxClaims /\ 0 \in 0 .. AgeBound
        /\ 0 <= MKVPRetryBudget
    BY Zenon, ZeroInBounds
  <1>2. ScannerTypeOK'
    <2>1. /\ type' \in [Cards -> CardTypes \cup {"none"}]
          /\ keys' \in [Queues -> Keys] /\ driver' \in [Queues -> Drivers]
      BY Zenon DEF ProcessEnds, LoopInv, TypeOK, ScannerTypeOK, busVars
    <2>2. /\ cache' \in [Queues -> ReadMKVPs \cup {Nil}]
          /\ lastRead' \in [Queues -> ReadMKVPs \cup {Nil}]
      BY Zenon DEF ProcessEnds, NewTracker
    <2>3. /\ failCount' \in [Queues -> 0 .. MissBound]
          /\ misses' \in [Queues -> 0 .. MissBound]
      BY Zenon, <1>1 DEF ProcessEnds, NewTracker
    <2>4. todo' = {} /\ left' = {} /\ seen' \in Drivers /\ found' \in Snapshots
      BY Zenon, AbsentIsDevice DEF ProcessEnds, Drivers
    <2> QED
      BY Zenon, <2>1, <2>2, <2>3, <2>4 DEF ProcessEnds, ScannerTypeOK
  <1>3. TrackerOK' /\ CursorOK'
    BY Zenon, <1>1 DEF ProcessEnds, NewTracker, TrackerOK, CursorOK
  <1>4. TypeOK' /\ ClaimsOK'
    <2>1. /\ rpc' \in [Rpcs -> RpcSteps] /\ claims' \in [Rpcs -> 0 .. MaxClaims]
          /\ ClaimsOK'
      BY Zenon, <1>1 DEF ProcessEnds, RpcSteps, ClaimsOK
    <2>2. ended' \in [Rpcs -> BOOLEAN]
      BY Zenon DEF ProcessEnds
    <2>3. age' \in 0 .. AgeBound /\ stored' \in Snapshots /\ published' \in Snapshots
      BY Zenon, <1>1, AbsentIsDevice DEF ProcessEnds, LoopInv, TypeOK
    <2> QED
      BY Zenon, <1>2, <2>1, <2>2, <2>3 DEF ProcessEnds, TypeOK, LoopSteps
  <1> QED
    BY Zenon, <1>3, <1>4 DEF LoopInv

\* Whatever leaves tracker, cursor and bus alone keeps the scanner's part.
LEMMA ScanInvUnchanged ==
    ASSUME ScanInv, UNCHANGED <<busVars, trackerVars, scanVars>>
    PROVE  ScanInv'
  BY Zenon DEF ScanInv, ScannerTypeOK, TrackerOK, CursorOK, busVars, trackerVars, scanVars,
         cursorVars

\* Outside its reads the loop moves on with cursor and tracker as they are; what
\* else it writes has to have its type.
LEMMA LoopMovesOn ==
    ASSUME LoopInv,
           UNCHANGED <<type, keys, trackerVars, cardType, left, cur, seen, stopping, rpcVars>>,
           driver' \in [Queues -> Drivers], todo' \subseteq Cards, found' \in Snapshots,
           at' \in LoopSteps, CursorOK',
           cycle' \in {"none", "initial", "fresh", "tick", "trigger"},
           stored' \in Snapshots, published' \in Snapshots,
           trigger' \in BOOLEAN, tick' \in BOOLEAN, age' \in 0 .. AgeBound,
           helper' \in BOOLEAN, dirty' \in BOOLEAN
    PROVE  LoopInv'
  <1>1. ScannerTypeOK'
    BY Zenon DEF LoopInv, TypeOK, ScannerTypeOK, trackerVars
  <1>2. TrackerOK' /\ ClaimsOK'
    BY Zenon, TrackerUnchanged DEF LoopInv, ClaimsOK, rpcVars
  <1>3. TypeOK'
    BY Zenon, <1>1 DEF LoopInv, TypeOK, rpcVars
  <1> QED
    BY Zenon, <1>2, <1>3 DEF LoopInv

\* Starting and stopping.
LEMMA ProcessKeeps ==
    ASSUME LoopInv, ProcessStep \/ Crash \/ Restart \/ Signal
    PROVE  LoopInv'
  <1>1. CASE Crash \/ Restart \/ Shutdown
    BY Zenon, <1>1, ProcessEndsKeeps DEF Crash, Restart, Shutdown
  <1>2. ASSUME NEW orphans \in SUBSET Plugged, Start(orphans)
        PROVE  LoopInv'
    <2>1. driver' \in [Queues -> Drivers]
      BY Zenon, <1>2 DEF Start, LoopInv, TypeOK, ScannerTypeOK, Drivers
    <2>2. at' \in LoopSteps /\ CursorOK'
      BY Zenon, <1>2 DEF Start, LoopInv, CursorOK, LoopSteps, ScanSteps, cursorVars
    <2> QED
      BY Zenon, <1>2, <2>1, <2>2, LoopMovesOn
         DEF Start, LoopInv, TypeOK, ScannerTypeOK, trackerVars, cursorVars, timeVars, mainVars
  <1>3. CASE StopHelper \/ Signal
    <2>1. ScanInv'
      BY Zenon, <1>3, ScanInvUnchanged DEF StopHelper, Signal, LoopInv, TypeOK, ScanInv
    <2>2. ended' \in [Rpcs -> BOOLEAN] /\ helper' \in BOOLEAN /\ stopping' \in BOOLEAN
      BY Zenon, <1>3 DEF StopHelper, Signal, LoopInv, TypeOK, rpcVars
    <2> QED
      BY Zenon, <1>3, <2>1, <2>2
         DEF StopHelper, Signal, loopVars, timeVars, rpcVars, ClaimsOK, LoopInv, TypeOK,
             ScanInv
  <1> QED
    BY Zenon, <1>1, <1>2, <1>3 DEF ProcessStep

\* The scan loop outside its reads.
LEMMA CycleKeeps ==
    ASSUME LoopInv, LockedStep \/ ScanFails \/ MuteCard \/ CardGone \/ StartHelper \/
                    SelectTick \/ SelectTrigger \/ SelectDone \/ Tick
    PROVE  LoopInv'
  <1> USE DEF LoopInv, TypeOK, ScannerTypeOK, busVars, trackerVars, cursorVars, scanVars,
              loopVars, timeVars, mainVars
  <1>0. EndCycle => tick' \in BOOLEAN
    BY Zenon DEF EndCycle
  <1>1. 0 \in 0 .. AgeBound /\ (EndCycle => tick' \in BOOLEAN)
    BY Zenon, <1>0, ZeroInBounds
  <1>2. CASE ScanFails
    <2>1. CASE cycle = "initial"
      BY Zenon, <1>2, <2>1, ProcessEndsKeeps DEF ScanFails
    <2>2. CASE cycle # "initial"
      <3>1. at' \in LoopSteps /\ CursorOK'
        BY Zenon, <1>2, <2>2 DEF ScanFails, EndCycle, CursorOK, LoopSteps, ScanSteps
      <3> QED
        BY Zenon, <1>1, <1>2, <2>2, <3>1, AbsentIsDevice, LoopMovesOn DEF ScanFails, EndCycle
    <2> QED
      BY Zenon, <2>1, <2>2
  <1>3. CASE CompareAndUpdate
    <2>1. CASE cycle = "initial" \/ HashDiffers
      <3>1. at' \in LoopSteps /\ CursorOK'
        BY Zenon, <1>3, <2>1 DEF CompareAndUpdate, CursorOK, LoopSteps, ScanSteps
      <3> QED
        BY Zenon, <1>3, <2>1, <3>1, AbsentIsDevice, LoopMovesOn DEF CompareAndUpdate
    <2>2. CASE ~(cycle = "initial" \/ HashDiffers)
      <3>1. at' \in LoopSteps /\ CursorOK'
        BY Zenon, <1>3, <2>2 DEF CompareAndUpdate, EndCycle, CursorOK, LoopSteps, ScanSteps
      <3> QED
        BY Zenon, <1>1, <1>3, <2>2, <3>1, AbsentIsDevice, LoopMovesOn
           DEF CompareAndUpdate, EndCycle
    <2> QED
      BY Zenon, <2>1, <2>2
  <1>4. CASE PublishResources
    <2>1. at' \in LoopSteps /\ CursorOK'
      BY Zenon, <1>4 DEF PublishResources, EndCycle, CursorOK, LoopSteps, ScanSteps
    <2>2. published' \in Snapshots
      BY Zenon, <1>4 DEF PublishResources
    <2>3. /\ cycle' \in {"none", "initial", "fresh", "tick", "trigger"} /\ found' \in Snapshots
          /\ trigger' \in BOOLEAN /\ tick' \in BOOLEAN /\ age' \in 0 .. AgeBound
      BY Zenon, <1>1, <1>4, AbsentIsDevice DEF PublishResources, EndCycle
    <2> QED
      BY Zenon, <1>4, <2>1, <2>2, <2>3, LoopMovesOn DEF PublishResources
  <1>5. CASE MuteCard \/ CardGone
    <2>1. at' \in LoopSteps /\ CursorOK'
      BY Zenon, <1>5 DEF MuteCard, CardGone, CursorOK, LoopSteps, ScanSteps
    <2>2. UNCHANGED <<busVars, trackerVars, cursorVars, found, loopVars, trigger, timeVars,
                      mainVars, rpcVars, dirty>>
      BY Zenon, <1>5 DEF MuteCard, CardGone
    <2> QED
      BY Zenon, <2>1, <2>2, LoopMovesOn
  <1>6. CASE StartHelper
    <2>1. at' \in LoopSteps /\ CursorOK'
      BY Zenon, <1>6 DEF StartHelper, CursorOK, LoopSteps, ScanSteps
    <2> QED
      BY Zenon, <1>6, <2>1, LoopMovesOn DEF StartHelper
  <1>9. CASE SelectDone
    <2>1. at' \in LoopSteps /\ CursorOK'
      BY Zenon, <1>9 DEF SelectDone, CursorOK, LoopSteps, ScanSteps
    <2> QED
      BY Zenon, <1>9, <2>1, LoopMovesOn DEF SelectDone
  <1>7. CASE SelectTick \/ SelectTrigger
    <2>1. at' \in LoopSteps /\ CursorOK'
      BY Zenon, <1>7 DEF SelectTick, SelectTrigger, CursorOK, LoopSteps, ScanSteps
    <2> QED
      BY Zenon, <1>7, <2>1, LoopMovesOn DEF SelectTick, SelectTrigger
  <1>8. CASE Tick
    <2>1. age' \in 0 .. AgeBound
      BY <1>8, ScanLoopAssumption DEF Tick, AgeBound
    <2>2. at' \in LoopSteps /\ CursorOK'
      BY Zenon, <1>8 DEF Tick, CursorOK, LoopSteps, ScanSteps
    <2> QED
      BY Zenon, <1>8, <2>1, <2>2, LoopMovesOn DEF Tick
  <1> QED
    BY Zenon, <1>2, <1>3, <1>4, <1>5, <1>6, <1>7, <1>8, <1>9 DEF LockedStep

\* The handlers.
LEMMA HandlerKeeps ==
    ASSUME LoopInv, NEW r \in Rpcs,
           \/ \E n \in 1 .. MaxClaims : Call(r, n)
           \/ Serialize(r) \/ HandlerGoesOn(r) \/ Expire(r) \/ BlockedWrite(r)
           \/ \E q \in Queues, d \in Bindings : Write(r, q, d)
    PROVE  LoopInv'
  <1> USE DEF LoopInv, TypeOK, ClaimsOK, RpcSteps, HandlerStep, loopVars, timeVars, mainVars,
              rpcVars
  <1>1. CASE \E q \in Queues, d \in Bindings : Write(r, q, d)
    <2>1. driver' \in [Queues -> Drivers]
      BY Zenon, <1>1, ScanLoopAssumption DEF Write, ScannerTypeOK
    <2>2. UNCHANGED <<type, keys, trackerVars, scanVars, loopVars, trigger, timeVars, mainVars,
                      rpcVars, dirty>>
      BY Zenon, <1>1 DEF Write
    <2>3. at' \in LoopSteps /\ CursorOK'
      BY Zenon, <2>2 DEF CursorOK, scanVars, cursorVars
    <2> QED
      BY Zenon, <2>1, <2>2, <2>3, LoopMovesOn DEF ScannerTypeOK, scanVars, cursorVars
  <1>2. CASE ~\E q \in Queues, d \in Bindings : Write(r, q, d)
    <2>1. UNCHANGED <<busVars, trackerVars, scanVars, loopVars, timeVars, mainVars, dirty>>
      BY Zenon, <1>2 DEF Call, Serialize, HandlerGoesOn, CheckContext, lockCtx, Unlock, Return,
                  Expire, BlockedWrite
    <2>2. ScanInv'
      BY Zenon, <2>1, ScanInvUnchanged DEF ScanInv
    <2>3. MaxClaims \in Nat
      BY Zenon, ScanLoopAssumption
    <2>4. /\ rpc' \in [Rpcs -> RpcSteps]
          /\ claims' \in [Rpcs -> 0 .. MaxClaims]
          /\ ClaimsOK'
      <3>1. ASSUME NEW n \in 1 .. MaxClaims, Call(r, n)
            PROVE  /\ rpc' \in [Rpcs -> RpcSteps]
                   /\ claims' \in [Rpcs -> 0 .. MaxClaims]
                   /\ ClaimsOK'
        BY <2>3, <3>1 DEF Call
      <3>2. CASE rpc[r] \in {"check", "wait", "write"} /\ NextClaim(r)
        BY <2>3, <3>2 DEF NextClaim
      <3>3. ASSUME NEW s \in RpcSteps, rpc[r] \in {"queued", "check", "wait"} \/ s \in {"idle", "blocked"},
                   rpc' = [rpc EXCEPT ![r] = s] /\ UNCHANGED claims
            PROVE  /\ rpc' \in [Rpcs -> RpcSteps]
                   /\ claims' \in [Rpcs -> 0 .. MaxClaims]
                   /\ ClaimsOK'
        BY Zenon, <3>3
      <3>4. CASE UNCHANGED <<rpc, claims>>
        BY Zenon, <3>4
      <3> QED
        BY Zenon, <1>2, <3>1, <3>2, <3>3, <3>4
           DEF Serialize, HandlerGoesOn, CheckContext, lockCtx, Unlock, Return, Expire, BlockedWrite
    <2>5. ended' \in [Rpcs -> BOOLEAN] /\ trigger' \in BOOLEAN
      BY Zenon, <1>2 DEF Call, Serialize, HandlerGoesOn, CheckContext, lockCtx, Unlock, Return,
                  Expire, BlockedWrite
    <2> QED
      BY Zenon, <2>1, <2>2, <2>4, <2>5 DEF ScanInv
  <1> QED
    BY Zenon, <1>1, <1>2

\* The bus changes under the driver.
LEMMA BusChangesKeeps ==
    ASSUME LoopInv, BusChanges
    PROVE  LoopInv'
  <1>1. UNCHANGED <<trackerVars, scanVars, loopVars, trigger, timeVars, mainVars, rpcVars>>
    BY Zenon DEF BusChanges, Hotplug, Rekey
  <1>2. /\ type' \in [Cards -> CardTypes \cup {"none"}]
        /\ keys' \in [Queues -> Keys]
        /\ driver' \in [Queues -> Drivers]
    <2>1. ASSUME NEW c \in Cards, NEW t \in CardTypes \cup {"none"}, Hotplug(c, t)
          PROVE  /\ type' \in [Cards -> CardTypes \cup {"none"}]
                 /\ driver' \in [Queues -> Drivers]
                 /\ keys' = keys
      BY Zenon, <2>1 DEF Hotplug, LoopInv, TypeOK, ScannerTypeOK, Drivers
    <2>2. ASSUME NEW q \in Queues, NEW k \in Keys, Rekey(q, k)
          PROVE  keys' \in [Queues -> Keys] /\ type' = type /\ driver' = driver
      BY Zenon, <2>2 DEF Rekey, LoopInv, TypeOK, ScannerTypeOK
    <2> QED
      BY Zenon, <2>1, <2>2 DEF BusChanges, LoopInv, TypeOK, ScannerTypeOK
  <1>3. ScannerTypeOK' /\ TrackerOK' /\ CursorOK'
    BY Zenon, <1>1, <1>2 DEF LoopInv, TypeOK, ScannerTypeOK, TrackerOK, CursorOK, trackerVars,
                      scanVars, cursorVars
  <1>4. dirty' \in BOOLEAN
    BY Zenon DEF BusChanges
  <1> QED
    BY Zenon, <1>1, <1>3, <1>4 DEF LoopInv, TypeOK, ClaimsOK, scanVars, loopVars, timeVars, mainVars,
                            rpcVars

\* Every step keeps the invariant.
LEMMA LoopNext == LoopInv /\ [Next]_vars => LoopInv'
  <1> SUFFICES ASSUME LoopInv, [Next]_vars
               PROVE  LoopInv'
    OBVIOUS
  <1>1. ASSUME NEW ok \in BOOLEAN, ScanRead(ok)
        PROVE  LoopInv'
    <2>1. ScanInv'
      BY Zenon, <1>1, ScanReadKeeps DEF LoopInv, TypeOK, ScanInv
    <2>2. UNCHANGED <<loopVars, trigger, timeVars, mainVars, rpcVars>> /\ dirty' \in BOOLEAN
      BY Zenon, <1>1 DEF ScanRead, LoopInv, TypeOK
    <2> QED
      BY Zenon, <2>1, <2>2
         DEF loopVars, timeVars, mainVars, rpcVars, ClaimsOK, LoopInv, TypeOK, ScanInv
  <1>2. CASE UNCHANGED vars
    <2>1. ScanInv'
      BY Zenon, <1>2, ScanInvUnchanged DEF vars, LoopInv, TypeOK, ScanInv
    <2> QED
      BY Zenon, <1>2, <2>1
         DEF vars, loopVars, timeVars, mainVars, rpcVars, ClaimsOK, LoopInv, TypeOK, ScanInv
  <1>3. CASE Next
    BY Zenon, <1>1, <1>3, ProcessKeeps, CycleKeeps, HandlerKeeps, BusChangesKeeps
       DEF Next, LoopStep, Fault
  <1> QED
    BY Zenon, <1>2, <1>3

\* The invariant holds in every state.
LEMMA LoopInvariant == Spec => []LoopInv
  BY LoopInit, LoopNext, PTL DEF Spec

\* The scan loop, the handlers and the tracker keep their types: no count passes
\* its bound and no handler goes below its last claim.
THEOREM LoopTypeCorrect == Spec => []TypeOK
  <1>1. LoopInv => TypeOK
    BY Zenon DEF LoopInv
  <1> QED
    BY <1>1, LoopInvariant, PTL
=============================================================================
