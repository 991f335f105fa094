------------------------------ MODULE Scanner ------------------------------
(***************************************************************************)
(* One scan of the AP bus (internal/apscanner) with the tracker that       *)
(* remembers the master key verification patterns (MKVPs) of every queue   *)
(* across scans.  Every sysfs read is a step: a scan takes no lock, so an  *)
(* RPC or the administrator changes the bus between any two of them.       *)
(*                                                                         *)
(* An action's parameter ok says whether the read it models succeeds.      *)
(***************************************************************************)
EXTENDS Integers, FiniteSets

CONSTANTS
    Cards,              \* card ids
    CardTypes,          \* the types of card that are plugged in
    Queues,             \* <<card, domain>>: the queues a card has when plugged
    NoQueue,
    Keys,               \* master keys a domain can hold
    MKVPRetryBudget,    \* failed reads a cached value survives
    Faults              \* the failures that may happen, a subset of FaultKinds

FaultKinds == {
    "card_read",    \* a directory or type attribute cannot be read (not ENOENT)
    "driver_read",  \* a driver link cannot be read (not ENOENT)
    "mkvps_read",   \* a mkvps read fails or returns placeholders
    "hotplug",      \* cards are removed, replaced and plugged in
    "rekey",        \* the master keys of a domain change
    "mute_card",    \* a card never answers a mkvps read
    "blocked_write",\* a sysfs write of an RPC never returns
    "deadline",     \* the kubelet's context of an RPC ends
    "crash",        \* the process dies
    "signal" }      \* the process is asked to stop

KeyedTypes == {"cca", "ep11"}
Drivers == {"cex4queue", "vfio_ap", ""}
CardOf(q) == q[1]
QueuesOf(c) == {q \in Queues : CardOf(q) = c}

\* A set of MKVP attributes: the attribute domain and what it holds.  Nil is
\* the nil map of Go, NoMKVPs the empty one.
NoMKVPs == <<"", "">>
Nil == <<"", "nil">>
UnknownMKVPs(t) == IF t \in KeyedTypes THEN <<t, "unknown">> ELSE NoMKVPs
ReadMKVPs == (KeyedTypes \X Keys) \cup {NoMKVPs}
MKVPs == ReadMKVPs \cup {UnknownMKVPs(t) : t \in KeyedTypes}

ASSUME ScannerAssumption ==
    /\ IsFiniteSet(Cards) /\ IsFiniteSet(Queues)
    /\ \A q \in Queues : CardOf(q) \in Cards
    /\ NoQueue \notin Queues
    /\ CardTypes \subseteq KeyedTypes \cup {"accel"}
    /\ MKVPRetryBudget \in Nat
    /\ Faults \subseteq FaultKinds

VARIABLES
    type,       \* [Cards -> CardTypes \cup {"none"}]: "none" is no card
    keys,       \* [Queues -> Keys]
    driver,     \* [Queues -> Drivers]: what the driver link names
    cache,      \* [Queues -> ReadMKVPs \cup {Nil}]: MKVPTracker
    failCount,  \* [Queues -> Nat]
    at,         \* the next step of the process
    todo,       \* the cards left in this scan
    cardType,   \* of the card being scanned
    left,       \* the queues left of that card
    cur,        \* the queue being read
    seen,       \* its driver, as read
    found,      \* [Queues -> Device]: devicesByCard
    lastRead,   \* history: what the last successful mkvps read returned
    misses      \* history: failed mkvps reads since then

busVars == <<type, keys, driver>>
trackerVars == <<cache, failCount, lastRead, misses>>
cursorVars == <<todo, cardType, left, cur, seen>>
scanVars == <<at, cursorVars, found>>

\* What QueueToDevice publishes of a queue; Absent is no device.
Device == [type : CardTypes \cup {"none"}, driver : Drivers,
           mkvpState : {"", "known", "cached", "unknown"}, mkvps : MKVPs]
Absent == [type |-> "none", driver |-> "", mkvpState |-> "", mkvps |-> NoMKVPs]
Snapshots == [Queues -> Device]
NoDevices == [q \in Queues |-> Absent]

\* Failed reads are counted until the cached value is dropped, not further.
MissBound == MKVPRetryBudget + 1

ScannerTypeOK ==
    /\ type \in [Cards -> CardTypes \cup {"none"}]
    /\ keys \in [Queues -> Keys]
    /\ driver \in [Queues -> Drivers]
    /\ cache \in [Queues -> ReadMKVPs \cup {Nil}]
    /\ failCount \in [Queues -> 0 .. MissBound]
    /\ todo \subseteq Cards
    /\ cardType \in CardTypes \cup {"none"}
    /\ left \subseteq Queues
    /\ cur \in Queues \cup {NoQueue}
    /\ seen \in Drivers
    /\ found \in Snapshots
    /\ lastRead \in [Queues -> ReadMKVPs \cup {Nil}]
    /\ misses \in [Queues -> 0 .. MissBound]

\* NewMKVPTracker.
NewTracker ==
    /\ cache' = [q \in Queues |-> Nil]
    /\ failCount' = [q \in Queues |-> 0]
    /\ lastRead' = [q \in Queues |-> Nil]
    /\ misses' = [q \in Queues |-> 0]

-----------------------------------------------------------------------------
(* Cards *)

\* Scan lists the card directories.
ListCards ==
    /\ at = "list"
    /\ todo' = {c \in Cards : type[c] # "none"}
    /\ found' = NoDevices
    /\ at' = "card"
    /\ UNCHANGED <<cardType, left, cur, seen, busVars, trackerVars>>

\* scanCard: the type of the next card and its queue directories.  A card that
\* vanished is skipped.
ScanCard(c) ==
    /\ at = "card"
    /\ c \in todo
    /\ todo' = todo \ {c}
    /\ IF type[c] # "none" /\ QueuesOf(c) # {}
       THEN /\ at' = "queue"
            /\ cardType' = type[c]
            /\ left' = QueuesOf(c)
       ELSE UNCHANGED <<at, cardType, left>>
    /\ UNCHANGED <<cur, seen, found, busVars, trackerVars>>

-----------------------------------------------------------------------------
(* parseAPQueueDir: the driver and the MKVPs of a queue are read one after   *)
(* the other.  The status attributes, read between them, are not kept.       *)

\* readQueueDriver: a link that cannot be read counts as no driver.
readQueueDriver(q, ok) ==
    /\ at = "queue"
    /\ q \in left
    /\ ok \/ "driver_read" \in Faults
    /\ left' = left \ {q}
    /\ cur' = q
    /\ seen' = IF ok THEN driver[q] ELSE ""
    /\ at' = "mkvps"
    /\ UNCHANGED <<todo, cardType, found, busVars, trackerVars>>

\* QueueToDevice: the queue joins the result and the loop goes on.
Found(mkvps, mkvpState) ==
    /\ found' = [found EXCEPT ![cur] =
                    [type |-> cardType, driver |-> seen, mkvpState |-> mkvpState,
                     mkvps |-> mkvps]]
    /\ at' = IF left = {} THEN "card" ELSE "queue"
    /\ cur' = NoQueue
    /\ seen' = ""
    /\ UNCHANGED <<todo, cardType, left, busVars>>

\* The mkvps attribute exists while zcrypt holds a queue of a keyed card.
MkvpsFileExists(q) == driver[q] = "cex4queue" /\ type[CardOf(q)] \in KeyedTypes

\* ParseMKVPs keeps the lines of the card type it was given: of the attribute
\* of a card that was replaced by one of another type it keeps none.
ParseMKVPs(q, t) == IF type[CardOf(q)] = t THEN <<t, keys[q]>> ELSE NoMKVPs

\* Evaluate for a card without master keys.
EvaluateKeyless ==
    /\ at = "mkvps"
    /\ cardType \notin KeyedTypes
    /\ Found(NoMKVPs, "known")
    /\ UNCHANGED trackerVars

\* Evaluate finds an attribute to read, going by the driver that was read.
Evaluate ==
    /\ at = "mkvps"
    /\ cardType \in KeyedTypes
    /\ seen = "cex4queue"
    /\ MkvpsFileExists(cur)
    /\ at' = "read"
    /\ UNCHANGED <<cursorVars, found, busVars, trackerVars>>

\* Evaluate finds no attribute to read.
ServeFromCache ==
    /\ at = "mkvps"
    /\ cardType \in KeyedTypes
    /\ ~(seen = "cex4queue" /\ MkvpsFileExists(cur))
    /\ IF cache[cur] # Nil
       THEN Found(cache[cur], "cached")
       ELSE Found(UnknownMKVPs(cardType), "unknown")
    /\ UNCHANGED trackerVars

\* Mutant: a successful read leaves the count of failures.
ReadSucceedsNoReset ==
    /\ at = "read"
    /\ MkvpsFileExists(cur)
    /\ LET mkvps == ParseMKVPs(cur, cardType) IN
          /\ Found(mkvps, "known")
          /\ cache' = [cache EXCEPT ![cur] = mkvps]
          /\ lastRead' = [lastRead EXCEPT ![cur] = mkvps]
    /\ misses' = [misses EXCEPT ![cur] = 0]
    /\ UNCHANGED failCount

\* readZcryptMKVPs, the read succeeds.
ReadSucceeds ==
    /\ at = "read"
    /\ MkvpsFileExists(cur)
    /\ LET mkvps == ParseMKVPs(cur, cardType) IN
          /\ Found(mkvps, "known")
          /\ cache' = [cache EXCEPT ![cur] = mkvps]
          /\ lastRead' = [lastRead EXCEPT ![cur] = mkvps]
    /\ failCount' = [failCount EXCEPT ![cur] = 0]
    /\ misses' = [misses EXCEPT ![cur] = 0]

\* Mutant: the cache is never dropped.
ReadFailsKeepsCache(ok) ==
    /\ at = "read"
    /\ IF ok THEN ~MkvpsFileExists(cur) ELSE "mkvps_read" \in Faults
    /\ misses' = [misses EXCEPT ![cur] = IF @ < MissBound THEN @ + 1 ELSE @]
    /\ failCount' = [failCount EXCEPT ![cur] = @ + 1]
    /\ UNCHANGED <<lastRead, cache>>
    /\ IF cache[cur] = Nil
       THEN Found(UnknownMKVPs(cardType), "unknown")
       ELSE Found(cache[cur], "cached")

\* Mutant: a read that fails is tried again at once.
ReadFailsRetries(ok) ==
    /\ at = "read"
    /\ IF ok THEN ~MkvpsFileExists(cur) ELSE "mkvps_read" \in Faults
    /\ misses' = [misses EXCEPT ![cur] = IF @ < MissBound THEN @ + 1 ELSE @]
    /\ UNCHANGED <<lastRead, cache, failCount, at, cursorVars, found, busVars>>

\* readZcryptMKVPs, the read fails: by itself, or because the attribute is gone
\* by now.
ReadFails(ok) ==
    /\ at = "read"
    /\ IF ok THEN ~MkvpsFileExists(cur) ELSE "mkvps_read" \in Faults
    /\ misses' = [misses EXCEPT ![cur] = IF @ < MissBound THEN @ + 1 ELSE @]
    /\ UNCHANGED lastRead
    /\ IF cache[cur] = Nil
       THEN /\ Found(UnknownMKVPs(cardType), "unknown")
            /\ UNCHANGED <<cache, failCount>>
       ELSE /\ failCount' = [failCount EXCEPT ![cur] = @ + 1]
            /\ IF failCount[cur] + 1 <= MKVPRetryBudget
               THEN /\ Found(cache[cur], "cached")
                    /\ UNCHANGED cache
               ELSE /\ Found(UnknownMKVPs(cardType), "unknown")
                    /\ cache' = [cache EXCEPT ![cur] = Nil]

-----------------------------------------------------------------------------
(* The bus, as administrator and hardware change it *)

\* A card is removed, is plugged in, or is replaced by one of another type.
\* The queues of a new card start on zcrypt.
Hotplug(c, t) ==
    /\ "hotplug" \in Faults
    /\ type[c] # t
    /\ type' = [type EXCEPT ![c] = t]
    /\ driver' = [q \in Queues |->
                    IF CardOf(q) # c THEN driver[q]
                    ELSE IF t = "none" THEN "" ELSE "cex4queue"]
    /\ UNCHANGED <<keys, trackerVars, scanVars>>

\* A new master key is set.
Rekey(q, k) ==
    /\ "rekey" \in Faults
    /\ keys[q] # k
    /\ keys' = [keys EXCEPT ![q] = k]
    /\ UNCHANGED <<type, driver, trackerVars, scanVars>>
=============================================================================
