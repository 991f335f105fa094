----------------------------- MODULE MCScanLoop -----------------------------
(***************************************************************************)
(* Instances of ScanLoop for TLC.                                          *)
(***************************************************************************)
EXTENDS ScanLoop, TLC

CONSTANTS c1, k1, k2, r1, r2

OneQueue == {<<c1, 1>>}

\* Nothing tells one master key from another.
KeySymmetry == Permutations(Keys)

\* Two instances in one run, by the type of the card the node starts with.  A
\* keyless one has two callers, who compete, run into deadlines and only prepare.
\* A keyed one, which may block the loop, has one, who prepares and unprepares and
\* has no deadline.  This limits what calls come and when contexts end, of which
\* no fairness is assumed.
CallersByCardType ==
    \/ /\ \A c \in Cards : type[c] \notin KeyedTypes
       /\ at # "down" => \A q \in Queues : driver[q] = "vfio_ap" => driver'[q] = "vfio_ap"
    \/ /\ \A c \in Cards : type[c] \in KeyedTypes
       /\ \A r \in Rpcs : (r # r1 => rpc'[r] = "idle") /\ (helper' => ~ended'[r])
=============================================================================
