------------------------------ MODULE MCDriver ------------------------------
EXTENDS Driver, TLC

CONSTANTS a1, a2, d1, d2, c1, c2, f1

VM(devices, configs) == [exactly |-> TRUE, classes |-> {DeviceClassVM},
                         configs |-> configs, devices |-> devices]
Mode(m) == <<[mine |-> TRUE, parses |-> TRUE, mode |-> m]>>
Broken == <<[mine |-> TRUE, parses |-> FALSE, mode |-> NoMode]>>

\* A bus of one domain: claims that overlap in a queue.
busOfTwo == {<<a1, d1>>, <<a2, d1>>}
overlapping == { VM(busOfTwo, <<>>), VM({<<a1, d1>>}, Mode(UsageOnly)) }

\* A bus of two domains.
busOfFour == {a1, a2} \X {d1, d2}
shapes == { VM({<<a1, d1>>, <<a2, d1>>}, <<>>),
            VM({<<a1, d1>>, <<a1, d2>>}, <<>>),
            VM({<<a1, d2>>}, Mode(UsageOnly)),
            VM({<<a1, d2>>, <<a2, d1>>}, <<>>),
            VM({<<a1, d1>>}, Broken),
            [VM({<<a1, d2>>}, <<>>) EXCEPT !.classes = {DeviceClassContainer}] }

noMasks == [u \in {} |-> {}]
f1Apm == [u \in {f1} |-> {a2}]
f1Aqm == [u \in {f1} |-> {d2}]

vmOnly == {{"VirtualMachineWorkload"}}
anyGates == SUBSET WorkloadGates \ {{}}

claimSymmetry == Permutations({c1, c2})
=============================================================================
