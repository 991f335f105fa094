SPECIFICATION InputsSpec
CONSTANTS
    OtherGates <- laterGates
    MaxPairs = 3
    MaxLen = 3
INVARIANTS
    OptOutsHonoured
    RunsWhereItServes
    ExitTwoBlamesTheNode
    LastSetModeWins
