SPECIFICATION Spec
CONSTANTS
    Requests = {r1, r2}
    NoRequest = NoRequest
    Contents = {short, rich}
    MaxGeneration = 4
INVARIANTS
    TypeOK
    GenerationNamesContent
PROPERTIES
    SuccessLeavesFilesWhole
