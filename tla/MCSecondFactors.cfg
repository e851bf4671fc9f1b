SPECIFICATION FactorSpec
CONSTANTS
    Requests <- MCRequests
    OwnParty = "kc"
    OwnCredential = "own"
    MaxAllowed = 2
    MaxIdLength = 3
    MaxSign = 3
    MaxMoving = 3
    Start = 1
    Codes <- MCCodes
    CodeAt <- MCCodeAt
INVARIANTS
    EachCountOnce
