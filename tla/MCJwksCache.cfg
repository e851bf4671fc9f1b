SPECIFICATION Spec
CONSTANTS
    v1 = v1
    v2 = v2
    Calls <- MCCalls
    Keys <- MCKeys
    KeySets <- MCKeySets
    Tokens <- MCTokens
    MaxVersions = 3
INVARIANTS
    AcceptedWasSigned
    LastingKeyVerifies
    LoneCallFindsKey
