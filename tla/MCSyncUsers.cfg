SPECIFICATION RunSpec
CONSTANTS
    ann = ann
    bob = bob
    eve = eve
    nameless = nameless
    Users <- MCUsers
    Blank <- MCBlank
    PageSize = 2
    MaxMembers = 3
    ConfigLimit = 1
    SecretLimit = 1
    MaxSize = 2
INVARIANTS
    ResultIsTheGroup
    PrintedIsComplete
    AskedWithOwnFiles
PROPERTIES
    ReadEnds
