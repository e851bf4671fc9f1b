SPECIFICATION Spec
CONSTANTS
    r1 = r1
    r2 = r2
    r3 = r3
    Calls <- MCCalls
    MaxSlots = 2
INVARIANTS
    PermitsConserved
PROPERTIES
    GivenUpIsNeverSent
    SendEnds
    SlotsComeBack
