SPECIFICATION Spec
INVARIANTS
    ChangedIsSaved
    EchoFollowsPrompt
    LeavesNoLogin
PROPERTIES
    InterruptEnds
    SubmittedEnds
