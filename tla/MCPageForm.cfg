SPECIFICATION Spec
CONSTANTS
    NoAction = NoAction
    Markup <- MCMarkup
    Pages <- MCPages
    Answered <- MCAnswers
    Blank = " "
INVARIANTS
    RecognisedIsPlain
    RefusalIsSeen
    OfferedIsTaken
    PostsTheAnswers
CHECK_DEADLOCK FALSE
