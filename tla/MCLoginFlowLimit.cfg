SPECIFICATION Spec
CONSTANTS
    c1 = c1
    c2 = c2
    NoClient = NoClient
    NoPage = NoPage
    Clients <- MCClients
    Kinds <- MCKinds
    Supported <- MCSupported
    Challenges <- MCChallenges
    Answers <- MCAnswers
    Accepts <- MCAccepts
    Asks <- MCAsks
    MaxRedirects = 5
PROPERTY
    NothingPastLimit
