SPECIFICATION Spec
CONSTANTS
    w1 = w1
    w2 = w2
    c1 = c1
    c2 = c2
    s1 = s1
    s2 = s2
    alice = alice
    bob = bob
    app = app
    other = other
    None = None
    Slots <- MCSlots
    Calls <- MCCalls
    Sessions <- MCSessions
    Clients <- MCClients
    Subject <- MCSubject
    Client <- MCClient
    MaxGen = 3
INVARIANTS
    BoundToSession
    SentByOwner
    AnswersAreAboutSubject
    FreshIsRefreshable
