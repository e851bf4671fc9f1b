SPECIFICATION ExchangeSpec
CONSTANTS
    NoOrigin = NoOrigin
    Origins <- MCOrigins
    Cookies <- MCCookies
    Replies <- MCReplies
    MaxHeaders = 2
    MaxResponse = 2
    MaxTime = 3
    PageRequests <- MCPageRequests
    ApiRequests <- MCApiRequests
    MaxForm = 16
INVARIANTS
    SendsWhatWasGiven
    PageIsWhole
    BuffersAreWiped
CONSTRAINT Apart
