SPECIFICATION Spec
CONSTANTS
    Encoded <- MCEncoded
    PkceVerifiers = {"v"}
    RequestTokens = {"s", "n"}
    ScopeTokens = {"openid", "email", "roles"}
    Hmac <- MCHmac
    MinSecret = 16
    RequestCases <- MCRequestCases
    CodeCases <- MCCodeCases
    Latest = 7
    Leeway = 2
    Strings = {"k", "l"}
    Scalars = {"1"}
    MaxDepth = 1
    EndpointCases <- MCEndpointCases
    ClaimsCases <- MCClaimsCases
    Clients <- MCClients
    Issuer0 = "i"
    Nonce0 = "n"
    AnswerCases <- MCAnswerCases
    PlanCases <- MCPlanCases
    PageCases <- MCPageCases
    JsonCases <- MCJsonCases
    TextCases <- MCTextCases
INVARIANTS
    LoginGoesToItsRealm
    TokenForOneClient
    AnswersFit
    PlanSuffices
    ReadsAsWritten
CHECK_DEADLOCK FALSE
