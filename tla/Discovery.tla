----------------------------- MODULE Discovery -----------------------------
(***************************************************************************)
(* Which OIDC endpoints a client uses: the checks on its configuration      *)
(* (config.rs) and on the discovery document, and what it asks of the       *)
(* authorization endpoint (token.rs).  A URL is a record whose path is the  *)
(* sequence of its segments, as they are written.                           *)
(***************************************************************************)
EXTENDS Naturals, SequencesExt

CONSTANTS
    Encoded,        \* the path segments that hold a percent sign
    PkceVerifiers,  \* the texts valid_pkce_verifier takes
    RequestTokens,  \* those valid_request_token takes
    ScopeTokens     \* those valid_scope_token takes

Realms == "realms"
Empty == ""

\* Config::new sets nothing that validate does not look at but for the CA bundle.
Validate(config) ==
    /\ config.server.scheme = "https"
    /\ ~config.server.credentials /\ ~config.server.query /\ ~config.server.fragment
    /\ ~config.redirect.query /\ ~config.redirect.fragment
    /\ config.realm \notin {Empty, ".", "..", "a/b"} /\ config.client # Empty
    /\ config.timeout >= 1

\* Config::issuer: one trailing empty segment gives way to the realm's two.
Issuer(config) ==
    LET path == config.server.path
        base == IF path # <<>> /\ Last(path) = Empty THEN Front(path) ELSE path
    IN  [config.server EXCEPT !.path = base \o <<Realms, config.realm>>]

\* The segments that follow a "realms" segment; empty ones do not count.
AfterRealms(path) ==
    {j \in DOMAIN path: \E i \in 1 .. j - 1:
                            /\ path[i] = Realms /\ path[j] # Empty
                            /\ \A k \in i + 1 .. j - 1: path[k] = Empty}

\* issuer_realm: the last segment, when it follows "realms".
IssuerRealm(path) ==
    {path[j]: j \in {at \in AfterRealms(path): \A k \in at + 1 .. Len(path): path[k] = Empty}}

\* Nothing after the realm starts, or hides, another.
Settled(path, at) == \A k \in at + 1 .. Len(path): path[k] # Realms /\ path[k] \notin Encoded

Pairs(path, realm) == {at \in AfterRealms(path): path[at] = realm}

\* Mutant: the shallowest pair that names the realm is looked at.
EndpointInFirstRealm(path, realm) ==
    \E at \in Pairs(path, realm): Settled(path, at) /\ \A p \in Pairs(path, realm): p >= at

\* The deepest pair that names the realm is also the path's last.
EndpointInRealm(path, realm) ==
    \E at \in Pairs(path, realm): Settled(path, at) /\ \A p \in Pairs(path, realm): p <= at

Endpoint(url, issuer) ==
    /\ url.scheme = "https" /\ url.origin = issuer.origin
    /\ ~url.credentials /\ ~url.fragment
    /\ \A realm \in IssuerRealm(issuer.path): EndpointInRealm(url.path, realm)

\* discover: a document names its issuer, and every endpoint of it must pass.
Discover(answer, issuer) ==
    /\ answer.status = 200 /\ answer.issuer = issuer
    /\ \A name \in DOMAIN answer.endpoints: Endpoint(answer.endpoints[name], issuer)

-----------------------------------------------------------------------------
(* The authorization request.  A query is a sequence of parameters, and a   *)
(* parameter's value is the sequence of its words.                          *)

NoHint == <<>>

Reserved == {"response_type", "client_id", "redirect_uri", "scope", "code_challenge",
             "code_challenge_method", "state", "nonce", "login_hint", "response_mode", "request",
             "request_uri"}

Param(name, value) == [name |-> name, value |-> value]

\* Mutant: the parameters that replace a request as a whole are not looked for.
CollidesByName(query) ==
    \E i \in DOMAIN query: query[i].name \in Reserved \ {"response_mode", "request", "request_uri"}

Collides(query) == \E i \in DOMAIN query: query[i].name \in Reserved

\* Each scope once, "openid" first.
Scopes(asked) ==
    LET kept[n \in 0 .. Len(asked)] ==
            IF n = 0 THEN <<"openid">>
            ELSE IF asked[n] \in ToSet(kept[n - 1]) THEN kept[n - 1]
            ELSE Append(kept[n - 1], asked[n])
    IN  kept[Len(asked)]

PkceChallenge(verifier) == <<"sha256", verifier>>

\* What the request asks for, in order.
Asked(request) ==
    <<Param("response_type", <<"code">>), Param("client_id", <<request.client>>),
      Param("redirect_uri", <<request.redirect>>), Param("scope", Scopes(request.scopes)),
      Param("code_challenge", PkceChallenge(request.verifier)),
      Param("code_challenge_method", <<"S256">>),
      Param("state", <<request.state>>), Param("nonce", <<request.nonce>>)>>
    \o IF request.hint = NoHint THEN <<>> ELSE <<Param("login_hint", request.hint)>>

\* authorization_url: the endpoint's own query, and the request after it.
AuthorizationUrl(query, request) ==
    IF \/ Collides(query)
       \/ request.verifier \notin PkceVerifiers
       \/ ~({request.state, request.nonce} \subseteq RequestTokens)
       \/ ~(ToSet(request.scopes) \subseteq ScopeTokens)
    THEN {}
    ELSE {query \o Asked(request)}
=============================================================================
