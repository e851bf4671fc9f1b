------------------------------- MODULE Session -------------------------------
(***************************************************************************)
(* Verified sessions after the login (client.rs, standard.rs): Tokens carry *)
(* the subject, client and refresh token that were verified, out of their   *)
(* holder's reach, beside fields the holder can set.  Refreshes redeem the  *)
(* refresh token, which Keycloak may rotate, and then check whom the answer *)
(* is about; several may run at once over the same Tokens, fail or be       *)
(* dropped at any await.                                                    *)
(***************************************************************************)
EXTENDS Naturals, FiniteSets

CONSTANTS
    Slots,      \* where callers keep the Tokens they were given
    Calls,      \* calls of refresh_tokens and userinfo under way
    Sessions,   \* Keycloak's sessions
    Subject,    \* Subject[s]: the user session s belongs to
    Client,     \* Client[s]: the issuer and client ID session s belongs to
    Clients,    \* the PublicClientApplications of the program
    None,       \* no value
    MaxGen      \* bound: the rotations of one session

ASSUME SessionAssumption ==
    /\ Client \in [Sessions -> Clients]
    /\ DOMAIN Subject = Sessions
    /\ None \notin Sessions \cup {Subject[s]: s \in Sessions}
    /\ MaxGen \in Nat \ {0}

VARIABLES
    held,     \* the Tokens in each slot
    used,     \* ghost: a refresh of the Tokens in a slot has been sent
    call,     \* the calls
    newest,   \* Keycloak: each session's newest refresh token, 0 before the login
    live,     \* Keycloak: the sessions that have not been revoked
    rotates,  \* Keycloak: a refresh token is spent when it is redeemed
    sent      \* ghost: refresh requests, with the client, subject and token of each

vars == <<held, used, call, newest, live, rotates, sent>>

Subjects == {Subject[s]: s \in Sessions}

\* Refresh tokens, as the session they belong to and their generation.
RefreshTokens == Sessions \X (1..MaxGen)

Tokens == [refresh: RefreshTokens \cup {None}, id: Sessions \cup {None},
           subject: Subjects, client: Clients, verified: RefreshTokens \cup {None}]

\* A token answer.
Answers == [refresh: RefreshTokens \cup {None}, id: Sessions \cup {None}]

ASSUME NoneAssumption == None \notin RefreshTokens \cup Tokens \cup Answers

Idle == [stage |-> "idle"]

CallStates ==
    {Idle} \cup
    [stage: {"redeeming", "answered", "verifying", "asking", "done"},
     kind: {"refresh", "userinfo"}, slot: Slots, client: Clients, prev: Tokens,
     got: Answers \cup {None}, told: Subjects \cup {None}, result: {"none", "ok", "error"}]

TypeOK ==
    /\ held \in [Slots -> Tokens \cup {None}]
    /\ used \in [Slots -> BOOLEAN]
    /\ call \in [Calls -> CallStates]
    /\ newest \in [Sessions -> 0..MaxGen]
    /\ live \subseteq Sessions
    /\ rotates \in BOOLEAN
    /\ sent \subseteq [client: Clients, subject: Subjects, token: RefreshTokens]

Init ==
    /\ held = [w \in Slots |-> None]
    /\ used = [w \in Slots |-> FALSE]
    /\ call = [c \in Calls |-> Idle]
    /\ newest = [s \in Sessions |-> 0]
    /\ live = {}
    /\ rotates \in BOOLEAN
    /\ sent = {}

-----------------------------------------------------------------------------
(* Getting a session *)

\* The private record of what was verified, beside the token the caller sees.
Verified(tokens, subject, client) ==
    [refresh |-> tokens.refresh, id |-> tokens.id,
     subject |-> subject, client |-> client, verified |-> tokens.refresh]

\* A password grant, or a login's code exchange: an ID token is required and verified.  A
\* grant that fails on the way leaves nothing behind.
Acquire(w, s) ==
    /\ held[w] = None /\ newest[s] = 0
    /\ \E refresh \in {None, <<s, 1>>}:
           held' = [held EXCEPT ![w] =
               Verified([refresh |-> refresh, id |-> s], Subject[s], Client[s])]
    /\ newest' = [newest EXCEPT ![s] = 1] /\ live' = live \cup {s}
    /\ UNCHANGED <<used, call, rotates, sent>>

-----------------------------------------------------------------------------
(* The calls *)

\* What a caller can pass: Tokens it holds, their visible fields cleared or those of others
\* it holds.  The access token is left out: what Keycloak says of it is left open below.
Passed(w) ==
    LET mine == {held[v]: v \in Slots} \ {None}
        refreshes == {t.refresh: t \in mine} \cup {None}
        ids == {t.id: t \in mine} \cup {None} IN
    {[held[w] EXCEPT !.refresh = shown[1], !.id = shown[2]]: shown \in refreshes \X ids}

Start(c, stage, kind, w, client, prev) ==
    call' = [call EXCEPT ![c] =
        [stage |-> stage, kind |-> kind, slot |-> w, client |-> client, prev |-> prev,
         got |-> None, told |-> None, result |-> "none"]]

\* Mutant: the client that verified the session is not compared.
OfAnyClient(prev, client) == prev.client \in Clients

\* session_subject: verified, and by this client.
OfThisClient(prev, client) == prev.client = client

\* Mutant: the visible refresh token is taken as it is.
AnyRefresh(prev) == prev.refresh # None

\* The session has a refresh token, and it is the one that was verified.
OwnRefresh(prev) == prev.refresh # None /\ prev.verified = prev.refresh

\* refresh_tokens sends the refresh token; a call that does not get so far changes nothing.
Refresh(c, w, client, prev) ==
    /\ call[c].stage = "idle"
    /\ OfThisClient(prev, client) /\ OwnRefresh(prev)
    /\ Start(c, "redeeming", "refresh", w, client, [prev EXCEPT !.id = None])
    /\ used' = [used EXCEPT ![w] = TRUE]
    /\ sent' = sent \cup {[client |-> client, subject |-> prev.subject, token |-> prev.refresh]}
    /\ UNCHANGED <<held, newest, live, rotates>>

\* userinfo verifies the ID token again, if there is one, and asks about the access token.
UserInfo(c, w, client, prev) ==
    /\ call[c].stage = "idle"
    /\ OfThisClient(prev, client)
    /\ Start(c, IF prev.id = None THEN "asking" ELSE "verifying", "userinfo", w, client,
             [prev EXCEPT !.refresh = None, !.verified = None])
    /\ UNCHANGED <<held, used, newest, live, rotates, sent>>

End(c, result, told) ==
    call' = [call EXCEPT ![c].stage = "done", ![c].result = result, ![c].told = told]

Fail(c) == End(c, "error", None) /\ UNCHANGED <<held, used>>

\* Keycloak redeems a refresh token it still accepts, and rotates it or not.
Redeem(c) ==
    /\ call[c].stage = "redeeming"
    /\ LET s == call[c].prev.refresh[1]
           gen == call[c].prev.refresh[2] IN
       /\ s \in live /\ Client[s] = call[c].client
       /\ rotates => gen = newest[s] /\ gen < MaxGen
       /\ newest' = IF rotates THEN [newest EXCEPT ![s] = gen + 1] ELSE newest
       /\ \E id \in Sessions \cup {None},
             refresh \in IF rotates THEN {<<s, gen + 1>>} ELSE {None, <<s, gen>>}:
              call' = [call EXCEPT ![c].stage = "answered", ![c].got =
                  [refresh |-> refresh, id |-> id]]
    /\ UNCHANGED <<held, used, live, rotates, sent>>

\* The answer arrives, and what it says of its subject is looked at first.
AnswerLands(c) ==
    /\ call[c].stage = "answered"
    /\ call' = [call EXCEPT ![c].stage = IF call[c].got.id = None THEN "asking" ELSE "verifying"]
    /\ UNCHANGED <<held, used, newest, live, rotates, sent>>

\* Any request or verification fails, the grant is refused, or the caller drops the call.
CallFails(c) ==
    /\ call[c].stage \in {"redeeming", "answered", "verifying", "asking"}
    /\ Fail(c)
    /\ UNCHANGED <<newest, live, rotates, sent>>

\* Mutant: the old refresh token is kept although a new one came.
KeepsOld(c) == call[c].prev.refresh

\* Without a new refresh token the old one is kept.
Kept(c) == IF call[c].got.refresh = None THEN call[c].prev.refresh ELSE call[c].got.refresh

\* The refreshed Tokens carry the same subject, and the caller keeps them for the old ones.
Refreshed(c, told) ==
    /\ held' = [held EXCEPT ![call[c].slot] =
           Verified([call[c].got EXCEPT !.refresh = Kept(c)], call[c].prev.subject, call[c].client)]
    /\ used' = [used EXCEPT ![call[c].slot] = FALSE]
    /\ End(c, "ok", told)

\* Mutant: an ID token of any subject passes.
VerifyAnyone(c) ==
    /\ call[c].stage = "verifying"
    /\ IF call[c].kind = "refresh" THEN Refreshed(c, None)
       ELSE call' = [call EXCEPT ![c].stage = "asking"] /\ UNCHANGED <<held, used>>
    /\ UNCHANGED <<newest, live, rotates, sent>>

\* The ID token, of the session when asking for userinfo and of the answer when refreshing.
IdSubject(c) ==
    Subject[IF call[c].kind = "refresh" THEN call[c].got.id ELSE call[c].prev.id]

\* The ID token verifies; its subject is the session's or the call ends.
Verify(c) ==
    /\ call[c].stage = "verifying"
    /\ IF IdSubject(c) # call[c].prev.subject THEN Fail(c)
       ELSE IF call[c].kind = "refresh" THEN Refreshed(c, None)
       ELSE call' = [call EXCEPT ![c].stage = "asking"] /\ UNCHANGED <<held, used>>
    /\ UNCHANGED <<newest, live, rotates, sent>>

\* The userinfo answer arrives; its subject is the session's or the call ends.
Ask(c) ==
    /\ call[c].stage = "asking"
    /\ \E who \in Subjects:
        IF who # call[c].prev.subject THEN Fail(c)
        ELSE IF call[c].kind = "refresh" THEN Refreshed(c, who)
        ELSE End(c, "ok", who) /\ UNCHANGED <<held, used>>
    /\ UNCHANGED <<newest, live, rotates, sent>>

\* revoke_token takes any token of a session.
Revoke(s) ==
    /\ s \in live /\ live' = live \ {s}
    /\ UNCHANGED <<held, used, call, newest, rotates, sent>>

-----------------------------------------------------------------------------
(* The specification *)

Called(c) ==
    /\ call[c].stage = "idle"
    /\ \E w \in Slots, client \in Clients:
        /\ held[w] # None
        /\ \E prev \in Passed(w): Refresh(c, w, client, prev) \/ UserInfo(c, w, client, prev)

Step(c) == Redeem(c) \/ AnswerLands(c) \/ CallFails(c) \/ Verify(c) \/ Ask(c)

\* With no call under way the callers may leave it at that.
Quiet == (\A c \in Calls: call[c].stage \in {"idle", "done"}) /\ UNCHANGED vars

Next ==
    \/ \E c \in Calls: Called(c) \/ Step(c)
    \/ \E w \in Slots, s \in Sessions: Acquire(w, s)
    \/ \E s \in Sessions: Revoke(s)
    \/ Quiet

Spec == Init /\ [][Next]_vars

-----------------------------------------------------------------------------
(* Properties *)

\* verified_refresh_token, "binds the caller-visible refresh token to its verified session":
\* however refreshes are chained and fields swapped, the refresh token of what a caller holds
\* belongs to a session of the verified subject at the verified client.
BoundToSession ==
    \A w \in Slots: held[w] # None =>
        /\ held[w].verified = held[w].refresh
        /\ held[w].verified # None =>
            /\ Subject[held[w].verified[1]] = held[w].subject
            /\ Client[held[w].verified[1]] = held[w].client

\* A refresh token is sent to no other issuer or client than the one that verified it, and
\* never spent on behalf of another subject.
SentByOwner ==
    \A r \in sent: Client[r.token[1]] = r.client /\ Subject[r.token[1]] = r.subject

\* Whatever Keycloak answers, a refresh or userinfo succeeds only with an answer about the
\* session's subject, and so does a refresh without an ID token.
AnswersAreAboutSubject ==
    \A c \in Calls: (call[c].stage = "done" /\ call[c].result = "ok") =>
        IF call[c].kind = "refresh" /\ call[c].got.id # None
        THEN Subject[call[c].got.id] = call[c].prev.subject
        ELSE call[c].told = call[c].prev.subject

\* Tokens that were given out and not yet refreshed can be refreshed, until the session is
\* revoked: a rotated token replaces the old one, and without rotation the old one is kept.
FreshIsRefreshable ==
    \A w \in Slots: (held[w] # None /\ ~used[w] /\ held[w].verified # None) =>
        \/ held[w].verified[1] \notin live
        \/ rotates => held[w].verified[2] = newest[held[w].verified[1]]
=============================================================================
