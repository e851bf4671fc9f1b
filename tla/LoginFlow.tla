------------------------------ MODULE LoginFlow ------------------------------
(***************************************************************************)
(* One Keycloak browser-flow login: the AuthFlow lifecycle (flow/mod.rs),   *)
(* the driver that walks the pages (flow/driver.rs), and the completion at  *)
(* the registered callback (client.rs).                                     *)
(*                                                                          *)
(* An action is what the step's future does between two awaits.  Keycloak   *)
(* may send any response to any request, the clock may pass the deadline    *)
(* between any two actions, and the caller may drop the step's future at    *)
(* any await, cancel the login or drop it between steps, and answer with    *)
(* any client.                                                              *)
(***************************************************************************)
EXTENDS Naturals, Sequences

CONSTANTS
    Clients,       \* PublicClientApplication::login_client of the clients at hand
    NoClient,      \* AuthFlow::client before the login begins (the empty string)
    Kinds,         \* PageKind
    Supported,     \* the kinds Factors::for_page finds a factor for
    Challenges,
    Answers,
    Accepts,       \* Expect::check: the answers a waiting challenge takes
    Asks,          \* PageFactor::challenges, by kind and by "a login hint was given"
    NoPage,        \* the None of Option<Pending>
    MaxRedirects   \* MAX_REDIRECTS

Page == [kind: Kinds, expect: Challenges, queue: Seq(Challenges), answers: Seq(Answers)]

ASSUME LoginAssumption ==
    /\ NoClient \notin Clients
    /\ Supported \subseteq Kinds
    /\ Accepts \in [Challenges -> SUBSET Answers]
    /\ Asks \in [Kinds -> [BOOLEAN -> Seq(Challenges)]]
    /\ NoPage \notin Page
    /\ MaxRedirects \in Nat

VARIABLES
    lifecycle,  \* AuthFlow::lifecycle
    jar,        \* AuthFlow::jar holds cookies
    secrets,    \* pkce_verifier, oauth_state and nonce are held, not wiped
    pending,    \* AuthFlow::pending
    client,     \* AuthFlow::client
    hint,       \* AuthFlow::login_hint is given
    due,        \* Instant::now() >= AuthFlow::deadline
    pc,         \* the await the step's future stands at, or where the flow is
    app,        \* the client running the step under way
    held,       \* the caller holds the AuthFlow (initiate_auth_flow returned it)
    form,       \* the Pending post() took by value, while its form is in flight
    posted,     \* resolve's argument: the response awaited answers a form post
    followed,   \* resolve's count of redirects followed since the last page
    token,      \* the token response being verified, or the tokens handed over
    redeemed,   \* how many times a code was sent to the token endpoint
    result      \* what the step under way will return, or the last one returned

flowVars == <<lifecycle, jar, secrets, pending, client, hint>>
stepVars == <<pc, app, held, form, posted, followed, token, redeemed, result>>
vars == <<flowVars, due, stepVars>>

States   == {"Active", "Cancelled", "Expired", "Failed", "Finished"}
Awaiting == {"get", "post", "token", "keys"}     \* a request is in flight
Running  == Awaiting \cup {"unwind"}             \* a step borrows the flow

\* Fetched::Redirect to the callback: its query.  "own" is the value this login sent.
CallbackQuery == [repeated: BOOLEAN,
                  state: {"absent", "empty", "own", "other"},
                  error: {"absent", "access_denied", "other"},
                  code: {"absent", "empty", "given"}]

\* The token endpoint's answer: the ID token names a key the cached JWKS has, its
\* signature and claims verify, and its nonce is this login's.
TokenReply == [known: BOOLEAN, genuine: BOOLEAN, own: BOOLEAN]
NoToken    == [known |-> FALSE, genuine |-> FALSE, own |-> FALSE]

FlagsOK ==
    /\ jar \in BOOLEAN /\ secrets \in BOOLEAN /\ hint \in BOOLEAN
    /\ due \in BOOLEAN /\ held \in BOOLEAN /\ posted \in BOOLEAN

ValuesOK ==
    /\ lifecycle \in States
    /\ pending \in Page \cup {NoPage} /\ form \in Page \cup {NoPage}
    /\ client \in Clients \cup {NoClient} /\ app \in Clients \cup {NoClient}
    /\ pc \in Running \cup {"none", "idle", "dropped"}
    /\ followed \in 0..MaxRedirects
    /\ token \in TokenReply
    /\ redeemed \in Nat
    /\ result \in {"none", "Challenge", "Failed", "Complete", "Error"}

TypeOK == FlagsOK /\ ValuesOK

Init ==
    /\ lifecycle = "Active" /\ jar = FALSE /\ secrets = FALSE
    /\ pending = NoPage /\ client = NoClient /\ hint = FALSE /\ due = FALSE
    /\ pc = "none" /\ app = NoClient /\ held = FALSE /\ form = NoPage /\ posted = FALSE
    /\ followed = 0 /\ token = NoToken /\ redeemed = 0 /\ result = "none"

-----------------------------------------------------------------------------
(* The lifecycle: flow/mod.rs *)

\* ensure_active would return Ok.
Live == lifecycle = "Active" /\ ~due

\* Mutant: a later end rewrites the outcome.
EndOverwrites(state) ==
    /\ lifecycle' = state
    /\ jar' = FALSE /\ pending' = NoPage /\ secrets' = FALSE
    /\ UNCHANGED <<client, hint>>

\* AuthFlow::end: only an active login takes the state; the wipe always happens.
End(state) ==
    /\ lifecycle' = IF lifecycle = "Active" THEN state ELSE lifecycle
    /\ jar' = FALSE /\ pending' = NoPage /\ secrets' = FALSE
    /\ UNCHANGED <<client, hint>>

\* expire_if_due, then end(state).
EndNow(state) == End(IF due THEN "Expired" ELSE state)

\* Mutant: a failed step does not look at the clock.
FailAtOnce == End("Failed")

Fail == EndNow("Failed")

DeadlinePasses ==
    /\ ~due /\ due' = TRUE
    /\ pc # "none" /\ pc # "dropped"
    /\ UNCHANGED <<flowVars, stepVars>>

\* AuthFlow::cancel, between steps: the caller's borrow excludes a running step.
Cancel ==
    /\ pc = "idle"
    /\ EndNow("Cancelled")
    /\ UNCHANGED <<due, stepVars>>

\* AuthFlow::is_active ends a login past its time limit.
IsActive ==
    /\ pc = "idle"
    /\ IF due /\ lifecycle = "Active" THEN End("Expired") ELSE UNCHANGED flowVars
    /\ UNCHANGED <<due, stepVars>>

\* The caller drops the flow between steps; nothing of it stays in memory.
DropFlow ==
    /\ pc = "idle" /\ pc' = "dropped" /\ held' = FALSE
    /\ jar' = FALSE /\ pending' = NoPage /\ secrets' = FALSE
    /\ UNCHANGED <<lifecycle, client, hint, due, app, form, posted, followed, token, redeemed, result>>

-----------------------------------------------------------------------------
(* How a step starts and ends: driver.rs *)

\* The step's locals are gone: the page it posted, resolve's flags, its borrow of the client.
Settle == form' = NoPage /\ posted' = FALSE /\ followed' = 0 /\ app' = NoClient

\* A step returns Ok(r), leaving the flow with the caller.
Return(r) == pc' = "idle" /\ held' = TRUE /\ result' = r /\ Settle

\* A step returns Err, or Ok(Failed): the flow is failed on the way out.
GiveUp(r) ==
    /\ pc' = "unwind" /\ result' = r /\ token' = NoToken /\ Settle
    /\ UNCHANGED <<held, redeemed>>

\* Drop of Step, EndLogin's and complete_at_callback's fail.  initiate_auth_flow owns
\* the flow of a first step: it drops it unless the step returned Ok.
Unwind ==
    /\ pc = "unwind"
    /\ Fail
    /\ held' = (held \/ result = "Failed")
    /\ pc' = IF held' THEN "idle" ELSE "dropped"
    /\ UNCHANGED <<due, app, form, posted, followed, token, redeemed, result>>

\* Mutant: no guard fails the login of a step dropped mid-request.
DropStepUnguarded ==
    /\ pc \in Awaiting
    /\ pc' = IF held THEN "idle" ELSE "dropped"
    /\ token' = NoToken /\ Settle
    /\ UNCHANGED <<flowVars, due, held, redeemed, result>>

\* The caller drops the step's future at an await: the guards fail the login.
DropStep ==
    /\ pc \in Awaiting
    /\ Fail
    /\ pc' = IF held THEN "idle" ELSE "dropped"
    /\ token' = NoToken /\ Settle
    /\ UNCHANGED <<due, held, redeemed, result>>

\* first_page up to its request; a start that makes no address gives up before that.
FirstPage(c, h) ==
    \/ /\ client' = c /\ hint' = h /\ pc' = "get" /\ app' = c
       /\ UNCHANGED <<held, form, posted, followed, token, redeemed, result>>
    \/ GiveUp("Error") /\ UNCHANGED <<client, hint>>

\* initiate_with: a new flow and its first page.
Begin(c, h) ==
    /\ pc = "none" /\ secrets' = TRUE
    /\ FirstPage(c, h)
    /\ UNCHANGED <<lifecycle, jar, pending, due>>

\* Mutant: any client may answer.
AnswerableByAny(c, a) == Live /\ pending # NoPage /\ a \in Accepts[pending.expect]

\* A page of kind k with challenges asks still to ask, the first of them now, and answers given.
Asking(k, asks, given) ==
    [kind |-> k, expect |-> Head(asks), queue |-> Tail(asks), answers |-> given]

\* answer_page takes the waiting page: this is what it needs to go on.
Answerable(c, a) ==
    /\ Live
    /\ pending # NoPage
    /\ client = c
    /\ a \in Accepts[pending.expect]

RefuseAnswer(c, a) ==
    /\ pc = "idle" /\ ~Answerable(c, a)
    /\ pending' = IF Live THEN NoPage ELSE pending
    /\ GiveUp("Error")
    /\ UNCHANGED <<lifecycle, jar, secrets, client, hint, due>>

AskNext(c, a) ==
    /\ pc = "idle" /\ Answerable(c, a) /\ pending.queue # <<>>
    /\ pending' = Asking(pending.kind, pending.queue, Append(pending.answers, a))
    /\ Return("Challenge")
    /\ UNCHANGED <<lifecycle, jar, secrets, client, hint, due, token, redeemed>>

\* The factor maps the answers to fields, and the form refuses fields it does not have.
RefuseFields(c, a) ==
    /\ pc = "idle" /\ Answerable(c, a) /\ pending.queue = <<>>
    /\ pending' = NoPage
    /\ GiveUp("Error")
    /\ UNCHANGED <<lifecycle, jar, secrets, client, hint, due>>

\* Mutant: the form is posted at the first answer.
PostFormEarly(c, a) ==
    /\ pc = "idle" /\ Answerable(c, a) /\ pending.kind \in Supported
    /\ form' = [pending EXCEPT !.answers = Append(@, a)]
    /\ pending' = NoPage
    /\ pc' = "post" /\ app' = c /\ posted' = TRUE
    /\ UNCHANGED <<lifecycle, jar, secrets, client, hint, due, held, followed, token, redeemed,
                   result>>

PostForm(c, a) ==
    /\ pc = "idle" /\ Answerable(c, a) /\ pending.queue = <<>> /\ pending.kind \in Supported
    /\ form' = [pending EXCEPT !.answers = Append(@, a)]
    /\ pending' = NoPage
    /\ pc' = "post" /\ app' = c /\ posted' = TRUE
    /\ UNCHANGED <<lifecycle, jar, secrets, client, hint, due, held, followed, token, redeemed,
                   result>>

Answer(c, a) == RefuseAnswer(c, a) \/ AskNext(c, a) \/ RefuseFields(c, a) \/ PostForm(c, a)

-----------------------------------------------------------------------------
(* A page or redirect arrives: resolve, present, complete_at_callback *)

\* A response to the request in flight; fetch::send stores its cookies before anything else.
Landing == pc \in {"get", "post"} /\ jar' \in BOOLEAN

\* Fetched::Page: a 200 page whose form could be read, and whether it reports a field error.
PageReply == [readable: BOOLEAN, rejected: BOOLEAN, kind: Kinds]

\* Fetched::Redirect: where it points, and whether it is a 307 or 308.
RedirectReply == [target: {"callback", "own", "foreign"}, repeats: BOOLEAN, query: CallbackQuery]

\* The transport fails, or the response is no page and no usable redirect.
FetchFails ==
    /\ Landing /\ GiveUp("Error")
    /\ UNCHANGED <<lifecycle, pending, secrets, client, hint, due>>

\* A response that lands past the time limit is not acted on.
LandLate ==
    /\ Landing /\ ~Live /\ GiveUp("Error")
    /\ UNCHANGED <<lifecycle, pending, secrets, client, hint, due>>

\* Keycloak refused the answers: the login failed, without an error for the caller.
PageRejects(p) ==
    /\ Landing /\ Live /\ p.readable /\ p.rejected
    /\ GiveUp("Failed")
    /\ UNCHANGED <<lifecycle, pending, secrets, client, hint, due>>

Presentable(p) == p.readable /\ p.kind \in Supported /\ Asks[p.kind][hint] # <<>>

RefusePage(p) ==
    /\ Landing /\ Live /\ ~Presentable(p) /\ ~(p.readable /\ p.rejected)
    /\ GiveUp("Error")
    /\ UNCHANGED <<lifecycle, pending, secrets, client, hint, due>>

\* present: the page waits on the caller, its first challenge asked.
PresentPage(p) ==
    /\ Landing /\ Live /\ Presentable(p) /\ ~p.rejected
    /\ pending' = Asking(p.kind, Asks[p.kind][hint], <<>>)
    /\ Return("Challenge")
    /\ UNCHANGED <<lifecycle, secrets, client, hint, due, token, redeemed>>

\* callback's checks; a wiped state is the empty string and matches nothing.
CallbackCarriesCode(q) ==
    /\ ~q.repeated
    /\ secrets /\ q.state = "own"
    /\ q.error = "absent"
    /\ q.code = "given"

RefusedRedirect(r) ==
    \/ posted /\ r.repeats
    \/ r.target = "callback" /\ ~CallbackCarriesCode(r.query)
    \/ r.target = "foreign"
    \/ r.target = "own" /\ followed = MaxRedirects

RefuseRedirect(r) ==
    /\ Landing /\ Live /\ RefusedRedirect(r)
    /\ GiveUp("Error")
    /\ UNCHANGED <<lifecycle, pending, secrets, client, hint, due>>

\* Mutant: a redirect is followed without asking whether the login is still on.
FollowRedirectUngated(r) ==
    /\ Landing /\ ~RefusedRedirect(r) /\ r.target = "own"
    /\ pc' = "get" /\ posted' = FALSE /\ followed' = followed + 1 /\ form' = NoPage
    /\ UNCHANGED <<lifecycle, pending, secrets, client, hint, due, app, held, token, redeemed,
                   result>>

FollowRedirect(r) ==
    /\ Landing /\ Live /\ ~RefusedRedirect(r) /\ r.target = "own"
    /\ pc' = "get" /\ posted' = FALSE /\ followed' = followed + 1 /\ form' = NoPage
    /\ UNCHANGED <<lifecycle, pending, secrets, client, hint, due, app, held, token, redeemed,
                   result>>

\* The callback's code goes to the token endpoint with this login's verifier.
RedeemCode(r) ==
    /\ Landing /\ Live /\ ~RefusedRedirect(r) /\ r.target = "callback"
    /\ pc' = "token" /\ redeemed' = redeemed + 1
    /\ posted' = FALSE /\ followed' = 0 /\ form' = NoPage
    /\ UNCHANGED <<lifecycle, pending, secrets, client, hint, due, app, held, token, result>>

Land ==
    \/ FetchFails
    \/ LandLate
    \/ \E p \in PageReply: PageRejects(p) \/ RefusePage(p) \/ PresentPage(p)
    \/ \E r \in RedirectReply: RefuseRedirect(r) \/ FollowRedirect(r) \/ RedeemCode(r)

-----------------------------------------------------------------------------
(* The code exchange: redeem_code, verify_tokens, finish *)

\* Mutant: the nonce is not compared.
VerifiesAnyNonce(t) == t.genuine /\ secrets

Verifies(t) == t.genuine /\ secrets /\ t.own

\* The token endpoint or the key set could not be had, or the tokens do not verify.
ExchangeFails ==
    /\ pc \in {"token", "keys"}
    /\ GiveUp("Error")
    /\ UNCHANGED <<flowVars, due>>

\* finish: verified tokens end the login, unless it ran past its deadline meanwhile.
Finish(t) ==
    /\ Verifies(t)
    /\ IF Live
         THEN End("Finished") /\ Return("Complete") /\ token' = t /\ UNCHANGED redeemed
         ELSE UNCHANGED flowVars /\ GiveUp("Error")
    /\ UNCHANGED due

TokensLand(t) == pc = "token" /\ t.known /\ Finish(t)

\* verify_tokens: an unknown key means fetching the key set anew before verifying.
FetchKeys(t) ==
    /\ pc = "token" /\ ~t.known
    /\ pc' = "keys" /\ token' = t
    /\ UNCHANGED <<flowVars, due, app, held, form, posted, followed, redeemed, result>>

KeysLand == pc = "keys" /\ Finish(token)

Exchange ==
    \/ ExchangeFails
    \/ \E t \in TokenReply: TokensLand(t) \/ FetchKeys(t)
    \/ KeysLand

-----------------------------------------------------------------------------
\* The flow is gone, and so is the login.
Gone == pc = "dropped" /\ UNCHANGED vars

\* What the engine does by itself once its request is answered, timed out included.
Progress == Land \/ Exchange \/ Unwind

Caller ==
    \/ \E c \in Clients, h \in BOOLEAN: Begin(c, h)
    \/ \E c \in Clients, a \in Answers: Answer(c, a)
    \/ Cancel \/ IsActive \/ DropFlow \/ DropStep

Next == Progress \/ Caller \/ DeadlinePasses \/ Gone

Safety == Init /\ [][Next]_vars

\* Every request is answered or times out (the transport's deadline), and a polled future
\* runs on; nothing is asked of the caller or of the clock.
Spec == Safety /\ WF_vars(Progress)

-----------------------------------------------------------------------------
(* Properties *)

\* Whatever ends a login - cancel, time limit, failure, completion, a dropped step or the flow
\* itself dropped - its cookies, its waiting page and its secrets are gone, and a response that
\* lands afterwards brings none of them back (AuthFlow::end, Drop).
EndedIsWiped ==
    lifecycle # "Active" \/ pc = "dropped" => ~jar /\ pending = NoPage /\ ~secrets

\* A login the caller holds that still counts as active can be gone on with: it has its secrets
\* and, between steps, a challenge waiting.  No error path and no future dropped mid-request
\* leaves a login active with Keycloak's side of it unknown (Step, EndLogin).
LiveIsUsable ==
    lifecycle = "Active" /\ pc \notin {"none", "dropped", "unwind"} =>
        secrets /\ (pc = "idle" => pending # NoPage)

\* A login is wiped when it is over and only then: none is left that has ended and still holds
\* something, or that goes on counting as active with nothing to go on with.
WipedWhenOver == EndedIsWiped /\ LiveIsUsable

\* An ended login has no request in flight (ensure_active gates every step), and only the
\* client that began the login has one: another would redeem the code at its own endpoint.
InFlightIsOwnAndActive == pc \in Awaiting => lifecycle = "Active" /\ app = client

\* The challenges a page asks, each answered by an answer it takes, in the order asked.
Answered(p, asks) ==
    /\ Len(p.answers) <= Len(asks)
    /\ \A i \in 1..Len(p.answers): p.answers[i] \in Accepts[asks[i]]

\* The page's remaining challenges after the one being answered.
AskedSoFar(p, asks) ==
    LET n == Len(p.answers) IN
    /\ Len(asks) = n + 1 + Len(p.queue)
    /\ p.expect = asks[n + 1]
    /\ \A j \in 1..Len(p.queue): p.queue[j] = asks[n + 1 + j]

\* The page waiting on the caller: what is answered, asked and still to ask make up its
\* challenges (answer_page).
WaitingPageInOrder ==
    pending # NoPage =>
        LET asks == Asks[pending.kind][hint] IN Answered(pending, asks) /\ AskedSoFar(pending, asks)

\* A form in flight answers every challenge of its page, in order, and is in flight only
\* during the post: no answer is kept while a redirect is followed or the code redeemed.
FormAnswersPage ==
    /\ (form # NoPage) = (pc = "post")
    /\ form # NoPage =>
        LET asks == Asks[form.kind][hint] IN Answered(form, asks) /\ Len(form.answers) = Len(asks)

\* The authorization code is single-use: one login sends at most one, and once it was sent the
\* caller never holds the login active again, however the exchange went (exchange_code).
SpentLoginIsOver ==
    /\ redeemed <= 1
    /\ redeemed = 1 /\ pc \notin {"token", "keys", "unwind"} => lifecycle # "Active" \/ pc = "dropped"

\* How a login ended is never rewritten: not by a later cancel, a later answer, or the guards
\* that run after it finished (end changes the lifecycle only while active).
EndedForGood == [][lifecycle # "Active" => lifecycle' = lifecycle]_vars

\* A login finishes exactly when a step completes, inside its time limit, on tokens verified
\* against this login's nonce for the one code it redeemed (redeem_code, finish).
FinishesVerified ==
    [][(lifecycle' = "Finished" /\ lifecycle # "Finished") \/ (result' = "Complete" /\ result # "Complete")
        => /\ lifecycle' = "Finished" /\ result' = "Complete" /\ redeemed' = 1
           /\ token'.genuine /\ token'.own /\ ~due]_vars

\* A request leaves in this step.
Sends == pc' \in Awaiting /\ <<pc, followed>>' # <<pc, followed>>

\* Past the time limit nothing of the login goes out; the one request that still can is the
\* fetch of the realm's public keys, for tokens that landed late.
OnlyKeysPastLimit == [][Sends /\ due => pc' = "keys"]_vars

\* mod.rs: "Gate every step: a cancelled, expired, or finished login never reaches Keycloak
\* again."  Read of the time limit itself: past it, no request leaves.
NothingPastLimit == [][Sends => ~due]_vars

\* A response that lands after the time limit ends the login as expired, whatever it is and
\* whichever check it would fail (resolve, finish, fail).
OverdueExpires == pc \in Running /\ due /\ lifecycle = "Active" ~> lifecycle = "Expired"

\* The login as its caller knows it.
Phase ==
    IF lifecycle # "Active" THEN lifecycle
    ELSE CASE pc = "none"    -> "unstarted"
           [] pc = "dropped" -> "abandoned"
           [] pc = "idle"    -> "waiting"
           [] OTHER          -> "working"

Contract == INSTANCE LoginContract WITH phase <- Phase, spent <- redeemed > 0

\* The login keeps the contract's promise, fairness included.
KeepsContract == Contract!ContractSpec
=============================================================================
