# Himmelcloak in TLA+

Himmelcloak authenticates Linux users against Keycloak by walking Keycloak's
browser login pages natively: it fetches a page, asks its caller for what the
page asks, posts the form, follows redirects, and redeems the authorization code
at the registered callback. This directory holds TLA+ models of that engine, TLC
configurations that check them, and TLAPS proofs about them. Paths below are
relative to the repository, `src/` being its root.

## The system

| Part | Source | State | Operations |
|---|---|---|---|
| Login lifecycle | `src/flow/mod.rs` | `AuthFlow`: lifecycle, deadline, cookie jar, secrets, waiting page, client | `new`, `ensure_active`, `cancel`, `is_active`, `finish`, `fail`, drop |
| Login driver | `src/flow/driver.rs`, `flow/factor.rs` | `Pending`: challenge asked, challenges to ask, answers; redirects followed | `begin`, `advance`, `post`, `resolve`, `present`, `callback` |
| Client | `src/client.rs` | cached JWKS behind an `RwLock`, metadata | `initiate_auth_flow`, `continue_auth_flow`, `exchange_code`, `verify_tokens`, refresh, password grant, userinfo, revoke |
| Transport | `src/transport.rs` | process-wide semaphore of 32 slots, per-call job shared with a worker | `send` |
| Page fetching | `src/flow/fetch.rs` | `CookieJar` by origin | `get`, `post_form` |
| Forms, page kinds | `src/flow/form.rs`, `flow/classify.rs` | the scanner's, during one pass | `extract`, `submit`, `classify` |
| Tokens, OIDC requests | `src/token.rs`, `src/standard.rs` | none | `discover`, `authorization_url`, `verify_id_token`; token/userinfo/revocation requests |
| Configuration, JSON | `src/config.rs`, `src/sensitive_json.rs` | none | `validate`, `parse` |
| Group sync | `src/admin.rs` | members read so far | `read_allowed_group` |
| Authenticators, OTP | `src/authenticator/`, `src/authn/` | signature and HOTP counters | `get_assertion`, `verify_and_advance_hotp` |
| CLI | `crates/himmelcloak-cli` | saved terminal settings behind a mutex | `test-login`, `sync-users` |
| PAM, NSS | `crates/pam_himmelcloak`, `crates/nss_himmelcloak` | none | entry points that deny, a prompt-planning table |

How they meet: the caller (the CLI today) owns an `AuthFlow` and lends it to one
step at a time, so two steps of one login never overlap; but a step is a future,
so the caller may drop it at any await. A step's awaits are the transport's
calls. Several logins share one client's key cache and all calls of a process
share the transport's slots; the cookie jar is one login's. The transport runs
libcurl on tokio's blocking threads, where nothing can be cancelled once
started. The CLI's interrupt handler runs on a thread of its own beside the
prompt. `sync-users` is sequential, but the files it reads and the group it
lists are others'.

What is hard here: a login ended by one thing (time limit, cancel, dropped
future, refusal) while another is under way; a response that lands after the
end; a single-use code; a slot or a secret that is in two places or in none when
a call is given up; the handler thread against the prompt; verifications that
race over one key set while the realm rotates it; refreshes whose answer is lost
after the token was spent; a list paged by offset while it changes; cookies that
expire while a user is asked; counters at their last value; pages, addresses,
claims and JSON texts one edit away from the right ones. `PROJECT.json` lists
these hazards with their lines, and the properties aimed at each.

## Modules

| Module | What it is |
|---|---|
| `LoginContract` | What a login promises its caller: it starts, waits and works in turn, spends its code once, and ends once and for good |
| `LoginFlow` | One login in detail: `AuthFlow`, the driver, completion at the callback |
| `MCLoginFlow` | Small clients, pages and challenges for TLC |
| `LoginFlowProofs` | The theorems about `LoginFlow` |
| `Transport` | `CurlTransport::send`: slots, deadline, blocking workers |
| `MCTransport` | Three calls over two slots |
| `TransportProofs` | The theorems about `Transport`, `PageFetch` and `Exchange` |
| `JwksCache` | `verify_tokens` over the key set all verifications of a client share |
| `MCJwksCache` | Two verifications, five keys, five key sets, seven tokens |
| `JwksCacheProofs` | The theorems about `JwksCache` |
| `Session` | `Tokens` after a login: refresh, userinfo, password grant, revocation |
| `MCSession` | Two sessions, two slots, two calls, two clients |
| `SessionProofs` | The theorems about `Session` |
| `PageFetch` | The cookie jar, and a response as it arrives piece by piece |
| `Exchange` | The memory of one exchange, composed with `PageFetch`: buffers, owners, and the order they are wiped and freed in |
| `MCPageFetch` | Three origins, five cookies, six replies, six requests |
| `PageForm` | A page's scan, its kind, its form, and what is posted back |
| `MCPageForm` | Keycloak's pages and those one or two edits away |
| `PageFormProofs` | The theorems about `PageForm` |
| `TerminalEcho` | The CLI's password prompt against its interrupt handler |
| `CliLogin` | The `test-login` command: `TerminalEcho` composed with `LoginContract` |
| `CliLoginProofs` | The theorems about `CliLogin` and `TerminalEcho` |
| `MCCliLogin` | One command |
| `GroupSync` | `read_allowed_group`: a group read page by page while it changes |
| `GroupSyncProofs` | The theorems about `GroupSync` and `SyncUsers` |
| `SyncUsers` | The `sync-users` command, composed with `GroupSync` |
| `MCSyncUsers` | Four users, pages of two, files around their limits |
| `SecondFactors` | The signature counter and the HOTP counter |
| `MCSecondFactors` | Counters that end at 3, requests of every kind |
| `Discovery`, `IdClaims`, `Challenges`, `OneTimeCodes`, `SensitiveJson` | Rules without state, as operators |
| `Rules` | These put to cases, and what each is for |
| `MCRules` | The cases |
| `RulesProofs` | The theorems about `Rules` and `SecondFactors` |

Modules hold, next to some definitions, a variant marked "Mutant": the same
operation with one plausible mistake. None is used by a specification;
`PROJECT.json` names for every property a mutant that breaks it.

### LoginFlow

The step's future is modelled between awaits: `pc` is the await it stands at
(`get`, `post`, `token`, `keys`), `unwind` while its error runs through the drop
guards, `idle` when the caller holds the flow between steps. The lifecycle
variables are `AuthFlow`'s fields; `due` says that `Instant::now()` reached the
deadline, and may turn true between any two actions. The rest are the step's
locals: `form` is the `Pending` that `post` took by value, `posted` and
`followed` are `resolve`'s.

- `Begin` is `initiate_with` up to its first request, or to the error of
  `authorization_url` (`FirstPage`). `Answer` is `continue_auth_flow`:
  `RefuseAnswer` (ended login, no page, another client, wrong answer),
  `AskNext`, `RefuseFields`, `PostForm`.
- `Land` is a response to a page request. Keycloak may send any: an unreadable
  page, a page that reports a field error, a page of any kind, a redirect to the
  callback (with any combination of `state`, `error`, `code` and a repeated
  parameter), to Keycloak itself or elsewhere, with a status that repeats the
  post or not. Cookies are stored before anything is checked, so `jar` may
  change on every landing.
- `Exchange` is the code's way through the token endpoint, the key-set fetch
  that an unknown key id needs, and verification.
- `GiveUp` then `Unwind` is an error on its way through `Step::drop` and
  `EndLogin::drop`; `DropStep` is the future dropped at an await. The guards run
  synchronously; the clock may still pass between the error and the guard.
- A page's kind, its challenges and what each accepts are the constants `Kinds`,
  `Asks`, `Accepts`: the factor interface, of which the shipped `Builtin` is one
  instance. The proofs hold for every other.
- The external Keycloak and the clock are nondeterministic, never modelled as
  well behaved.

### Transport

Every call has a future (`call`), a closure for the blocking pool (`worker`) and
a permit and request that move from the semaphore and the caller to the shared
`PendingJob` and on to the worker. `PendingTransfer::drop` is `LetGo`: abort,
and take back what the worker has not taken. It runs on every way out of the
second await. Where tokio polls the inner future before its timer, so does the
model: a permit or an answer in hand wins over a deadline that has passed. The
semaphore is fair, as tokio's is.

### TerminalEcho and CliLogin

The two threads step between lock operations and `tcsetattr` calls. Each
restoring `tcsetattr` may fail, so may the one that hides echo, and the prompt
or the read. The terminal may have had echo off from the start.

`CliLogin` adds the command around the prompt: `SetUp`, `Initiate`, one action
per arm of the loop in `run` (a username, a password, a challenge it does not
answer, the end), and the exit status. The login is `LoginContract`,
instantiated: its steps are taken by `EngineAsks` and `EngineGoesOn` while the
command waits for the engine, so whatever `LoginFlow` does the command must
take, `LoginFlow` being shown to implement it. Dropping the flow on an error
abandons a waiting login.

### JwksCache

`published` is the history of key sets the realm has served and `cached` the
version the client holds, so a stale store is visible as a lower number. One
verification is `LookUp` (read lock), `Served` or `FetchFails` (the request),
`Store` (write lock) and `Check` (a second read lock); the code lets go of the
lock between them, and so does the model. A key is a JWK's ID, type, size, use,
algorithm and operations, from which `Eligible` and `Importable` decide as
`key_eligible` and the import do. A token has its three parts, each JSON, bytes
or junk (`Named` is what its header must say before a key is looked for,
`Legible` the rest); it says, for the property only, which key signed it. Claims
pass or not here; their rules are `IdClaims`. Keys are checked in the code's
order: selection, import, signature, claims.

The fetched set replaces the stored one whatever was stored meanwhile. So a
verification that fetched a set with its key can find, at `Check`, an older set
that another verification stored in between, and fail with "unknown key ID"
though the key is published. Without its `~raced` condition `LoneCallFindsKey`
is violated in just this order. No document promises otherwise and the next
verification refetches, so it is recorded here and not as a finding.

### Session

A slot is where a caller keeps the `Tokens` it was given: `refresh` and `id` are
the public fields, `subject`, `client` (issuer and client ID together) and
`verified` the private ones. `Passed` is what a caller can do to the public
fields: clear them, or put in those of other `Tokens` it holds. A call's stages
are its awaits: `redeeming`, `answered`, `verifying`, `asking`. Keycloak
(`Redeem`) accepts the newest token of a live session of the right client; if it
rotates, a redeemed token is spent. Whom the answer's ID token and the userinfo
answer are about is left open. `CallFails` is any error or drop, in particular
one after `Redeem`, when a rotated token is lost.

### PageFetch

`jar` is `CookieJar::origins`; `SendTo` reads an origin's unexpired cookies and
starts a transfer, `HeaderLine` and `Body` are libcurl's callbacks with their
limits, `Break` any failure of the transfer, `Land` what `get` and `post_form`
make of a whole response: the origin's list is replaced by what the transfer's
cookie engine ended with, then the status and the redirect decide. `Tick` may
come between any two, in the middle of a transfer too. `given` is a ghost, apart
from the jar: what each origin set last, under the name and domain it set it
for.

### Exchange

`Exchange` follows the memory of one exchange from `Request::form` to the last
`drop`, a page's or an API request's. `held` is the set of buffers that hold
bytes of it, `live` the values in scope that own them, `nodes` the header lines
as libcurl copied them with `lengths` as recorded beside them. `AppendHeader`,
`Install`, `ReceivePage` and `Perform` are `send_blocking` from top to bottom,
`Abandon` each of its `?` and the caller dropped at any step; `DropOwner` is a
value going out of scope, in the reverse order of declaration, with what its
`Drop` overwrites. A page is fetched by `PageFetch`'s own actions, so the two
modules share every step (`ExchangeIsFetch`). `Room` and `Written` are the form
before and after percent-encoding, as sets, so that both are sizes for any
number of fields. A buffer that outgrows its room is freed with its bytes in it
(`lost`), and so is what its owner does not wipe.

One exception is in the property: `Request::form` refuses a form that is too
large before there is a `Request`, and the URL it was given is freed as it is.
No document promises otherwise for a request that is never made.

### PageForm

`Read` is one pass of the scanner, a token at a time: `Start`, `End` and `Text`
are its callbacks, with the element stack reduced to what they look at (the open
form, template depth, the label, tile or message being collected). `Extract`
decides the page's kind and the form's fields and devices; `Submit` fills the
form. Attributes are compared, never spelled out. The properties do not use the
scanner: `Live`, `InForm`, `Messages` and `Controls` define over the whole page
what it should have found. `Messages` are all the elements with a field error's
id and text to be seen, wherever they stand and whether or not they are closed.
The scanner collects the text of one element at a time and notes it when that
element is closed; it therefore misses a message inside a label for another
element, a tile or another message, one that is itself such a label, and one
left open. `RefusalIsSeen` says what it does promise: it never takes a page for
a refusal that shows no message, and never overlooks one of `PlainMessages`,
which are closed and stand by themselves, as in both of Keycloak's themes. Of
any other message it promises nothing: `<label for="password">Password <span
id="input-error-password">Invalid</span></label>` is read as a label, and the
page is classified as a fresh login page, although `classify.rs:109` says a
message is "keyed on the element ID" (`begin` starts no second capture,
`classify.rs:264`). The pages of both themes under `tests/fixtures` have no such
message. A tag is closed by the next end tag of its name that balances it, and a
self-closing one is empty, as the scanner has it; a browser may differ in both.
The controls are inputs and buttons: `select` and `textarea`, which the scanner
treats as further controls of no allowed kind, are not in the pages.

### SecondFactors

`ReturnAssertion` is `get_assertion` to its end, which stores the counter last,
`SigningFails` a failure on the way, `RefuseAssertion` a request its checks
refuse, the counter at its maximum among them. Assertions are kept in `issued`
and reach the relying party in any order, more than once or never (`Arrive`).
`VerifyAndAdvance` is HOTP; a code may match at several counter values. The two
counters do not interact; they share a module for their size.

### Rules and its operators

Five modules hold judgements that keep no state. `Discovery` has the
configuration's checks, the endpoints of a discovery document and the
authorization request; `IdClaims` the claims, in `u64` seconds that saturate;
`Challenges` has `Expect::check`, the password page's fields and PAM's plan;
`OneTimeCodes` truncation, digits and the comparison, over an uninterpreted
HMAC; `SensitiveJson` the parser. Its recursion is a function of the levels
left: `value` at depth d is what the level below it reads at every place, and
none of what is left at `MaxDepth` + 1 reads anything. Its loops are functions
of their rounds. `Rules` takes a case, judges it (one action per rule) and
stops, and its properties compare the verdict with what the rule is for, never
with the rule: the realm Keycloak would serve, the times a token should hold, a
value and all its spellings, a code's digits as a number, the one document
without blanks that writes a value.

What is itself named "realms" cannot be told (`token.rs:228`): the realm from a
context path that ends in "realms", and, of a server with such a path, a realm
"protocol" from the resource path below the realm "realms". These are the
exceptions of `EndpointInItsRealm`.

### GroupSync and SyncUsers

`group` is Keycloak's list; members join anywhere and leave at any time. A page
starts at the offset of the members read and is as long as Keycloak likes:
`Pages` goes one past the size asked for, the server that ignores it. `present`,
`stayed` and `left` record what the properties compare with. `SyncUsers` extends
it with the command around it: `Open`, `Inspect` and `ReadFile` for the
configuration and then for the secret, `ReadGroup`, whose steps are
`GroupSync`'s, and `PrintMembers`. `Grows` is whoever may write a file, between
any two checks.

## Runs

| Run | Checks | Result |
|---|---|---|
| `login_flow` | wiping; who may be in flight; what a posted form answers; verified finish; nothing but keys past the limit; overdue logins expire; the contract, its liveness included | holds |
| `login_limit` | nothing at all is sent past the time limit | violated: see Findings |
| `transport` | conservation of permits; given up is never sent; every call returns; every slot comes back | holds |
| `cli_login` | what was changed is saved; echo off exactly while a password is read and restored on return; no login left for anyone to answer, and exit status 0 only for a finished one; an interrupted command exits; a submitted password needs nobody any more | holds |
| `terminal_exit` | a command interrupted at any point leaves the terminal as found | violated: see Findings |
| `jwks_cache` | accepted tokens were signed by a published key of the right kind; a key in every published set that has keys verifies its tokens, and an empty set served takes none away; a refetch finds the key unless another call stored meanwhile | holds |
| `session` | the refresh token held is the subject's and client's own; none is sent for another; answers are about the subject; what was given out can be refreshed | holds |
| `sync_users` | no repeats, blanks or strangers in what is read, within the limit, and nobody who stayed is missed unless someone left; complete output or none; the group is asked for only with files that passed; reading ends | holds |
| `page_form` | a recognised page has the plain controls and no other; a page is a refusal only if it shows a message, and a closed message that stands by itself makes it one; devices offered are those taken; what is posted is what a browser would post | holds |
| `page_fetch` | a request carries what its origin gave last and has not expired; a page is read whole or not at all; however an exchange ends, its buffers are overwritten before they are freed | holds |
| `second_factors` | each assertion carries its own count; no counter value is accepted twice | holds |
| `rules` | endpoints and requests are the login's realm's and its own; a token is for one client and its own time; answers fit what was offered; PAM asks for what the challenge needs, each thing once and nothing else; a code is its period's digits; a document is read as the value it writes, a string as the characters it spells, and no others are read | holds |

Bounds. `login_flow`: two clients (one begins, the other interferes), four page
kinds (the two-challenge login page, a one-challenge page, a page whose factor
asks nothing, a page without factor), two challenges, and the code's own
`MAX_REDIRECTS` of 5. Nothing else is bounded: one login redeems at most once,
and its pages, answers and redirects are unlimited. `transport`: three calls and
two slots, so that one call waits while others hold slots and a slot given back
is taken by a call that waited; each call is made once. `cli_login`: one
command; its prompts, pages and interrupts are unlimited. `jwks_cache`: two
verifications, since a third could only repeat what the second does to the
first; `MaxVersions` 3 lets the realm move away from a key set and back or on
while both run; the key sets hold a rotation with overlap, a key ID used again
for another algorithm, keys for encryption and of no known size, and no key; the
tokens are two good ones and five with one thing wrong. `session`: each call is
made once, one after the other on a slot (a chain) or at once; `MaxGen` 3 is
beyond what two refreshes reach. `sync_users`: pages of 2 and a limit of 3 for
100 and 100000, with four users, so that two pages are needed and the limit is
exceeded; file limits of 1 and sizes up to 2 for 16384 and 65536. `page_fetch`:
`MaxTime` 3 lets every cookie expire before, during and after a request; limits
of 2 for `MAX_HEADERS` and `MAX_RESPONSE`, with replies that meet and pass them;
a `MaxForm` of 16 that one form passes; the number of requests is not bounded.
The constraint `Apart` has forms, API requests and kept pages come before the
first cookie, since memory and cookies share only the request's cookie lines.
`page_form`: Keycloak's three page layouts with every token dropped or doubled,
each of nineteen put in anywhere and any run wrapped in an element, two edits at
a time with seven of them; and login and device pages with each bad address.
`second_factors`: counters that end at 3 for `u32::MAX` and `u64::MAX`, HOTP
starting at 1, a code that repeats. `rules`: all combinations of what a rule
tells apart; `Latest` 7 for `u64::MAX` and `Leeway` 2; JSON values two deep for
a `MaxDepth` of 1, and texts one edit away from them.

Deadlock is checked but for `page_form` and `rules`, where a
page submitted or a case judged is the end. `Gone`, `AllDone`, `Ended`, `Done`,
`Quiet` and `Returned` are the states in which the program has nothing left to
do.

## Fairness

- `LoginFlow`: weak fairness of `Progress`, what the engine does once its
  request is answered or failed. The transport gives every request a deadline
  (`SendEnds` below), and a caller that neither drops nor polls a future would
  stop any program. Nothing is assumed of the caller, the clock or the contents
  of answers. `OverdueExpires` is stated of a step under way only: between steps
  the code looks at its clock when it is next called.
- `Transport`: a woken future is polled (`Poll`), time passes
  (`DeadlinePasses`), and a worker that has a thread runs on (`Work`; libcurl
  has its own timeout for the transfer). No fairness of `WorkerStarts`: the
  blocking queue may be stalled for ever, the case the comment in
  `PendingTransfer::drop` is about.
- `CliLogin`: both threads are scheduled, and the engine returns from every
  call, which `LoginContract` promises. No fairness of typing or of signals:
  `SubmittedEnds` holds since a second prompt is never reached.
- `GroupSync`: every request is answered or fails, since the transport gives it
  a deadline. Nothing of the group or of what Keycloak lists.
- The others state safety only: the calls of `JwksCache`, `Session` and
  `PageFetch` are straight lines of requests that end by the transport's
  deadline; `PageForm`, `SecondFactors` and `Rules` are steps that end at once.

## Proofs

The proofs hold for every value of the constants allowed by `LoginAssumption`,
`TransportAssumption`, `JwksCacheAssumption`, `SessionAssumption`,
`NoneAssumption`, `GroupSyncAssumption`, `SyncUsersAssumption`,
`FetchAssumption`, `RequestAssumption`, `PageAssumption`, `FactorAssumption`,
`PartyAssumption`, `ClaimsAssumption`, `ClaimsCasesAssumption`,
`ChallengeCasesAssumption`, `EndpointCasesAssumption`, `RequestCasesAssumption`,
`CodeCasesAssumption`, `JsonAssumption` and `TextAssumption`, which TLC
evaluates on the runs' instances. They say what kind of thing a constant is, and
that the value for "none" is no other value; `PartyAssumption` that the relying
party has a name, `FactorAssumption` that the counters start within their range,
and `RequestAssumption` that only bytes of a field are escaped and that libcurl
copies a header line without control characters whole. `PageAssumption` says
what the tokenizer hands over: a page is a sequence of tokens, a tag has a name,
the controls are inputs and buttons, and what the scanner compares of a start
tag is a yes or no, or a number. Nothing is said of how tags nest or whether
they end. `EndpointCasesAssumption` says what the endpoints of a realm look
like: below any context path "realms", or a percent-encoded form of it, the
realm, and "protocol" with a path that has neither of the first two; it is what
Keycloak serves, the one thing `EndpointInItsRealm` compares with.
`RequestCasesAssumption` says that a part of a request is valid or "odd".

`LoginFlowProofs`. The inductive invariant is `LoginInv`: the type invariant,
`FlowInv` and `PageInv`. `FlowInv` puts the four state properties together,
because each leans on the others: that an ended login has nothing in flight
needs that only an active one sends, and that a spent code ends the login needs
that the guards fail what is active. `Beginning` completes it: before the login
starts there is nothing to lose, and a redemption under way is the first.
`PageInv` needs no lifecycle. The lemma `Effect` sorts the steps: a step begins,
asks, posts, presents, follows, redeems or fetches keys, or it gives up, wipes,
completes or idles. The invariant's preservation, the action properties and the
step simulation of `LoginContract` all go by its cases. Proved: all invariants
of the run, and the order of a waiting page, which `FormAnswersPage` needs; that
an outcome is final, which `KeepsContract` implies; `FinishesVerified`,
`OnlyKeysPastLimit`, and the contract's safety part.

`TransportProofs`. `HoldersMove` says how the number of holders moves when one
call's permit does. `SlotInv` adds `Placed`, which ties permit and request to
where the future and the closure stand: only so is it known that a permit taken
back was there to take. Proved: `PermitsConserved`, `GivenUpIsNeverSent`, and
that a transfer holds a slot and nothing is left behind in the queue.

The same module has the theorems about pages and memory. `FetchInv` says that
the jar and `given` agree on every cookie that may still be sent, now or later;
time only takes from those (`AgreeLater`), and a cookie put into both leaves
them agreed (`PutAgrees`). `MemoryInv` says that each buffer with bytes in it
has an owner in scope that wipes it, or is what a caller keeps; that the list is
in scope as long as there are nodes and the handle as long as it points at them,
and the lengths are the nodes'. That no form outgrows its room (`WrittenFits`)
is shown for any number of fields, however many of their bytes are escaped.
Proved: the three invariants of the `page_fetch` run, for any origins, cookies,
requests and limits, and that an exchange is a run of `PageFetch`.

`JwksCacheProofs`. `CacheInv` adds to the properties what holds of a call on its
way: `AnswersHoldKeys`, that what is about to be stored holds a key, and
`LastingNeverFetches`, that a verification by a key in every published set finds
it at once, whichever version is stored. `LoneInv` then says, call by call, what
`LoneCallFindsKey` rests on: a set that is fetched was current while the call
ran, and a call no other raced checks against a set that was, too, or that had
its key at the look-up. Proved: all invariants.

`SessionProofs`. `SessionInv` adds `CallsBound` (a refresh under way is for the
session its slot holds, and so is its answer), `SlotsApart` (no two slots hold
one session) and `NewestIsSomewhere`: where Keycloak rotates, the newest refresh
token is in a slot that has not sent it, or with the one call that redeemed its
predecessor. Without the last, `FreshIsRefreshable` is not inductive: two
refreshes of one slot at once could each be thought to deliver the newest. The
steps are first sorted (`Effects`): a token is sent, redeemed, its answer lands,
the slot is renewed, a session is new, or the rest. Proved: all invariants of
the run.

`GroupSyncProofs`. `ReadInv` adds `PagesCover`: as long as nobody left, everyone
who stayed was read or is still listed behind the offset of the next page. A
join only moves them back (`JoinMovesBack`), and a page holds what the list has
from its offset on (`PageContents`), for every page size. Every run of the
command is such a reading (`CommandIsReading`, fairness included). `RunInv` adds
to it what the command holds of the files it took over (`FilesHeld`; a file may
still grow, but its owner and permissions were inspected on the open
descriptor), and that printing is its last step (`PrintedLast`). Proved: all
invariants of the run.

`CliLoginProofs`. `CliInv` is the type invariant with what the two threads and
the login owe each other: the mutex is held by the thread that is in a section
that takes it (`LockHeld`); only what was found is ever saved, it is saved while
the terminal differs from it (`FoundIsSaved`, `SavedBeforeSet`), and outside a
prompt nothing is, unless restoring failed (`SavedInPrompt`); the login is as
far as the command (`InStep`), and how the command returned is what its login
came to (`ReturnTells`). Proved, for every interleaving and any number of
prompts: the three invariants of the run, and that the command as the engine's
caller takes only steps of the login contract, which `LoginFlow` is shown to
implement.

`PageFormProofs`. The scanner sees one token at a time and the properties read
the page as a whole, so the invariants say what a scan of the first `n` tokens
tells of these tokens. `ScanOK`: the templates open are the page's count, a form
is open exactly when `InForm` says so, and unless something suspicious was found
the forms are counted and the controls are the live, named ones, each once and
in page order. `TextsOK`: the text collected is that of the one collected
element that has not ended, the depth is the balance of its own tags so far, and
an error is noted exactly when a message has ended. There is a lemma for each
callback (`StartScanned`, `EndCollects` and the like) that carries them one
token further; `PageInvariant` and `MessageInvariant` add what the kind decided
then was decided on. `TakenInv` and `FormInv` tie devices, form and what was
posted to that scan. Without the second half of `TextsOK`, that every other
collected element has ended, the first is not inductive: a nested element would
be collected when the outer one ends. What `OpenTemplates`, `Collected` and
`Sifted` compute is proved from their recursive definitions by a least place
where they would not (`LeastOfAll`), there being none. `Sifted` is `SelectSeq`
written as such a function, since the prover gives `SelectSeq` no definition.
Proved: the four properties of the `page_form` run, for every page of every
length, nested or left open in any way. For `RefusalIsSeen` the proof goes
through `KeptMessages`, the messages whose text the scanner notes: each is shown
(`KeptAreShown`), and each of `PlainMessages` is among them (`PlainAreKept`);
that every message is one of them is not so (see PageForm above).

`RulesProofs`. First, about the operators themselves, for paths, queries and
scope lists of any length and times of any width: an endpoint is in one realm at
most, a request asks for each parameter once, accepted claims name their client,
and are taken exactly within their times. Then about `Rules`, whose verdict is
always its case's rule's: for any claims, challenges, answers and pages, tokens
are accepted and answers taken as the property that the run checks says. A PAM
plan asks for exactly what `Wanted` lists, which is written from the challenge
and not from the plan: a device only where there are several, a method even
where there is one, since `plan` asks for that. That it asks nothing twice
(`NothingAskedTwice`) holds if no two fields of a required action have one name.
`LoginsGoToTheirRealm` rests on two facts of a path: an endpoint's "realms" is
the last that anything can follow (`SettledIsLast`), and what Keycloak puts
after a realm is no realm's marker; and on `ScopesOnce`, which steps through the
list of scopes by a least place where they would not be distinct.

Then what is read, for texts of every length (`AllReadAsWritten`, of the run's
`ReadsAsWritten` and its three parts). A loop or a recursion there is a function
over its rounds or levels, which a lemma unfolds by one (`DecodeUnfolds` and the
like) and an induction up to a number follows (`UpTo`, from a least place where
the claim would fail). A code (`CodesAreTheirDigits`) is taken exactly when its
digits are its period's number modulo a power of ten: digits that are all below
the base are equal when their numbers are. A string
(`StringsAreTheirCharacters`) needs that the search for its end visits the first
character of every spelling and never the quote of an escape, so that it stops
at the string's own (`SearchGoesOn`). A document (`DocumentsAreTheirValues`) is
placed token by token in the document without its blanks. The inductive
statement is `ReadWell`, level by level: what is read at a place is written from
there up to where reading goes on (`Correct`); whatever value is written from
there is read, and nothing else is (`Complete`); and no text of a value begins
as a closing bracket (`Texts`), without which an empty list could not be told
from one with an item. It is carried through members, the rounds of a list
(`ReadRight`: what they have read is what is written behind the bracket, with no
key twice) and values, to `MaxDepth` + 1 levels. The three rest on
`CodeCasesAssumption`, `TextAssumption` and `JsonAssumption`: what a digest and
a text consist of, and that a case said to write a value does so.

Last, about `SecondFactors`: the counts issued lie below the next, and accepted
values below the counter; both hold through the counters' last value.

Every safety invariant and action property of the passing runs is proved. Only
model-checked: the liveness properties (`OverdueExpires`, `SendEnds`,
`SlotsComeBack`, `InterruptEnds`, `SubmittedEnds`, `ReadEnds`) and the fairness
half of `KeepsContract`, which are beyond the prover.

## Findings

1. `login_limit`: the code exchange checks the lifecycle before it sends the
   code and after the tokens verified. If the token response lands past the time
   limit with an unknown key id, `verify_tokens` still fetches the key set,
   though `flow/mod.rs:228` says an expired login never reaches Keycloak again.
   The login does end as expired, and nothing of it is in that request.
2. `terminal_exit`: the interrupt handler gives up the mutex before it exits. If
   it ran before anything was saved, the main thread can still turn echo off,
   and the process exits with the terminal in that state. `ChangedIsSaved` shows
   that this order is the only one: a handler that runs once echo is off
   restores it.

## Not modelled

- Cryptography, libcurl and TLS: a token verifies or not, a transfer answers or
  fails. libcurl's options are settings, and its own copies of what it sends are
  its own. The scrubbing of secrets outside an exchange, a `Zeroizing` value
  each, has no order to get wrong.
- HTML tokenizing and URL parsing are libraries'; the model starts from their
  tokens and segments. Number and UTF-8 syntax inside a JSON scalar passes or
  fails.
- PAM and NSS entry points: constants, and stubs. The other factors' modules,
  the USB authenticator and the key stores hold no behaviour yet.
- Drop order within a process exit, panics and poisoned locks: the transport and
  the terminal take a poisoned lock's contents, which no step changes half, and
  the client reports an error.

## What could follow

- The PAM entry points, once they run a login: `conversation::plan` and
  `LoginContract` are the two halves that would compose as `CliLogin` does.
