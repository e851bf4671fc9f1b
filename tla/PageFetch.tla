------------------------------ MODULE PageFetch ------------------------------
(***************************************************************************)
(* Fetching the pages of one login: the cookie jar and what becomes of a    *)
(* response (flow/fetch.rs), over a transfer that libcurl delivers piece by *)
(* piece (transport.rs: send_blocking).  Time passes between any two steps: *)
(* a login waits at its prompts for a user.                                 *)
(*                                                                          *)
(* A host is the sequence of its labels, the outermost first; a cookie line *)
(* is its name, domain and expiry.  What the sites set is recorded apart    *)
(* from the jar, in "given".                                                *)
(***************************************************************************)
EXTENDS Naturals, SequencesExt

CONSTANTS
    Origins,      \* the sites' origins: [scheme, host, port]
    Cookies,      \* the cookie lines they may set: [name, domain, expiry]
    Replies,      \* the responses they may give: [status, location, headers, body]
    NoOrigin,     \* no request is under way
    MaxHeaders,   \* MAX_HEADERS, in lines
    MaxResponse,  \* MAX_RESPONSE, in pieces
    MaxTime       \* bound: the last tick of the clock

ASSUME FetchAssumption ==
    /\ NoOrigin \notin Origins
    /\ \A cookie \in Cookies: cookie.expiry \in Nat
    /\ MaxHeaders \in Nat /\ MaxResponse \in Nat /\ MaxTime \in Nat

VARIABLES
    clock,    \* unix_now()
    jar,      \* CookieJar::origins
    to,       \* the origin of the request under way
    sent,     \* Request::cookies of the last request
    sentAt,   \* when it was sent
    store,    \* libcurl's cookie store, of the transfer under way
    reply,    \* what the site answers
    headers,  \* header_bytes
    body,     \* Response::body
    fetched,  \* what send returned last
    given,    \* for each origin, the cookies its whole responses set, and did not delete
    giving    \* the same, with those of the response under way

fetchVars == <<clock, jar, to, sent, sentAt, store, reply, headers, body, fetched, given, giving>>

NoResult == [kind |-> "none", body |-> 0]

FetchInit ==
    /\ clock = 1 /\ jar = [o \in Origins |-> {}] /\ given = [o \in Origins |-> {}]
    /\ to = NoOrigin /\ sent = {} /\ sentAt = 0
    /\ store = {} /\ giving = {} /\ reply \in Replies
    /\ headers = 0 /\ body = 0 /\ fetched = NoResult

-----------------------------------------------------------------------------
(* The jar *)

\* Expiry zero marks a session cookie.
Unexpired(cookie, now) == cookie.expiry = 0 \/ cookie.expiry > now

DomainMatches(host, domain) == domain # <<>> /\ IsPrefix(domain, host)

Usable(cookie, host, now) ==
    cookie.name # "" /\ Unexpired(cookie, now) /\ DomainMatches(host, cookie.domain)

LinesAt(origin, now) == {cookie \in jar[origin]: Unexpired(cookie, now)}

\* Mutant: the response's cookies are added to those the jar has.
ReplaceMerges(origin, lines) ==
    jar' = [jar EXCEPT ![origin] = @ \cup {cookie \in lines: Usable(cookie, origin.host, clock)}]

\* CookieJar::replace
Replace(origin, lines) ==
    jar' = [jar EXCEPT ![origin] = {cookie \in lines: Usable(cookie, origin.host, clock)}]

-----------------------------------------------------------------------------
(* A request and its transfer *)

AllowedScheme(origin) == origin.scheme = "https"

SendTo(origin) ==
    /\ to = NoOrigin
    /\ IF AllowedScheme(origin)
       THEN /\ to' = origin /\ sent' = LinesAt(origin, clock)
            /\ sentAt' = clock
            /\ store' = LinesAt(origin, clock) /\ giving' = given[origin]
            /\ reply' \in Replies /\ headers' = 0 /\ body' = 0 /\ fetched' = NoResult
       ELSE /\ fetched' = [kind |-> "error", body |-> 0]
            /\ UNCHANGED <<to, sent, sentAt, store, giving, reply, headers, body>>
    /\ UNCHANGED <<clock, jar, given>>

Same(c, d) == c.name = d.name /\ c.domain = d.domain

\* A cookie of a response takes the place of its like; one whose expiry is past only removes it.
Put(cookies, cookie) ==
    {c \in cookies: ~Same(c, cookie)} \cup (IF Unexpired(cookie, clock) THEN {cookie} ELSE {})

Fits(n) == n <= MaxHeaders

\* The request ends without a response; nothing of it reaches the jar.
Fail ==
    /\ to' = NoOrigin /\ fetched' = [kind |-> "error", body |-> 0]
    /\ UNCHANGED <<clock, jar, sent, sentAt, store, giving, reply, headers, body, given>>

\* header_function: a line of the response's head, which may set a cookie.
HeaderLine ==
    /\ to # NoOrigin /\ headers < reply.headers
    /\ \/ /\ Fits(headers + 1)
          /\ headers' = headers + 1
          /\ \/ UNCHANGED <<store, giving>>
             \/ \E cookie \in Cookies:
                   /\ DomainMatches(to.host, cookie.domain)
                   /\ store' = Put(store, cookie) /\ giving' = Put(giving, cookie)
          /\ UNCHANGED <<clock, jar, to, sent, sentAt, reply, body, fetched, given>>
       \/ ~Fits(headers + 1) /\ Fail

\* write_function: n more pieces of the body.
Body ==
    /\ to # NoOrigin /\ headers = reply.headers
    /\ \E n \in 1..(reply.body - body):
          \/ /\ body + n <= MaxResponse
             /\ body' = body + n
             /\ UNCHANGED <<clock, jar, to, sent, sentAt, store, giving, reply, headers, fetched,
                            given>>
          \/ body + n > MaxResponse /\ Fail

\* The connection breaks, or the caller gives the request up.
Break == to # NoOrigin /\ Fail

\* Mutant: a transfer's error is forgotten once its head is there.
WholeHead == headers = reply.headers

\* The transfer succeeds: the response has arrived to its last byte.
Whole == headers = reply.headers /\ body = reply.body

\* RedirectKind::from_status
Redirects(status) == status \in {301, 302, 303, 307, 308}

\* The whole response is there.  Its cookies are kept before its status is looked at.
Land ==
    /\ to # NoOrigin /\ Whole
    /\ Replace(to, store) /\ given' = [given EXCEPT ![to] = giving]
    /\ to' = NoOrigin
    /\ \/ /\ Redirects(reply.status) /\ reply.location \in {"same", "other"}
          /\ fetched' = [kind |-> "redirect", body |-> 0]
       \/ /\ Redirects(reply.status) /\ reply.location \in {"absent", "invalid"}
          /\ fetched' = [kind |-> "error", body |-> 0]
       \/ /\ reply.status \in 300..399 /\ ~Redirects(reply.status)
          /\ fetched' = [kind |-> "error", body |-> 0]
       \/ /\ reply.status \notin 300..399
          /\ fetched' = [kind |-> "page", body |-> body]
    /\ UNCHANGED <<clock, sent, sentAt, store, giving, reply, headers, body>>

Tick ==
    /\ clock < MaxTime /\ clock' = clock + 1
    /\ UNCHANGED <<jar, to, sent, sentAt, store, reply, headers, body, fetched, given, giving>>

FetchNext ==
    \/ \E origin \in Origins: SendTo(origin)
    \/ HeaderLine \/ Body \/ Break \/ Land \/ Tick

FetchSpec == FetchInit /\ [][FetchNext]_fetchVars

-----------------------------------------------------------------------------
\* A request carries the cookies that its exact origin set in the responses that arrived whole,
\* updated and did not delete since, and that had not expired when it was sent: all of these,
\* and no other.  The jar never merges: it takes libcurl's whole list for the origin, which
\* started from the lines sent (fetch.rs: lines_at, replace_at).
SendsWhatWasGiven ==
    to # NoOrigin =>
        sent = {cookie \in given[to]: cookie.name # "" /\ Unexpired(cookie, sentAt)}

\* A page handed up is the whole of what the site sent: a response over the limits, or one that
\* breaks off, is an error and never a part of a page (transport.rs: send_blocking).
PageIsWhole ==
    fetched.kind = "page" => fetched.body = reply.body /\ fetched.body <= MaxResponse
=============================================================================
