------------------------------ MODULE Exchange ------------------------------
(***************************************************************************)
(* The memory of an exchange with Keycloak: which buffers hold its secrets,  *)
(* who owns them, and in which order they go out of scope when a transfer    *)
(* ends, at whatever step it ends (transport.rs: Request, Response,          *)
(* SecretHeaderList, send_blocking; flow/fetch.rs: Scrubbed, Page,           *)
(* Redirect).  An exchange is a page of PageFetch's login, over its jar, or  *)
(* a request of the API: a token, the user's claims, a list of members.      *)
(*                                                                          *)
(* libcurl's own copies are outside, but for the header lines it copies into *)
(* nodes that SecretHeaderList owns.                                         *)
(***************************************************************************)
EXTENDS PageFetch

CONSTANTS
    PageRequests,  \* the requests for a page: [fields, lines]
    ApiRequests,   \* the other requests: [fields, lines]
    MaxForm        \* MAX_FORM

\* A field's bytes are those of its name and value; "escaped" of them are written as three.  Of
\* a header line curl copies what comes before a NUL.
RequestShape(r) ==
    /\ r.fields \in Seq([bytes: Nat, escaped: Nat])
    /\ r.lines \in Seq([length: Nat, copied: Nat, control: BOOLEAN])
    /\ \A i \in DOMAIN r.fields: r.fields[i].escaped <= r.fields[i].bytes
    /\ \A i \in DOMAIN r.lines: r.lines[i].control \/ r.lines[i].copied = r.lines[i].length

ASSUME RequestAssumption == \A r \in PageRequests \cup ApiRequests: RequestShape(r)

VARIABLES
    stage,    \* how far the exchange is
    asking,  \* the Request under way
    live,     \* the owners of its memory that are in scope
    held,     \* the buffers that hold bytes of it
    nodes,    \* SecretHeaderList's nodes: the bytes libcurl copied into each
    lengths,  \* SecretHeaderList::lengths
    handle,   \* Easy: whether it is there and points at the nodes
    lost      \* the buffers freed with their bytes still in them

memoryVars == <<stage, asking, live, held, nodes, lengths, handle, lost>>

NoRequest == [fields |-> <<>>, lines |-> <<>>]

Owners == {"requested", "request", "list", "handle", "response"}

\* What a caller may keep of an exchange: a page, or where a redirect leads.
Kept == {"page", "location"}

ExchangeInit ==
    /\ FetchInit
    /\ stage = "idle" /\ asking = NoRequest /\ live = {} /\ held = {}
    /\ nodes = <<>> /\ lengths = <<>> /\ handle = "none" /\ lost = {}

-----------------------------------------------------------------------------
(* A request and its form *)

\* Mutant: room for the bytes as they are.
RoomUnescaped(fields) ==
    UNION {{i} \X (1..(fields[i].bytes + 2)): i \in DOMAIN fields}

\* Request::form reserves three bytes for each, and two to join them.
Room(fields) ==
    UNION {{i} \X (1..(3 * fields[i].bytes + 2)): i \in DOMAIN fields}

\* What form_urlencoded writes: each field with its "=", and a "&" before all but the first.
Written(fields) ==
    UNION {{i} \X (1..(fields[i].bytes + 2 * fields[i].escaped + IF i = 1 THEN 1 ELSE 2)):
           i \in DOMAIN fields}

TooLarge(fields) == Cardinality(Room(fields)) > MaxForm

\* A buffer that grows past its room is copied and the old one freed as it is.
Outgrown(name, size, room) == IF size > room THEN {name} ELSE {}

\* Request::form gives up before there is a Request to wipe its URL.
RefuseForm(r) ==
    /\ stage = "idle" /\ TooLarge(r.fields)
    /\ lost' = lost \cup {"refused url"}
    /\ UNCHANGED <<fetchVars, stage, asking, live, held, nodes, lengths, handle>>

\* The buffers of a Request, its cookie lines aside.
Carried(r) ==
    {"url"} \cup {b \in {"form"}: r.fields # <<>>} \cup {b \in {"headers"}: r.lines # <<>>}

Ask(r) ==
    /\ stage = "idle" /\ ~TooLarge(r.fields)
    /\ asking' = r
    /\ lost' = lost \cup Outgrown("form", Cardinality(Written(r.fields)),
                                         Cardinality(Room(r.fields)))
    /\ UNCHANGED <<nodes, lengths>>

\* fetch.rs: send keeps a copy of the URL for itself, in a Scrubbed.  A scheme that is not
\* allowed ends it at once, with only the Request to drop.
AskPage(origin, r) ==
    /\ Ask(r) /\ SendTo(origin)
    /\ IF AllowedScheme(origin)
       THEN /\ stage' = "headers" /\ handle' = "open"
            /\ live' = {"requested", "request", "list", "handle"}
            /\ held' = held \cup Carried(r) \cup {"requested"} \cup {b \in {"cookies"}: sent' # {}}
       ELSE /\ stage' = "leaving" /\ UNCHANGED handle
            /\ live' = {"request"} /\ held' = held \cup Carried(r)

AskApi(r) ==
    /\ Ask(r) /\ UNCHANGED fetchVars
    /\ stage' = "headers" /\ handle' = "open"
    /\ live' = {"request", "list", "handle"} /\ held' = held \cup Carried(r)

ForPage == "requested" \in live

-----------------------------------------------------------------------------
(* send_blocking *)

\* Mutant: a line with a NUL is appended too.
AppendAny ==
    /\ stage = "headers" /\ Len(nodes) < Len(asking.lines)
    /\ LET line == asking.lines[Len(nodes) + 1]
       IN  nodes' = Append(nodes, line.copied) /\ lengths' = Append(lengths, line.length)
    /\ UNCHANGED <<fetchVars, stage, asking, live, held, handle, lost>>

\* SecretHeaderList::append
AppendHeader ==
    /\ stage = "headers" /\ Len(nodes) < Len(asking.lines)
    /\ LET line == asking.lines[Len(nodes) + 1]
       IN  /\ ~line.control
           /\ nodes' = Append(nodes, line.copied) /\ lengths' = Append(lengths, line.length)
    /\ UNCHANGED <<fetchVars, stage, asking, live, held, handle, lost>>

\* SecretHeaderList::install, and the Response with its whole limit reserved.
Install ==
    /\ stage = "headers" /\ Len(nodes) = Len(asking.lines)
    /\ stage' = "reading" /\ live' = live \cup {"response"}
    /\ handle' = IF asking.lines = <<>> THEN "open" ELSE "points"
    /\ UNCHANGED <<fetchVars, asking, held, nodes, lengths, lost>>

\* header_function and write_function of a page.
ReceivePage ==
    /\ stage = "reading" /\ ForPage /\ to' = to
    /\ \/ HeaderLine /\ held' = held \cup {"answer"} /\ UNCHANGED lost
       \/ /\ Body /\ held' = held \cup {"body"}
          /\ lost' = lost \cup Outgrown("body", body', MaxResponse)
    /\ UNCHANGED <<stage, asking, live, nodes, lengths, handle>>

\* The same of the API, whose lines and bytes are not counted here.
ReceiveApi ==
    /\ stage = "reading" /\ ~ForPage
    /\ \E b \in {"answer", "body"}: held' = held \cup {b}
    /\ UNCHANGED <<fetchVars, stage, asking, live, nodes, lengths, handle, lost>>

\* perform succeeds: what send_blocking returns is moved out of it, the rest goes out of scope.
Perform ==
    /\ stage = "reading" /\ stage' = "returning"
    /\ ForPage => Whole
    /\ UNCHANGED <<fetchVars, asking, live, held, nodes, lengths, handle, lost>>

\* Any step fails, or the caller gives the request up: all goes out of scope.
Abandon ==
    /\ stage \in {"headers", "reading", "returning"}
    /\ IF ForPage THEN (HeaderLine \/ Body \/ Break) /\ to' = NoOrigin ELSE UNCHANGED fetchVars
    /\ stage' = "leaving"
    /\ UNCHANGED <<asking, live, held, nodes, lengths, handle, lost>>

-----------------------------------------------------------------------------
(* Out of scope *)

\* Mutant: the handle is declared before the list it points at.
DeclaredHandleFirst(owner) ==
    [requested |-> 1, request |-> 2, handle |-> 3, list |-> 4, response |-> 5][owner]

\* The order of declaration; what is declared last is dropped first.
Declared(owner) ==
    [requested |-> 1, request |-> 2, list |-> 3, handle |-> 4, response |-> 5][owner]

Buffers(owner) ==
    CASE owner = "requested" -> {"requested"}
      [] owner = "request"   -> {"url", "form", "headers", "cookies"}
      [] owner = "response"  -> {"body", "answer"}
      [] OTHER               -> {}

\* Mutant: the cookie lines are freed as they are.
WipesAllButCookies(owner) == Buffers(owner) \ {"cookies"}

\* What the owner's Drop overwrites, with scrub_url and zeroize.
Wipes(owner) ==
    CASE owner = "requested" -> {"requested"}
      [] owner = "request"   -> {"url", "form", "headers", "cookies"}
      [] owner = "response"  -> {"body", "answer"}
      [] OTHER               -> {}

\* SecretHeaderList::scrub overwrites each node for the length recorded for it.
ScrubsAll == \A i \in DOMAIN nodes: i \in DOMAIN lengths /\ lengths[i] >= nodes[i]

\* What leaves the scope now: send_blocking's own when it returns, else all.
Leaving == IF stage = "returning" THEN live \ {"requested", "response"} ELSE live

\* The caller's own copy of the URL goes after the worker's, or before it when the caller is
\* dropped first.
DropOwner(owner) ==
    /\ stage \in {"returning", "leaving"} /\ owner \in Leaving
    /\ owner = "requested" \/ \A other \in Leaving: Declared(other) <= Declared(owner)
    /\ live' = live \ {owner} /\ held' = held \ Buffers(owner)
    /\ lost' = lost \cup ((held \cap Buffers(owner)) \ Wipes(owner))
                    \cup {b \in {"nodes"}: owner = "list" /\ ~ScrubsAll}
    /\ handle' = IF owner = "handle" THEN "none" ELSE handle
    /\ nodes' = IF owner = "list" THEN <<>> ELSE nodes
    /\ lengths' = IF owner = "list" THEN <<>> ELSE lengths
    /\ UNCHANGED <<fetchVars, stage, asking>>

\* The Response is there.  A page takes its body over; what is left of it goes out of scope.
ResponseLands ==
    /\ stage = "returning" /\ Leaving = {} /\ stage' = "leaving"
    /\ IF ForPage
       THEN /\ Land
            /\ held' = CASE fetched'.kind = "page"     -> (held \ {"body"}) \cup {"page"}
                         [] fetched'.kind = "redirect" -> held \cup {"location"}
                         [] OTHER                     -> held
       ELSE UNCHANGED <<fetchVars, held>>
    /\ UNCHANGED <<asking, live, nodes, lengths, handle, lost>>

Over ==
    /\ stage = "leaving" /\ live = {}
    /\ stage' = "idle" /\ asking' = NoRequest
    /\ UNCHANGED <<fetchVars, live, held, nodes, lengths, handle, lost>>

\* The driver is done with a page, or with a redirect it may be following: Page::drop,
\* Redirect::drop.
DropKept ==
    /\ \E b \in held \cap Kept: held' = held \ {b}
    /\ UNCHANGED <<fetchVars, stage, asking, live, nodes, lengths, handle, lost>>

Later == Tick /\ UNCHANGED memoryVars

ExchangeNext ==
    \/ \E r \in PageRequests \cup ApiRequests: RefuseForm(r)
    \/ \E origin \in Origins, r \in PageRequests: AskPage(origin, r)
    \/ \E r \in ApiRequests: AskApi(r)
    \/ AppendHeader \/ Install \/ ReceivePage \/ ReceiveApi \/ Perform \/ Abandon
    \/ \E owner \in Owners: DropOwner(owner)
    \/ ResponseLands \/ Over \/ DropKept \/ Later

ExchangeSpec == ExchangeInit /\ [][ExchangeNext]_<<fetchVars, memoryVars>>

-----------------------------------------------------------------------------
\* However an exchange ends, and at whatever step, its buffers are overwritten before they are
\* freed: none outgrows its room, a node is overwritten for exactly the bytes libcurl copied
\* into it, and the nodes outlive the handle that points at them.  The URL of a form too large
\* to send is the one that is not (transport.rs: "so libcurl releases its handle before native
\* header copies are scrubbed and freed, including on early errors").
BuffersAreWiped ==
    /\ lost \subseteq {"refused url"}
    /\ Len(lengths) = Len(nodes) /\ \A i \in DOMAIN nodes: lengths[i] = nodes[i]
    /\ handle = "points" => nodes # <<>>
    /\ stage = "idle" => held \subseteq Kept /\ nodes = <<>> /\ handle = "none"
=============================================================================
