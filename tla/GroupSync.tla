------------------------------ MODULE GroupSync ------------------------------
(***************************************************************************)
(* read_allowed_group (admin.rs): one group's members, read page by page at *)
(* the offset of the members read so far, while the realm's administrators  *)
(* change the group and Keycloak caps pages as it likes.  Nothing is        *)
(* returned unless every page passes.                                       *)
(***************************************************************************)
EXTENDS Naturals, Sequences, FiniteSets, SequencesExt

CONSTANTS
    Users,       \* those who can be in the group
    Blank,       \* the users Keycloak lists without an ID or with a blank name
    PageSize,    \* PAGE_SIZE
    MaxMembers   \* MAX_MEMBERS

ASSUME GroupSyncAssumption ==
    /\ IsFiniteSet(Users)
    /\ Blank \subseteq Users
    /\ PageSize \in Nat \ {0}
    /\ MaxMembers \in Nat

VARIABLES
    group,    \* the group in Keycloak, in the order it lists members
    read,     \* where read_with_transport stands
    members,  \* the members read so far
    result,   \* what it returned
    present,  \* ghost: who was in the group at some time since the reading began
    stayed,   \* ghost: who was in it all that time
    left      \* ghost: someone left while the pages were read

groupVars == <<group, read, members, result, present, stayed, left>>

TypeOK ==
    /\ group \in Seq(Users) /\ IsInjective(group)
    /\ read \in {"idle", "token", "pages", "done"}
    /\ members \in Seq(Users)
    /\ result \in {"none", "members", "error"}
    /\ present \subseteq Users
    /\ stayed \subseteq Users
    /\ left \in BOOLEAN

\* Every order in which some of the users can be listed.
Groups == {s \in BoundedSeq(Users, Cardinality(Users)): IsInjective(s)}

Init ==
    /\ group \in Groups
    /\ read = "idle"
    /\ members = <<>>
    /\ result = "none"
    /\ present = {} /\ stayed = {} /\ left = FALSE

-----------------------------------------------------------------------------
(* The reader *)

Return(r) == read' = "done" /\ result' = r

\* The configuration, the group ID and the secret pass, and a token is asked for.
Begin ==
    /\ read = "idle" /\ read' = "token"
    /\ UNCHANGED <<group, members, result, present, stayed, left>>

Refuse ==
    /\ read = "idle" /\ Return("error")
    /\ UNCHANGED <<group, members, present, stayed, left>>

\* The service account's token arrives, and the first page is asked for.
TokenLands ==
    /\ read = "token" /\ read' = "pages"
    /\ present' = Range(group) /\ stayed' = Range(group)
    /\ UNCHANGED <<group, members, result, left>>

\* The request fails, the grant is refused, or the token cannot go into a header.
TokenFails ==
    /\ read = "token" /\ Return("error")
    /\ UNCHANGED <<group, members, present, stayed, left>>

\* The members Keycloak lists from an offset on, as many as it puts on one page.
PageAt(first, n) == SubSeq(group, first + 1, IF first + n < Len(group) THEN first + n
                                             ELSE Len(group))

\* Pages of the size asked for or capped lower; one larger stands for a server that ignores it.
Pages == {PageAt(Len(members), n): n \in 1..(PageSize + 1)}

TooLong(page) == Len(page) > PageSize \/ Len(members) + Len(page) > MaxMembers

\* Some entry is blank or was read before.
Rejected(page) == Range(page) \cap Blank # {} \/ ~IsInjective(members \o page)

\* Mutant: a shorter page than asked for is taken for the last.
ShortPageEnds ==
    /\ read = "pages"
    /\ \E page \in Pages:
        /\ ~TooLong(page) /\ Len(page) < PageSize
        /\ ~Rejected(page)
        /\ members' = members \o page
    /\ Return("members")
    /\ UNCHANGED <<group, present, stayed, left>>

\* An empty page is the end.
LastPage ==
    /\ read = "pages"
    /\ \E page \in Pages: page = <<>> /\ ~TooLong(page)
    /\ Return("members")
    /\ UNCHANGED <<group, members, present, stayed, left>>

\* A page that passes is added, and the next is asked for behind it.
NextPage ==
    /\ read = "pages"
    /\ \E page \in Pages:
        /\ page # <<>> /\ ~TooLong(page) /\ ~Rejected(page)
        /\ members' = members \o page
    /\ UNCHANGED <<group, read, result, present, stayed, left>>

\* Mutant: a page that does not pass starts the reading over.
StartOver ==
    /\ read = "pages"
    /\ \E page \in Pages: TooLong(page) \/ (page # <<>> /\ Rejected(page))
    /\ members' = <<>>
    /\ UNCHANGED <<group, read, result, present, stayed, left>>

\* Any page that does not pass ends the reading.
RefusePage ==
    /\ read = "pages"
    /\ \E page \in Pages: TooLong(page) \/ (page # <<>> /\ Rejected(page))
    /\ Return("error")
    /\ UNCHANGED <<group, members, present, stayed, left>>

\* The request fails, or is answered by another status or something that is no member list.
PageFails ==
    /\ read = "pages" /\ Return("error")
    /\ UNCHANGED <<group, members, present, stayed, left>>

-----------------------------------------------------------------------------
(* The realm's administrators *)

\* A join falls anywhere in the list; the others keep their order.
Joins(u) ==
    /\ u \notin Range(group)
    /\ \E at \in 1..(Len(group) + 1): group' = InsertAt(group, at, u)
    /\ present' = IF read = "pages" THEN present \cup {u} ELSE present
    /\ UNCHANGED <<read, members, result, stayed, left>>

Leaves(u) ==
    /\ \E at \in DOMAIN group: group[at] = u /\ group' = RemoveAt(group, at)
    /\ stayed' = stayed \ {u}
    /\ left' = (left \/ read = "pages")
    /\ UNCHANGED <<read, members, result, present>>

Changes == read # "done" /\ \E u \in Users: Joins(u) \/ Leaves(u)

Answered == TokenLands \/ TokenFails \/ LastPage \/ NextPage \/ RefusePage \/ PageFails

\* The reading has returned: nothing is left to do.
Returned == read = "done" /\ UNCHANGED groupVars

Next == Begin \/ Refuse \/ Answered \/ Changes \/ Returned

\* The transport's deadline ends every request: each is answered or fails.
Fairness == WF_groupVars(Answered)

Spec == Init /\ [][Next]_groupVars /\ Fairness

-----------------------------------------------------------------------------
(* Properties *)

\* "invalid or repeated group member", "group member limit exceeded": whatever Keycloak lists,
\* what is read has everyone once, no blank entry, and no more than MAX_MEMBERS entries.
WellFormed ==
    /\ IsInjective(members)
    /\ Range(members) \cap Blank = {}
    /\ Len(members) <= MaxMembers

\* Only the group's own members are read: each was in it while its pages were read.
ReadWerePresent == Range(members) \subseteq present

\* Reading on to an empty page: a complete result misses someone who was in the group all the
\* time only if someone else left meanwhile and moved that member to a page already read.
MissedOnlyIfOneLeft ==
    (result = "members" /\ ~left) => stayed \subseteq Range(members)

\* What is returned is the group, as far as paging by offset can tell: nobody from outside, and
\* everyone who stayed unless somebody left.
ResultIsTheGroup == ReadWerePresent /\ MissedOnlyIfOneLeft

\* Paging ends however the group changes: every page that passes adds a member, and there are
\* no more than MAX_MEMBERS of them.
ReadEnds == read = "token" ~> read = "done"
=============================================================================
