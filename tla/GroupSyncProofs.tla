--------------------------- MODULE GroupSyncProofs ---------------------------
(***************************************************************************)
(* For every set of users, page size and member limit, and for every change *)
(* of the group while it is read: the members read are distinct, named, in  *)
(* the group and within the limit, and none who stayed is missed unless     *)
(* someone left.  The command asks for them with files of root's own and    *)
(* prints nothing but such a list.                                          *)
(***************************************************************************)
EXTENDS SyncUsers, FiniteSetTheorems, SequenceTheorems, TLAPS

-----------------------------------------------------------------------------
(* Pages and lists *)

\* The members from an offset on: those a reading that has come so far has not read.
From(s, first) == {s[i]: i \in (first + 1)..Len(s)}

\* A page holds what the group lists from the offset on, and an empty page means that the
\* group lists nothing there.
LEMMA PageContents ==
    ASSUME NEW first \in Nat, NEW n \in 1..(PageSize + 1), group \in Seq(Users)
    PROVE  LET page == PageAt(first, n) IN
           /\ page \in Seq(Users)
           /\ Range(page) \subseteq Range(group)
           /\ From(group, first) \subseteq Range(page) \cup From(group, first + Len(page))
           /\ page = <<>> => From(group, first) = {}
<1> DEFINE last == IF first + n < Len(group) THEN first + n ELSE Len(group)
           page == PageAt(first, n)
<1>1. n \in Nat /\ n >= 1 /\ Len(group) \in Nat /\ last \in Nat /\ last <= Len(group)
  BY GroupSyncAssumption
<1>2. \A i \in (first + 1)..last: group[i] \in Users
  BY <1>1
<1>3. /\ page \in Seq(Users)
      /\ Len(page) = IF first + 1 <= last THEN last - first ELSE 0
      /\ \A i \in 1..(last - first): page[i] = group[first + i]
  <2> DEFINE from == first + 1
  <2>0. from \in Nat /\ page = SubSeq(group, from, last)
    BY <1>1 DEF PageAt
  <2> HIDE DEF page, last
  <2>1. \A i \in from..last: group[i] \in Users
    BY <1>2
  <2> HIDE DEF from
  <2>2. /\ page \in Seq(Users)
        /\ Len(page) = IF from <= last THEN last - from + 1 ELSE 0
        /\ \A i \in 1..(last - from + 1): page[i] = group[from + i - 1]
    BY <1>1, <2>0, <2>1, SubSeqProperties
  <2>3. /\ from = first + 1 /\ last - from + 1 = last - first
        /\ \A i \in Int: from + i - 1 = first + i
    BY <1>1 DEF from
  <2>4. Len(page) = IF first + 1 <= last THEN last - first ELSE 0
    BY <2>2, <2>3
  <2>5. ASSUME NEW i \in 1..(last - first) PROVE page[i] = group[first + i]
    BY <2>2, <2>3
  <2> QED
    BY <2>2, <2>4, <2>5
<1> HIDE DEF page
<1>4. Range(page) \subseteq Range(group)
  BY <1>1, <1>3 DEF Range
<1>5. ASSUME NEW i \in (first + 1)..Len(group)
      PROVE  group[i] \in Range(page) \/ i \in (first + Len(page) + 1)..Len(group)
  <2>1. CASE i <= last
    <3>1. i - first \in 1..(last - first) /\ i - first \in 1..Len(page)
      BY <1>1, <1>3, <2>1
    <3>2. page[i - first] = group[i]
      BY <1>1, <1>3, <3>1
    <3> QED
      BY <1>3, <3>1, <3>2 DEF Range
  <2>2. CASE i > last
    BY <1>1, <1>3, <2>2
  <2> QED
    BY <1>1, <2>1, <2>2
<1>6. page = <<>> => From(group, first) = {}
  <2> SUFFICES ASSUME page = <<>> PROVE From(group, first) = {}
    OBVIOUS
  <2>1. Len(page) = 0
    OBVIOUS
  <2>2. Len(group) <= first
    BY <1>1, <1>3, <2>1
  <2> QED
    BY <1>1, <2>2 DEF From
<1> QED
  BY <1>3, <1>4, <1>5, <1>6 DEF From, page

\* A join leaves everyone in the list, and moves those behind an offset only further back.
LEMMA JoinMovesBack ==
    ASSUME NEW s \in Seq(Users), NEW u \in Users, NEW at \in 1..(Len(s) + 1),
           NEW first \in Nat, IsInjective(s), u \notin Range(s)
    PROVE  LET t == InsertAt(s, at, u) IN
           /\ t \in Seq(Users) /\ IsInjective(t)
           /\ Range(t) = Range(s) \cup {u}
           /\ From(s, first) \subseteq From(t, first)
<1> DEFINE t == InsertAt(s, at, u)
           head == SubSeq(s, 1, at - 1)
           tail == SubSeq(s, at, Len(s))
<1>1. Len(s) \in Nat /\ at \in Nat /\ at >= 1 /\ at <= Len(s) + 1
  OBVIOUS
<1>2. /\ head \in Seq(Users) /\ Len(head) = at - 1
      /\ \A i \in 1..(at - 1): head[i] = s[i]
  <2>1. \A i \in 1..(at - 1): s[i] \in Users
    BY <1>1
  <2>2. /\ head \in Seq(Users)
        /\ Len(head) = IF 1 <= at - 1 THEN (at - 1) - 1 + 1 ELSE 0
        /\ \A i \in 1..((at - 1) - 1 + 1): head[i] = s[1 + i - 1]
    BY <1>1, <2>1, SubSeqProperties
  <2> QED
    BY <1>1, <2>2
<1>3. /\ tail \in Seq(Users) /\ Len(tail) = Len(s) - at + 1
      /\ \A i \in 1..(Len(s) - at + 1): tail[i] = s[at + i - 1]
  <2>1. \A i \in at..Len(s): s[i] \in Users
    BY <1>1
  <2>2. /\ tail \in Seq(Users)
        /\ Len(tail) = IF at <= Len(s) THEN Len(s) - at + 1 ELSE 0
        /\ \A i \in 1..(Len(s) - at + 1): tail[i] = s[at + i - 1]
    BY <1>1, <2>1, SubSeqProperties
  <2> QED
    BY <1>1, <2>2
<1>4. t = (head \o <<u>>) \o tail
  BY DEF InsertAt
<1> HIDE DEF head, tail, t
<1>5. /\ head \o <<u>> \in Seq(Users) /\ Len(head \o <<u>>) = at
      /\ \A i \in 1..at: (head \o <<u>>)[i] = IF i < at THEN s[i] ELSE u
  BY <1>1, <1>2
<1>6. /\ t \in Seq(Users) /\ Len(t) = Len(s) + 1
      /\ \A i \in 1..(Len(s) + 1):
             t[i] = IF i < at THEN s[i] ELSE IF i = at THEN u ELSE s[i - 1]
  <2> DEFINE h == head \o <<u>>
  <2> HIDE DEF h
  <2>1. h \in Seq(Users) /\ Len(h) = at /\ t = h \o tail
    BY <1>4, <1>5 DEF h
  <2>2. /\ t \in Seq(Users) /\ Len(t) = Len(h) + Len(tail)
        /\ \A i \in 1..(Len(h) + Len(tail)):
               t[i] = IF i <= Len(h) THEN h[i] ELSE tail[i - Len(h)]
    BY <1>3, <2>1, ConcatProperties
  <2>3. Len(h) + Len(tail) = Len(s) + 1
    BY <1>1, <1>3, <2>1
  <2>4. ASSUME NEW i \in 1..(Len(s) + 1)
        PROVE  t[i] = IF i < at THEN s[i] ELSE IF i = at THEN u ELSE s[i - 1]
    <3>1. CASE i <= at
      <4>1. t[i] = h[i]
        BY <1>1, <2>1, <2>2, <2>3, <3>1
      <4>2. h[i] = IF i < at THEN s[i] ELSE u
        BY <1>1, <1>5, <3>1 DEF h
      <4> QED
        BY <1>1, <3>1, <4>1, <4>2
    <3>2. CASE i > at
      <4>1. i - at \in 1..(Len(s) - at + 1) /\ at + (i - at) - 1 = i - 1
        BY <1>1, <3>2
      <4>2. t[i] = tail[i - at]
        BY <1>1, <2>1, <2>2, <2>3, <3>2
      <4> QED
        BY <1>1, <1>3, <3>2, <4>1, <4>2
    <3> QED
      BY <1>1, <3>1, <3>2
  <2> QED
    BY <2>2, <2>3, <2>4
<1>7. \A i \in 1..Len(s): s[i] # u
  BY DEF Range
<1>8. IsInjective(t)
  <2>1. \A i, j \in 1..Len(s): s[i] = s[j] => i = j
    BY DEF IsInjective
  <2> SUFFICES ASSUME NEW i \in 1..(Len(s) + 1), NEW j \in 1..(Len(s) + 1), t[i] = t[j]
               PROVE  i = j
    BY <1>6 DEF IsInjective
  <2>2. i = at <=> j = at
    <3> DEFINE IsNew(k) == t[k] = u <=> k = at
    <3>1. ASSUME NEW k \in 1..(Len(s) + 1) PROVE IsNew(k)
      <4>1. CASE k < at
        BY <1>1, <1>6, <1>7, <4>1
      <4>2. CASE k > at
        <5>1. k - 1 \in 1..Len(s) /\ t[k] = s[k - 1]
          BY <1>1, <1>6, <4>2
        <5> QED
          BY <1>7, <4>2, <5>1
      <4> QED
        BY <1>1, <1>6, <4>1, <4>2
    <3> QED
      BY <3>1
  <2>3. CASE i # at
    <3> DEFINE Old(k) == IF k < at THEN k ELSE k - 1
    <3>1. Old(i) \in 1..Len(s) /\ Old(j) \in 1..Len(s)
      BY <1>1, <2>2, <2>3
    <3>2. s[Old(i)] = s[Old(j)]
      BY <1>1, <1>6, <2>2, <2>3
    <3>3. Old(i) = Old(j)
      BY <2>1, <3>1, <3>2
    <3> QED
      BY <1>1, <2>2, <2>3, <3>3
  <2> QED
    BY <2>2, <2>3
<1>9. \A i \in 1..Len(s): \E j \in 1..Len(t): j >= i /\ t[j] = s[i]
  <2> SUFFICES ASSUME NEW i \in 1..Len(s) PROVE \E j \in 1..Len(t): j >= i /\ t[j] = s[i]
    OBVIOUS
  <2>1. CASE i < at
    BY <1>1, <1>6, <2>1
  <2>2. CASE i >= at
    <3>1. i + 1 \in 1..Len(t) /\ t[i + 1] = s[i] /\ i + 1 >= i
      BY <1>1, <1>6, <2>2
    <3> QED
      BY <3>1
  <2> QED
    BY <1>1, <2>1, <2>2
<1>10. Range(t) = Range(s) \cup {u}
  <2> DEFINE All == Range(s) \cup {u}
  <2>0. \A j \in 1..Len(s): s[j] \in All
    BY DEF Range
  <2>1. ASSUME NEW i \in 1..Len(t) PROVE t[i] \in All
    <3> HIDE DEF All
    <3>1. CASE i < at
      <4>1. i \in 1..Len(s) /\ t[i] = s[i]
        BY <1>1, <1>6, <3>1
      <4> QED
        BY <2>0, <4>1
    <3>2. CASE i = at
      <4>1. t[i] = u
        BY <1>1, <1>6, <3>2
      <4> QED
        BY <4>1 DEF All
    <3>3. CASE i > at
      <4>1. i - 1 \in 1..Len(s) /\ t[i] = s[i - 1]
        BY <1>1, <1>6, <3>3
      <4> QED
        BY <2>0, <4>1
    <3> QED
      BY <1>1, <1>6, <3>1, <3>2, <3>3
  <2>2. u \in Range(t)
    <3>1. at \in 1..Len(t) /\ t[at] = u
      BY <1>1, <1>6
    <3> QED
      BY <3>1 DEF Range
  <2>3. DOMAIN t = 1..Len(t)
    BY <1>6
  <2>4. \A i \in 1..Len(s): s[i] \in Range(t)
    BY <1>9, <2>3 DEF Range
  <2> QED
    BY <2>1, <2>2, <2>3, <2>4 DEF Range
<1>11. From(s, first) \subseteq From(t, first)
  <2> SUFFICES ASSUME NEW i \in (first + 1)..Len(s) PROVE s[i] \in From(t, first)
    BY DEF From
  <2>1. PICK j \in 1..Len(t): j >= i /\ t[j] = s[i]
    BY <1>9
  <2>2. j \in (first + 1)..Len(t)
    BY <1>1, <1>6, <2>1
  <2> QED
    BY <2>1, <2>2 DEF From
<1> QED
  BY <1>6, <1>8, <1>10, <1>11 DEF t

\* Someone leaving keeps the others in the list, each once.
LEMMA LeaveKeepsOthers ==
    ASSUME NEW s \in Seq(Users), NEW at \in DOMAIN s, IsInjective(s)
    PROVE  LET t == RemoveAt(s, at) IN
           t \in Seq(Users) /\ IsInjective(t) /\ Range(t) \subseteq Range(s)
<1> DEFINE t == RemoveAt(s, at)
           head == SubSeq(s, 1, at - 1)
           tail == SubSeq(s, at + 1, Len(s))
<1>1. Len(s) \in Nat /\ at \in Nat /\ at >= 1 /\ at <= Len(s)
  OBVIOUS
<1>2. /\ head \in Seq(Users) /\ Len(head) = at - 1
      /\ \A i \in 1..(at - 1): head[i] = s[i]
  <2>1. \A i \in 1..(at - 1): s[i] \in Users
    BY <1>1
  <2>2. /\ head \in Seq(Users)
        /\ Len(head) = IF 1 <= at - 1 THEN (at - 1) - 1 + 1 ELSE 0
        /\ \A i \in 1..((at - 1) - 1 + 1): head[i] = s[1 + i - 1]
    BY <1>1, <2>1, SubSeqProperties
  <2> QED
    BY <1>1, <2>2
<1>3. /\ tail \in Seq(Users) /\ Len(tail) = Len(s) - at
      /\ \A i \in 1..(Len(s) - at): tail[i] = s[at + i]
  <2>1. \A i \in (at + 1)..Len(s): s[i] \in Users
    BY <1>1
  <2>2. /\ tail \in Seq(Users)
        /\ Len(tail) = IF at + 1 <= Len(s) THEN Len(s) - (at + 1) + 1 ELSE 0
        /\ \A i \in 1..(Len(s) - (at + 1) + 1): tail[i] = s[(at + 1) + i - 1]
    BY <1>1, <2>1, SubSeqProperties
  <2> QED
    BY <1>1, <2>2
<1>4. t = head \o tail
  BY DEF RemoveAt
<1> HIDE DEF head, tail, t
<1>5. /\ t \in Seq(Users) /\ Len(t) = Len(head) + Len(tail)
      /\ \A i \in 1..(Len(head) + Len(tail)):
             t[i] = IF i <= Len(head) THEN head[i] ELSE tail[i - Len(head)]
  BY <1>2, <1>3, <1>4, ConcatProperties
<1> DEFINE Before(i) == IF i < at THEN i ELSE i + 1
<1>6. Len(t) = Len(s) - 1
  BY <1>1, <1>2, <1>3, <1>5
<1>7. ASSUME NEW i \in 1..Len(t) PROVE Before(i) \in 1..Len(s) /\ t[i] = s[Before(i)]
  <2>1. CASE i < at
    BY <1>1, <1>2, <1>3, <1>5, <1>6, <2>1
  <2>2. CASE i >= at
    <3>1. i - (at - 1) \in 1..(Len(s) - at) /\ at + (i - (at - 1)) = i + 1
      BY <1>1, <1>6, <2>2
    <3>2. t[i] = tail[i - (at - 1)]
      BY <1>1, <1>2, <1>3, <1>5, <1>6, <2>2
    <3> QED
      BY <1>1, <1>3, <1>6, <2>2, <3>1, <3>2
  <2> QED
    BY <1>1, <1>6, <2>1, <2>2
<1>8. \A i, j \in 1..Len(s): s[i] = s[j] => i = j
  BY DEF IsInjective
<1>9. IsInjective(t)
  <2> SUFFICES ASSUME NEW i \in 1..Len(t), NEW j \in 1..Len(t), t[i] = t[j] PROVE i = j
    BY <1>5 DEF IsInjective
  <2>1. Before(i) = Before(j)
    BY <1>7, <1>8
  <2> QED
    BY <1>1, <1>6, <2>1
<1>10. Range(t) \subseteq Range(s)
  <2>1. DOMAIN t = 1..Len(t) /\ DOMAIN s = 1..Len(s)
    BY <1>5
  <2> QED
    BY <1>7, <2>1 DEF Range
<1> QED
  BY <1>5, <1>9, <1>10 DEF t

-----------------------------------------------------------------------------
(* The inductive invariant *)

\* While pages are read, everyone listed is present, and who stayed was either read or is
\* still listed behind the offset of the next page.
PagesCover ==
    read = "pages" =>
        /\ Range(group) \subseteq present
        /\ ~left => stayed \subseteq Range(members) \cup From(group, Len(members))

\* Nothing is read before the first page, and nothing returned before the end.
Stages ==
    /\ read \in {"idle", "token"} => members = <<>>
    /\ read # "done" => result = "none"

ReadInv ==
    /\ TypeOK /\ WellFormed /\ ReadWerePresent /\ Stages /\ PagesCover /\ MissedOnlyIfOneLeft

\* A reading starts with nothing read, of any group.
LEMMA InitRead == Init => ReadInv
<1> SUFFICES ASSUME Init PROVE ReadInv
  OBVIOUS
<1>1. group \in Seq(Users) /\ IsInjective(group)
  <2>1. PICK n \in 0..Cardinality(Users): group \in [1..n -> Users]
    BY DEF Init, Groups, BoundedSeq, SeqOf
  <2>2. Cardinality(Users) \in Nat
    BY FS_CardinalityType, GroupSyncAssumption
  <2> QED
    BY <2>1, <2>2 DEF Init, Groups
<1>2. TypeOK
  <2>1. members \in Seq(Users)
    BY DEF Init
  <2>2. left \in BOOLEAN /\ present \subseteq Users /\ stayed \subseteq Users
    BY DEF Init
  <2>3. read \in {"idle", "token", "pages", "done"} /\ result \in {"none", "members", "error"}
    BY DEF Init
  <2> QED
    BY <1>1, <2>1, <2>2, <2>3 DEF TypeOK
<1>3. WellFormed /\ ReadWerePresent
  BY GroupSyncAssumption DEF Init, WellFormed, ReadWerePresent, Range, IsInjective
<1> QED
  BY <1>2, <1>3 DEF Init, ReadInv, Stages, PagesCover, MissedOnlyIfOneLeft

\* A page that passes adds distinct, named members, and covers the list up to the next offset.
LEMMA NextPageKeeps == ReadInv /\ NextPage => ReadInv'
<1> SUFFICES ASSUME ReadInv, NextPage PROVE ReadInv'
  OBVIOUS
<1> USE DEF ReadInv, TypeOK
<1>1. PICK n \in 1..(PageSize + 1):
         LET page == PageAt(Len(members), n) IN
         page # <<>> /\ ~TooLong(page) /\ ~Rejected(page) /\ members' = members \o page
  BY DEF NextPage, Pages
<1> DEFINE page == PageAt(Len(members), n)
<1>2. /\ page \in Seq(Users)
      /\ Range(page) \subseteq Range(group)
      /\ From(group, Len(members)) \subseteq
             Range(page) \cup From(group, Len(members) + Len(page))
  BY PageContents
<1>3. ~TooLong(page) /\ ~Rejected(page) /\ members' = members \o page
  BY <1>1
<1>4. /\ read = "pages" /\ read' = "pages" /\ result' = result /\ group' = group
      /\ present' = present /\ stayed' = stayed /\ left' = left
  BY DEF NextPage
<1> HIDE DEF page
<1>5. /\ members' \in Seq(Users) /\ Len(members') = Len(members) + Len(page)
      /\ Range(members') = Range(members) \cup Range(page)
  BY <1>2, <1>3, ConcatProperties, RangeConcatenation
<1>6. TypeOK'
  BY <1>4, <1>5
<1>7. WellFormed'
  <2>1. IsInjective(members') /\ Range(page) \cap Blank = {}
    BY <1>3 DEF Rejected
  <2>2. ~(Len(members) + Len(page) > MaxMembers)
    BY <1>3 DEF TooLong
  <2>3. Len(members) + Len(page) <= MaxMembers
    BY <1>2, <2>2, GroupSyncAssumption
  <2>4. (Range(members) \cup Range(page)) \cap Blank = {}
    BY <2>1 DEF WellFormed
  <2> QED
    BY <1>5, <2>1, <2>3, <2>4 DEF WellFormed
<1>8. ReadWerePresent' /\ PagesCover'
  <2>1. Range(members') \subseteq present
    BY <1>2, <1>4, <1>5 DEF ReadWerePresent, PagesCover
  <2>2. ~left => stayed \subseteq Range(members') \cup From(group, Len(members'))
    BY <1>2, <1>4, <1>5 DEF PagesCover
  <2> QED
    BY <1>4, <2>1, <2>2 DEF ReadWerePresent, PagesCover, From
<1>9. Stages' /\ MissedOnlyIfOneLeft'
  BY <1>4 DEF Stages, MissedOnlyIfOneLeft
<1> QED
  BY <1>6, <1>7, <1>8, <1>9

\* The empty page comes when nothing is listed behind the offset, so nobody is still to come.
LEMMA LastPageKeeps == ReadInv /\ LastPage => ReadInv'
<1> SUFFICES ASSUME ReadInv, LastPage PROVE ReadInv'
  OBVIOUS
<1> USE DEF ReadInv, TypeOK
<1>1. /\ read = "pages" /\ read' = "done" /\ result' = "members"
      /\ UNCHANGED <<group, members, present, stayed, left>>
  BY DEF LastPage, Return
<1>2. From(group, Len(members)) = {}
  <2>1. PICK n \in 1..(PageSize + 1): PageAt(Len(members), n) = <<>>
    BY DEF LastPage, Pages
  <2> QED
    BY <2>1, PageContents
<1>3. MissedOnlyIfOneLeft'
  BY <1>1, <1>2 DEF MissedOnlyIfOneLeft, PagesCover
<1> QED
  BY <1>1, <1>3 DEF WellFormed, ReadWerePresent, Stages, PagesCover

\* A join keeps everyone listed behind the offset behind it.
LEMMA JoinKeeps == ASSUME NEW u \in Users, ReadInv, read # "done", Joins(u) PROVE ReadInv'
<1> USE DEF ReadInv, TypeOK
<1>1. PICK at \in 1..(Len(group) + 1): group' = InsertAt(group, at, u)
  BY DEF Joins
<1>2. /\ group' \in Seq(Users) /\ IsInjective(group')
      /\ Range(group') = Range(group) \cup {u}
      /\ From(group, Len(members)) \subseteq From(group', Len(members))
  BY <1>1, JoinMovesBack DEF Joins
<1>3. /\ UNCHANGED <<read, members, result, stayed, left>>
      /\ present' = IF read = "pages" THEN present \cup {u} ELSE present
  BY DEF Joins
<1>4. TypeOK'
  BY <1>2, <1>3
<1>5. WellFormed' /\ Stages' /\ MissedOnlyIfOneLeft'
  BY <1>3 DEF WellFormed, Stages, MissedOnlyIfOneLeft
<1>6. ReadWerePresent'
  BY <1>3 DEF ReadWerePresent
<1>7. PagesCover'
  <2> SUFFICES ASSUME read = "pages" PROVE PagesCover'
    BY <1>3 DEF PagesCover
  <2>1. Range(group') \subseteq present'
    BY <1>2, <1>3 DEF PagesCover
  <2>2. ~left => stayed \subseteq Range(members) \cup From(group', Len(members))
    BY <1>2 DEF PagesCover
  <2> QED
    BY <1>3, <2>1, <2>2 DEF PagesCover, From
<1> QED
  BY <1>4, <1>5, <1>6, <1>7

\* Someone leaving while pages are read takes the claim about those who stayed with them.
LEMMA LeaveKeeps == ASSUME NEW u \in Users, ReadInv, read # "done", Leaves(u) PROVE ReadInv'
<1> USE DEF ReadInv, TypeOK
<1>1. PICK at \in DOMAIN group: group' = RemoveAt(group, at)
  BY DEF Leaves
<1>2. /\ group' \in Seq(Users) /\ IsInjective(group')
      /\ Range(group') \subseteq Range(group)
  BY <1>1, LeaveKeepsOthers
<1>3. /\ UNCHANGED <<read, members, result, present>>
      /\ stayed' = stayed \ {u} /\ left' = (left \/ read = "pages")
  BY DEF Leaves
<1>4. left' \in BOOLEAN
  BY <1>3, Zenon
<1>5. TypeOK'
  BY <1>2, <1>3, <1>4
<1>6. WellFormed' /\ ReadWerePresent' /\ Stages'
  BY <1>3 DEF WellFormed, ReadWerePresent, Stages
<1>7. PagesCover'
  BY <1>2, <1>3 DEF PagesCover
<1>8. MissedOnlyIfOneLeft'
  BY <1>3 DEF MissedOnlyIfOneLeft, Stages
<1> QED
  BY <1>5, <1>6, <1>7, <1>8

-----------------------------------------------------------------------------
(* Theorems *)

\* Every step keeps the invariant.
LEMMA StepRead == ReadInv /\ [Next]_groupVars => ReadInv'
<1> SUFFICES ASSUME ReadInv, [Next]_groupVars PROVE ReadInv'
  OBVIOUS
<1>1. CASE Begin \/ Refuse \/ TokenFails
  BY <1>1 DEF ReadInv, TypeOK, WellFormed, ReadWerePresent, Stages, PagesCover,
              MissedOnlyIfOneLeft, Begin, Refuse, TokenFails, Return
<1>2. CASE TokenLands
  <2> USE DEF ReadInv, TypeOK
  <2>1. /\ read = "token" /\ read' = "pages" /\ present' = Range(group) /\ stayed' = Range(group)
        /\ UNCHANGED <<group, members, result, left>>
    BY <1>2 DEF TokenLands
  <2>2. members = <<>> /\ result = "none"
    BY <2>1 DEF Stages
  <2>3. Range(group) \subseteq Users
    BY RangeOfSeq
  <2>4. Range(members) = {} /\ Len(members) = 0
    BY <2>2 DEF Range
  <2>5. Range(group) = From(group, 0)
    BY DEF Range, From
  <2>6. TypeOK' /\ WellFormed' /\ ReadWerePresent'
    BY <2>1, <2>3, <2>4 DEF WellFormed, ReadWerePresent
  <2>7. Stages' /\ MissedOnlyIfOneLeft'
    BY <2>1, <2>2 DEF Stages, MissedOnlyIfOneLeft
  <2>8. PagesCover'
    BY <2>1, <2>4, <2>5 DEF PagesCover, From
  <2> QED
    BY <2>6, <2>7, <2>8
<1>3. CASE LastPage
  BY <1>3, LastPageKeeps
<1>4. CASE NextPage
  BY <1>4, NextPageKeeps
<1>5. CASE RefusePage \/ PageFails
  BY <1>5 DEF ReadInv, TypeOK, WellFormed, ReadWerePresent, Stages, PagesCover,
              MissedOnlyIfOneLeft, RefusePage, PageFails, Return
<1>6. CASE Changes
  BY <1>6, JoinKeeps, LeaveKeeps DEF Changes
<1>7. CASE Returned \/ UNCHANGED groupVars
  BY <1>7 DEF Returned, groupVars, ReadInv, TypeOK, WellFormed, ReadWerePresent, Stages,
              PagesCover, From, MissedOnlyIfOneLeft
<1> QED
  BY <1>1, <1>2, <1>3, <1>4, <1>5, <1>6, <1>7 DEF Next, Answered

\* The inductive invariant holds of every behaviour.
THEOREM ReadInvariant == Spec => []ReadInv
  BY InitRead, StepRead, PTL DEF Spec

\* What is read is well formed, whatever Keycloak lists.
THEOREM ReadWellFormed == Spec => []WellFormed
<1>1. ReadInv => WellFormed
  BY DEF ReadInv
<1> QED
  BY ReadInvariant, <1>1, PTL

\* Only people who were in the group while it was read are read, and reading on to an empty
\* page misses nobody who stayed, unless someone left meanwhile.
THEOREM ReadTheGroup == Spec => []ResultIsTheGroup
<1>1. ReadInv => ResultIsTheGroup
  BY DEF ReadInv, ResultIsTheGroup
<1> QED
  BY ReadInvariant, <1>1, PTL

-----------------------------------------------------------------------------
(* The command *)

\* What the metadata of an opened file showed; none of it changes while the command runs.
Inspected(f) == file[f].kind = "regular" /\ file[f].owner = "root" /\ Permitted(f)

\* The files taken over so far: the one in hand once it is inspected, the configuration once the
\* secret is in hand, both once the group is asked for.
FilesHeld ==
    /\ read # "idle" => stage \in {"group", "done"}
    /\ stage = "read" => Inspected(which)
    /\ which = "secret" => Inspected("config") /\ used["config"] <= Limit("config")
    /\ (stage = "group" \/ read # "idle") =>
           /\ which = "secret"
           /\ Inspected("secret") /\ used["secret"] <= Limit("secret") /\ used["secret"] > 0

\* What is printed was printed last, and is what the reading returned.
PrintedLast ==
    printed # {} => stage = "done" /\ result = "members" /\ printed = {members}

RunInv == ReadInv /\ RunTypeOK /\ FilesHeld /\ PrintedLast

\* The command starts with nothing read and nothing printed.
LEMMA InitRun == RunInit => RunInv
<1> SUFFICES ASSUME RunInit PROVE RunInv
  OBVIOUS
<1>1. ReadInv /\ TypeOK
  BY InitRead DEF RunInit, ReadInv
<1>2. used \in [Files -> 0..MaxSize]
  BY SyncUsersAssumption DEF RunInit
<1> QED
  BY <1>1, <1>2 DEF RunInit, Init, RunInv, RunTypeOK, FilesHeld, PrintedLast, Files

\* The reading's steps, and the group's changes under it, are steps of GroupSync or leave it
\* alone: the command implements a reading.
LEMMA RunReads == RunInv /\ [RunNext]_vars => [Next]_groupVars
<1> SUFFICES ASSUME RunInv, [RunNext]_vars PROVE [Next]_groupVars
  OBVIOUS
<1>1. CASE ReadGroup \/ GroupChanges
  BY <1>1 DEF ReadGroup, GroupChanges, Next
<1>2. CASE RequireRoot \/ Open \/ Inspect \/ ReadFile \/ Fails \/ PrintMembers \/ Grows
  BY <1>2 DEF RequireRoot, Open, Inspect, ReadFile, Fails, PrintMembers, Grows, groupVars
<1>3. CASE Ended \/ UNCHANGED vars
  BY <1>3 DEF Ended, vars, groupVars
<1> QED
  BY <1>1, <1>2, <1>3 DEF RunNext, Run

\* A file in hand that grows keeps its kind, owner and permissions.
LEMMA GrowthKeeps ==
    ASSUME RunTypeOK, Grows
    PROVE  /\ file' \in [Files -> FileStates]
           /\ \A f \in Files: Inspected(f) => Inspected(f)'
<1>1. /\ which \in Files /\ file \in [Files -> FileStates]
      /\ file' = [file EXCEPT ![which].size = @ + 1] /\ file[which].size < MaxSize
  BY DEF RunTypeOK, Grows
<1>2. file[which].size + 1 \in 0..MaxSize
  BY <1>1, SyncUsersAssumption DEF FileStates
<1>3. file' \in [Files -> FileStates]
  BY <1>1, <1>2 DEF FileStates
<1>4. ASSUME NEW f \in Files
      PROVE  /\ file'[f].kind = file[f].kind /\ file'[f].owner = file[f].owner
             /\ file'[f].mode = file[f].mode
  BY <1>1 DEF FileStates
<1> QED
  BY <1>3, <1>4 DEF Inspected, Permitted

\* Each step of the command keeps what it holds and what it printed.
LEMMA StepRun == RunInv /\ [RunNext]_vars => RunInv'
<1> SUFFICES ASSUME RunInv, [RunNext]_vars PROVE RunInv'
  OBVIOUS
<1>0. ReadInv' /\ TypeOK'
  BY RunReads, StepRead DEF RunInv, ReadInv
<1> SUFFICES RunTypeOK' /\ FilesHeld' /\ PrintedLast'
  BY <1>0 DEF RunInv
<1> USE DEF RunInv, RunTypeOK, Files
<1>1. CASE RequireRoot \/ Open \/ Inspect \/ Fails
  <2>1. /\ UNCHANGED <<group, read, members, result, present, stayed, left>>
        /\ UNCHANGED <<which, file, used, printed>>
        /\ stage' \in {"open", "inspect", "read", "done"} /\ read = "idle" /\ printed = {}
        /\ stage' = "read" => Inspected(which)
    BY <1>1 DEF RequireRoot, Open, Inspect, Fails, groupVars, FilesHeld, PrintedLast, Inspected
  <2> QED
    BY <1>0, <2>1 DEF FilesHeld, PrintedLast, Inspected, Permitted, Limit
<1>2. CASE ReadFile
  <2>1. /\ UNCHANGED <<group, read, members, result, present, stayed, left>>
        /\ UNCHANGED <<file, printed>> /\ read = "idle" /\ printed = {}
        /\ Inspected(which) /\ file[which].size <= Limit(which)
        /\ used' = [used EXCEPT ![which] = file[which].size]
    BY <1>2 DEF ReadFile, groupVars, FilesHeld, PrintedLast
  <2>2. used' \in [Files -> 0..MaxSize] /\ used'[which] <= Limit(which)
    BY <2>1 DEF FileStates
  <2>3. CASE which = "config"
    BY <1>0, <1>2, <2>1, <2>2, <2>3 DEF ReadFile, FilesHeld, PrintedLast, Inspected, Permitted,
                                        Limit
  <2>4. CASE which = "secret"
    <3>1. used'["secret"] > 0 /\ used'["config"] = used["config"] /\ which' = "secret"
          /\ stage' = "group"
      BY <1>2, <2>1, <2>4 DEF ReadFile, FileStates
    <3> QED
      BY <1>0, <2>1, <2>2, <2>4, <3>1 DEF FilesHeld, PrintedLast, Inspected, Permitted, Limit
  <2> QED
    BY <2>3, <2>4
<1>3. CASE ReadGroup \/ GroupChanges
  <2>1. stage = "group" /\ UNCHANGED <<stage, which, file, used, printed>>
    BY <1>3 DEF ReadGroup, GroupChanges, runVars
  <2> QED
    BY <1>0, <2>1 DEF FilesHeld, PrintedLast, Inspected, Permitted, Limit
<1>4. CASE PrintMembers
  <2>1. /\ UNCHANGED <<group, read, members, result, present, stayed, left>>
        /\ UNCHANGED <<which, file, used>> /\ stage = "group" /\ stage' = "done"
        /\ printed = {}
        /\ printed' = IF result = "members" THEN {members} ELSE {}
    BY <1>4 DEF PrintMembers, groupVars, PrintedLast
  <2>2. members \in Seq(Users)
    BY DEF TypeOK
  <2> QED
    BY <1>0, <2>1, <2>2 DEF FilesHeld, PrintedLast, Inspected, Permitted, Limit
<1>5. CASE Grows
  <2>1. /\ UNCHANGED <<group, read, members, result, present, stayed, left>>
        /\ UNCHANGED <<stage, which, used, printed>> /\ stage \in {"open", "inspect", "read"}
    BY <1>5 DEF Grows, groupVars
  <2>2. file' \in [Files -> FileStates] /\ \A f \in Files: Inspected(f) => Inspected(f)'
    BY <1>5, GrowthKeeps
  <2>3. FilesHeld'
    BY <2>1, <2>2 DEF FilesHeld, Limit
  <2> QED
    BY <1>0, <2>1, <2>2, <2>3 DEF PrintedLast
<1>6. CASE Ended \/ UNCHANGED vars
  BY <1>0, <1>6 DEF Ended, vars, groupVars, runVars, FilesHeld, PrintedLast, Inspected, Permitted,
                    Limit
<1> QED
  BY <1>1, <1>2, <1>3, <1>4, <1>5, <1>6 DEF RunNext, Run

\* The command's inductive invariant holds of every behaviour.
THEOREM RunInvariant == RunSpec => []RunInv
  BY InitRun, StepRun, PTL DEF RunSpec

\* The command is a reading like any other: what holds of every reading holds of it.
THEOREM CommandIsReading == RunSpec => Spec
<1>1. RunInit => Init
  BY DEF RunInit
<1> QED
  BY RunInvariant, RunReads, <1>1, PTL DEF RunSpec, Spec

\* sync-users asks for the group only with files of root's own, within their limits.
THEOREM AlwaysAskedWithOwnFiles == RunSpec => []AskedWithOwnFiles
<1>1. RunInv => AskedWithOwnFiles
  BY DEF RunInv, RunTypeOK, FilesHeld, Inspected, Permitted, Files, AskedWithOwnFiles
<1> QED
  BY RunInvariant, <1>1, PTL

\* sync-users prints nothing but a complete, well-formed list of the group.
THEOREM OnlyCompletePrinted == RunSpec => []PrintedIsComplete
<1>1. RunInv => PrintedIsComplete
  BY DEF RunInv, ReadInv, PrintedLast, PrintedIsComplete, ResultIsTheGroup
<1> QED
  BY RunInvariant, <1>1, PTL

\* What the command reads is the group, as far as paging by offset can tell.
THEOREM RunReadsTheGroup == RunSpec => []ResultIsTheGroup
<1>1. RunInv => ResultIsTheGroup
  BY DEF RunInv, ReadInv, ResultIsTheGroup
<1> QED
  BY RunInvariant, <1>1, PTL
=============================================================================
