-------------------------- MODULE LoginFlowProofs --------------------------
(***************************************************************************)
(* The safety of a login for every set of clients, pages, challenges and    *)
(* answers, every factor and every bound on redirects.                      *)
(***************************************************************************)
EXTENDS LoginFlow, TLAPS

-----------------------------------------------------------------------------
(* Types *)

\* No token response is a token response that verifies nothing.
LEMMA NoTokenType == NoToken \in TokenReply
    BY DEF NoToken, TokenReply

\* MAX_REDIRECTS is a count.
LEMMA BoundType == MaxRedirects \in Nat
    BY LoginAssumption

\* A page that asks the challenges in asks, after those of all already answered.
LEMMA AskingPage ==
    ASSUME NEW k \in Kinds, NEW asks \in Seq(Challenges), asks # <<>>, NEW given \in Seq(Answers)
    PROVE  Asking(k, asks, given) \in Page
<1>1. Head(asks) \in Challenges /\ Tail(asks) \in Seq(Challenges)
    OBVIOUS
<1> QED
    BY <1>1 DEF Asking, Page

\* A page that has its remaining challenges still to ask asks them in order.
LEMMA AskingInOrder ==
    ASSUME NEW k \in Kinds, NEW asks \in Seq(Challenges), asks # <<>>, NEW given \in Seq(Answers),
           NEW all \in Seq(Challenges), Len(all) = Len(given) + Len(asks),
           \A j \in 1..Len(asks): asks[j] = all[Len(given) + j]
    PROVE  AskedSoFar(Asking(k, asks, given), all)
<1> DEFINE q == Asking(k, asks, given)
<1>1. q.answers = given /\ q.expect = Head(asks) /\ q.queue = Tail(asks)
    BY DEF Asking
<1>2. /\ Len(given) \in Nat /\ Len(asks) = 1 + Len(Tail(asks)) /\ Len(Tail(asks)) \in Nat
      /\ Head(asks) = asks[1]
      /\ \A j \in 1..Len(Tail(asks)): Tail(asks)[j] = asks[1 + j]
    OBVIOUS
<1> HIDE DEF q
<1>3. Len(all) = Len(q.answers) + 1 + Len(q.queue)
    BY <1>1, <1>2
<1>4. q.expect = all[Len(q.answers) + 1]
    BY <1>1, <1>2
<1>5. ASSUME NEW j \in 1..Len(q.queue) PROVE q.queue[j] = all[Len(q.answers) + 1 + j]
  <2>1. q.queue[j] = asks[1 + j] /\ 1 + j \in 1..Len(asks)
    BY <1>1, <1>2, <1>5
  <2>2. Len(q.answers) + 1 + j = Len(given) + (1 + j)
    BY <1>1, <1>2, <1>5
  <2> QED
    BY <2>1, <2>2
<1>6. AskedSoFar(q, all)
    BY <1>3, <1>4, <1>5 DEF AskedSoFar
<1> QED
    BY <1>6 DEF q

\* One more answer to the waiting challenge keeps the answers in order.
LEMMA AnsweredOneMore ==
    ASSUME NEW q \in Page, NEW asks \in Seq(Challenges), NEW a \in Answers, NEW n,
           n.answers = Append(q.answers, a),
           Answered(q, asks), AskedSoFar(q, asks), a \in Accepts[q.expect]
    PROVE  Answered(n, asks)
<1> DEFINE l == Len(q.answers)
<1>1. q.answers \in Seq(Answers) /\ q.queue \in Seq(Challenges)
    BY DEF Page
<1>2. /\ l \in Nat /\ Len(q.queue) \in Nat
      /\ Len(n.answers) = l + 1
      /\ \A i \in 1..l: n.answers[i] = q.answers[i]
      /\ n.answers[l + 1] = a
    BY <1>1
<1> HIDE DEF l
<1>3. /\ Len(asks) = l + 1 + Len(q.queue) /\ q.expect = asks[l + 1]
      /\ \A i \in 1..l: q.answers[i] \in Accepts[asks[i]]
    BY DEF AskedSoFar, Answered, l
<1>4. ASSUME NEW i \in 1..Len(n.answers) PROVE n.answers[i] \in Accepts[asks[i]]
  <2>1. CASE i = l + 1
    BY <1>2, <1>3, <2>1
  <2>2. CASE i # l + 1
    <3>1. i \in 1..l
      BY <1>2, <1>4, <2>2
    <3> QED
      BY <1>2, <1>3, <3>1
  <2> QED
    BY <2>1, <2>2
<1>5. Len(n.answers) <= Len(asks)
    BY <1>2, <1>3
<1> QED
    BY <1>4, <1>5 DEF Answered

\* Every factor asks a sequence of challenges (PageFactor::challenges).
LEMMA AsksType == \A k \in Kinds, h \in BOOLEAN: Asks[k][h] \in Seq(Challenges)
    BY LoginAssumption

\* The None of Option<Pending> is no page.
LEMMA NoPageType == \A q \in Page: q # NoPage
    BY LoginAssumption

\* A page answered with more to ask is a page still (answer_page).
LEMMA AskNextPage ==
    ASSUME ValuesOK, NEW c \in Clients, NEW a \in Answers, AskNext(c, a)
    PROVE  /\ pending \in Page /\ pending' \in Page
           /\ pending.kind \in Kinds /\ pending.queue \in Seq(Challenges) /\ pending.queue # <<>>
           /\ Append(pending.answers, a) \in Seq(Answers)
<1>1. pending \in Page /\ pending.queue # <<>>
    BY DEF AskNext, Answerable, ValuesOK
<1>2. /\ pending.kind \in Kinds /\ pending.queue \in Seq(Challenges)
      /\ Append(pending.answers, a) \in Seq(Answers)
    BY <1>1 DEF Page
<1> QED
    BY <1>1, <1>2, AskingPage DEF AskNext

\* The form posted is the page that waited, with its last answer (answer_page).
LEMMA PostedPage ==
    ASSUME ValuesOK, NEW c \in Clients, NEW a \in Answers, PostForm(c, a)
    PROVE  /\ pending \in Page /\ form' \in Page
           /\ form'.kind = pending.kind /\ form'.answers = Append(pending.answers, a)
<1>1. pending \in Page
    BY DEF PostForm, Answerable, ValuesOK
<1>2. Append(pending.answers, a) \in Seq(Answers)
    BY <1>1 DEF Page
<1> QED
    BY <1>1, <1>2 DEF PostForm, Page

\* A page presented asks at least one challenge (present).
LEMMA PresentedPage ==
    ASSUME hint \in BOOLEAN, NEW p \in PageReply, PresentPage(p)
    PROVE  LET asks == Asks[p.kind][hint]
           IN  /\ p.kind \in Kinds /\ asks \in Seq(Challenges) /\ asks # <<>>
               /\ pending' \in Page
<1>1. p.kind \in Kinds /\ Asks[p.kind][hint] \in Seq(Challenges) /\ Asks[p.kind][hint] # <<>>
    BY AsksType DEF PresentPage, Presentable, PageReply
<1>2. <<>> \in Seq(Answers)
    OBVIOUS
<1> QED
    BY <1>1, <1>2, AskingPage DEF PresentPage

\* Every step keeps the Boolean variables Boolean.
LEMMA FlagsPreserved == FlagsOK /\ [Next]_vars => FlagsOK'
<1> SUFFICES ASSUME FlagsOK, [Next]_vars PROVE FlagsOK'
    OBVIOUS
<1> USE DEF FlagsOK
<1>1. CASE Unwind
    BY <1>1 DEF Unwind, Fail, EndNow, End
<1>2. CASE DropStep
    BY <1>2 DEF DropStep, Fail, EndNow, End, Settle
<1>3. ASSUME NEW c \in Clients, NEW h \in BOOLEAN, Begin(c, h)
      PROVE  FlagsOK'
    BY <1>3 DEF Begin, FirstPage, GiveUp, Settle
<1>4. CASE Cancel \/ IsActive
    BY <1>4 DEF Cancel, IsActive, EndNow, End, flowVars, stepVars
<1>5. CASE DropFlow
    BY <1>5 DEF DropFlow
<1>6. ASSUME NEW c \in Clients, NEW a \in Answers, RefuseAnswer(c, a) \/ RefuseFields(c, a)
      PROVE  FlagsOK'
    BY <1>6 DEF RefuseAnswer, RefuseFields, GiveUp, Settle
<1>7. ASSUME NEW c \in Clients, NEW a \in Answers, AskNext(c, a)
      PROVE  FlagsOK'
    BY <1>7 DEF AskNext, Answerable, Return, Settle, Page
<1>8. ASSUME NEW c \in Clients, NEW a \in Answers, PostForm(c, a)
      PROVE  FlagsOK'
    BY <1>8 DEF PostForm, Answerable, Page
<1>9. CASE FetchFails \/ LandLate
    BY <1>9 DEF FetchFails, LandLate, Landing, GiveUp, Settle
<1>10. ASSUME NEW p \in PageReply, PageRejects(p) \/ RefusePage(p)
      PROVE  FlagsOK'
    BY <1>10 DEF PageRejects, RefusePage, Landing, GiveUp, Settle
<1>11. ASSUME NEW p \in PageReply, PresentPage(p)
      PROVE  FlagsOK'
    BY <1>11 DEF PresentPage, Landing, Return, Settle
<1>12. ASSUME NEW r \in RedirectReply, RefuseRedirect(r) \/ FollowRedirect(r) \/ RedeemCode(r)
      PROVE  FlagsOK'
    BY <1>12 DEF RefuseRedirect, FollowRedirect, RedeemCode, RefusedRedirect, Landing, GiveUp, Settle
<1>13. CASE ExchangeFails
    BY <1>13 DEF ExchangeFails, GiveUp, Settle, flowVars
<1>14. ASSUME NEW t \in TokenReply, TokensLand(t) \/ FetchKeys(t)
      PROVE  FlagsOK'
    BY <1>14 DEF TokensLand, FetchKeys, Finish, End, Return, GiveUp, Settle, flowVars
<1>15. CASE KeysLand
    BY <1>15 DEF KeysLand, Finish, End, Return, GiveUp, Settle, flowVars
<1>16. CASE DeadlinePasses \/ Gone \/ UNCHANGED vars
    BY <1>16 DEF DeadlinePasses, Gone, vars, flowVars, stepVars
<1> QED
    BY <1>1, <1>2, <1>3, <1>4, <1>5, <1>6, <1>7, <1>8, <1>9, <1>10, <1>11, <1>12, <1>13, <1>14, <1>15, <1>16
       DEF Next, Progress, Caller, Land, Exchange, Answer

\* Every step keeps the other variables in their types.
LEMMA ValuesPreserved == FlagsOK /\ ValuesOK /\ [Next]_vars => ValuesOK'
<1> SUFFICES ASSUME FlagsOK, ValuesOK, [Next]_vars PROVE ValuesOK'
    OBVIOUS
<1> USE BoundType, NoTokenType DEF ValuesOK, States, Running, Awaiting
<1>1. CASE Unwind
    BY <1>1 DEF Unwind, Fail, EndNow, End
<1>2. CASE DropStep
    BY <1>2 DEF DropStep, Fail, EndNow, End, Settle
<1>3. ASSUME NEW c \in Clients, NEW h \in BOOLEAN, Begin(c, h)
      PROVE  ValuesOK'
    BY <1>3 DEF Begin, FirstPage, GiveUp, Settle
<1>4. CASE Cancel \/ IsActive
    BY <1>4 DEF Cancel, IsActive, EndNow, End, flowVars, stepVars
<1>5. CASE DropFlow
    BY <1>5 DEF DropFlow
<1>6. ASSUME NEW c \in Clients, NEW a \in Answers, RefuseAnswer(c, a) \/ RefuseFields(c, a)
      PROVE  ValuesOK'
    BY <1>6 DEF RefuseAnswer, RefuseFields, GiveUp, Settle
<1>7. ASSUME NEW c \in Clients, NEW a \in Answers, AskNext(c, a)
      PROVE  ValuesOK'
  <2>1. pending' \in Page
    BY <1>7, AskNextPage
  <2> QED
    BY <1>7, <2>1 DEF AskNext, Return, Settle
<1>8. ASSUME NEW c \in Clients, NEW a \in Answers, PostForm(c, a)
      PROVE  ValuesOK'
  <2>1. form' \in Page
    BY <1>8, PostedPage
  <2> QED
    BY <1>8, <2>1 DEF PostForm
<1>9. CASE FetchFails \/ LandLate
    BY <1>9 DEF FetchFails, LandLate, Landing, GiveUp, Settle
<1>10. ASSUME NEW p \in PageReply, PageRejects(p) \/ RefusePage(p)
      PROVE  ValuesOK'
    BY <1>10 DEF PageRejects, RefusePage, Landing, GiveUp, Settle
<1>11. ASSUME NEW p \in PageReply, PresentPage(p)
      PROVE  ValuesOK'
  <2>1. pending' \in Page
    BY <1>11, PresentedPage DEF FlagsOK
  <2> QED
    BY <1>11, <2>1 DEF PresentPage, Landing, Return, Settle
<1>12. ASSUME NEW r \in RedirectReply, RefuseRedirect(r) \/ FollowRedirect(r) \/ RedeemCode(r)
      PROVE  ValuesOK'
    BY <1>12 DEF RefuseRedirect, FollowRedirect, RedeemCode, RefusedRedirect, Landing, GiveUp, Settle
<1>13. CASE ExchangeFails
    BY <1>13 DEF ExchangeFails, GiveUp, Settle, flowVars
<1>14. ASSUME NEW t \in TokenReply, TokensLand(t) \/ FetchKeys(t)
      PROVE  ValuesOK'
    BY <1>14 DEF TokensLand, FetchKeys, Finish, End, Return, GiveUp, Settle, flowVars
<1>15. CASE KeysLand
    BY <1>15 DEF KeysLand, Finish, End, Return, GiveUp, Settle, flowVars
<1>16. CASE DeadlinePasses \/ Gone \/ UNCHANGED vars
    BY <1>16 DEF DeadlinePasses, Gone, vars, flowVars, stepVars
<1> QED
    BY <1>1, <1>2, <1>3, <1>4, <1>5, <1>6, <1>7, <1>8, <1>9, <1>10, <1>11, <1>12, <1>13, <1>14, <1>15, <1>16
       DEF Next, Progress, Caller, Land, Exchange, Answer
-----------------------------------------------------------------------------
(* What a step can do to the flow *)

\* A step that gives up leaves the flow to the guard that fails it.
GivesUp ==
    /\ pc \notin {"none", "dropped", "unwind"} /\ pc' = "unwind"
    /\ form' = NoPage /\ pending' \in {pending, NoPage}
    /\ lifecycle' = lifecycle /\ secrets' = secrets /\ hint' = hint /\ redeemed' = redeemed
    /\ jar' = jar \/ pc \in Awaiting
    /\ result' # "Complete"

\* A step that ends the login, or drops it, wipes it.
Wipes ==
    /\ pc # "none" /\ pc # "dropped"
    /\ pc' \in {"idle", "dropped"}
    /\ ~jar' /\ pending' = NoPage /\ ~secrets' /\ form' = NoPage
    /\ lifecycle' # "Active" \/ pc' = "dropped"
    /\ lifecycle # "Active" => lifecycle' = lifecycle
    /\ lifecycle = "Active" =>
         lifecycle' \in IF pc = "idle" THEN {"Cancelled", "Expired", "Active"} ELSE {"Failed", "Expired"}
    /\ redeemed' = redeemed /\ result' = result

\* The step that completes the login.
Completes ==
    /\ pc \in {"token", "keys"} /\ pc' = "idle"
    /\ ~jar' /\ pending' = NoPage /\ ~secrets' /\ form' = NoPage
    /\ Live /\ lifecycle' = "Finished" /\ result' = "Complete"
    /\ token'.genuine /\ token'.own
    /\ redeemed' = redeemed

\* Nothing but the clock, or the flow being looked at.
Idles ==
    /\ UNCHANGED <<flowVars, pc, app, form, followed, token, redeemed, result>>
    /\ pc = "none" => due' = due
-----------------------------------------------------------------------------
(* The inductive invariant *)

\* Before the login begins there is nothing to lose; a redemption under way is the first.
Beginning ==
    /\ pc = "none" => redeemed = 0 /\ pending = NoPage /\ lifecycle = "Active" /\ ~jar /\ ~secrets
                      /\ result = "none" /\ ~due
    /\ pc \in {"token", "keys"} => redeemed = 1

FlowInv ==
    EndedIsWiped /\ LiveIsUsable /\ InFlightIsOwnAndActive /\ SpentLoginIsOver /\ Beginning

PageInv == WaitingPageInOrder /\ FormAnswersPage

LoginInv == TypeOK /\ FlowInv /\ PageInv

\* Every step begins the login, moves it on, gives up, ends it, or leaves it alone.
LEMMA Effect ==
    TypeOK /\ FlowInv /\ FormAnswersPage /\ [Next]_vars =>
        \/ \E c \in Clients, h \in BOOLEAN: Begin(c, h)
        \/ \E c \in Clients, a \in Answers: AskNext(c, a) \/ PostForm(c, a)
        \/ \E p \in PageReply: PresentPage(p)
        \/ \E r \in RedirectReply: FollowRedirect(r) \/ RedeemCode(r)
        \/ \E t \in TokenReply: FetchKeys(t)
        \/ GivesUp \/ Wipes \/ Completes \/ Idles
<1> SUFFICES ASSUME TypeOK, FlowInv, FormAnswersPage, [Next]_vars
             PROVE  \/ \E c \in Clients, h \in BOOLEAN: Begin(c, h)
                    \/ \E c \in Clients, a \in Answers: AskNext(c, a) \/ PostForm(c, a)
                    \/ \E p \in PageReply: PresentPage(p)
                    \/ \E r \in RedirectReply: FollowRedirect(r) \/ RedeemCode(r)
                    \/ \E t \in TokenReply: FetchKeys(t)
                    \/ GivesUp \/ Wipes \/ Completes \/ Idles
    OBVIOUS
<1>1. CASE Unwind
    BY <1>1 DEF Unwind, Fail, EndNow, End, Wipes, FormAnswersPage, TypeOK, ValuesOK, States
<1>2. CASE DropStep
    BY <1>2 DEF DropStep, Fail, EndNow, End, Settle, Wipes, Awaiting, TypeOK, ValuesOK, States
<1>3. CASE Cancel
    BY <1>3 DEF Cancel, EndNow, End, stepVars, Wipes, FormAnswersPage, TypeOK, ValuesOK, States
<1>4. CASE IsActive
  <2>1. CASE due /\ lifecycle = "Active"
    BY <1>4, <2>1 DEF IsActive, End, stepVars, Wipes, FormAnswersPage, TypeOK, ValuesOK, States
  <2>2. CASE ~(due /\ lifecycle = "Active")
    BY <1>4, <2>2 DEF IsActive, flowVars, stepVars, Idles
  <2> QED
    BY <2>1, <2>2
<1>5. CASE DropFlow
    BY <1>5 DEF DropFlow, Wipes, FormAnswersPage
<1>6. ASSUME NEW c \in Clients, NEW a \in Answers, RefuseAnswer(c, a) \/ RefuseFields(c, a)
      PROVE  GivesUp
    BY <1>6 DEF RefuseAnswer, RefuseFields, GiveUp, Settle, GivesUp
<1>7. CASE FetchFails \/ LandLate
    BY <1>7 DEF FetchFails, LandLate, Landing, GiveUp, Settle, GivesUp, Awaiting
<1>8. ASSUME NEW p \in PageReply, PageRejects(p) \/ RefusePage(p)
      PROVE  GivesUp
    BY <1>8 DEF PageRejects, RefusePage, Landing, GiveUp, Settle, GivesUp, Awaiting
<1>9. ASSUME NEW r \in RedirectReply, RefuseRedirect(r)
      PROVE  GivesUp
    BY <1>9 DEF RefuseRedirect, Landing, GiveUp, Settle, GivesUp, Awaiting
<1>10. CASE ExchangeFails
    BY <1>10 DEF ExchangeFails, GiveUp, Settle, flowVars, GivesUp
<1>11. ASSUME NEW t \in TokenReply, pc \in {"token", "keys"}, Finish(t)
       PROVE  GivesUp \/ Completes
  <2>1. CASE Live
    BY <1>11, <2>1 DEF Finish, Verifies, Live, End, Return, Settle, Completes
  <2>2. CASE ~Live
    BY <1>11, <2>2 DEF Finish, GiveUp, Settle, flowVars, GivesUp
  <2> QED
    BY <2>1, <2>2
<1>12. ASSUME NEW t \in TokenReply, TokensLand(t)
       PROVE  GivesUp \/ Completes
    BY <1>11, <1>12 DEF TokensLand
<1>13. CASE KeysLand
    BY <1>11, <1>13 DEF KeysLand, TypeOK, ValuesOK
<1>14. CASE DeadlinePasses \/ Gone \/ UNCHANGED vars
    BY <1>14 DEF DeadlinePasses, Gone, vars, flowVars, stepVars, Idles
<1> QED
    BY <1>1, <1>2, <1>3, <1>4, <1>5, <1>6, <1>7, <1>8, <1>9, <1>10, <1>12, <1>13, <1>14
       DEF Next, Progress, Caller, Land, Exchange, Answer

\* Every step keeps the lifecycle, its secrets and the step under way in agreement.
LEMMA FlowPreserved == TypeOK /\ FlowInv /\ FormAnswersPage /\ [Next]_vars => FlowInv'
<1> SUFFICES ASSUME TypeOK, FlowInv, FormAnswersPage, [Next]_vars PROVE FlowInv'
    OBVIOUS
<1> USE DEF FlowInv, EndedIsWiped, LiveIsUsable, InFlightIsOwnAndActive, SpentLoginIsOver,
            Beginning, Awaiting
<1>1. ASSUME NEW c \in Clients, NEW h \in BOOLEAN, Begin(c, h)
      PROVE  FlowInv'
    BY <1>1 DEF Begin, FirstPage, GiveUp, Settle
<1>2. ASSUME NEW c \in Clients, NEW a \in Answers, AskNext(c, a)
      PROVE  FlowInv'
  <2>1. pending' # NoPage
    BY <1>2, AskNextPage, NoPageType DEF TypeOK
  <2> QED
    BY <1>2, <2>1 DEF AskNext, Answerable, Live, Return, Settle
<1>3. ASSUME NEW c \in Clients, NEW a \in Answers, PostForm(c, a)
      PROVE  FlowInv'
    BY <1>3 DEF PostForm, Answerable, Live
<1>4. ASSUME NEW p \in PageReply, PresentPage(p)
      PROVE  FlowInv'
  <2>1. pending' # NoPage
    BY <1>4, PresentedPage, NoPageType DEF TypeOK, FlagsOK
  <2> QED
    BY <1>4, <2>1 DEF PresentPage, Landing, Live, Return, Settle
<1>5. ASSUME NEW r \in RedirectReply, FollowRedirect(r)
      PROVE  FlowInv'
    BY <1>5 DEF FollowRedirect, Landing, Live
<1>6. ASSUME NEW r \in RedirectReply, RedeemCode(r)
      PROVE  FlowInv'
    BY <1>6 DEF RedeemCode, Landing, Live, TypeOK, ValuesOK
<1>7. ASSUME NEW t \in TokenReply, FetchKeys(t)
      PROVE  FlowInv'
    BY <1>7 DEF FetchKeys, flowVars
<1>8. CASE GivesUp
    BY <1>8 DEF GivesUp
<1>9. CASE Wipes
    BY <1>9 DEF Wipes, TypeOK, ValuesOK, Running
<1>10. CASE Completes
    BY <1>10 DEF Completes
<1>11. CASE Idles
    BY <1>11 DEF Idles, flowVars
<1> QED
    BY <1>1, <1>2, <1>3, <1>4, <1>5, <1>6, <1>7, <1>8, <1>9, <1>10, <1>11, Effect

\* Every step keeps answers and challenges in order.
LEMMA PagePreserved == TypeOK /\ FlowInv /\ PageInv /\ [Next]_vars => PageInv'
<1> SUFFICES ASSUME TypeOK, FlowInv, PageInv, [Next]_vars PROVE PageInv'
    OBVIOUS
<1>1. FormAnswersPage /\ WaitingPageInOrder
    BY DEF PageInv
<1>2. ASSUME NEW c \in Clients, NEW h \in BOOLEAN, Begin(c, h)
      PROVE  PageInv'
    BY <1>1, <1>2 DEF Begin, FirstPage, GiveUp, Settle, PageInv, FormAnswersPage, WaitingPageInOrder, FlowInv, Beginning
<1>3. ASSUME NEW c \in Clients, NEW a \in Answers, AskNext(c, a)
      PROVE  PageInv'
  <2> DEFINE asks == Asks[pending.kind][hint]
  <2>1. /\ pending \in Page /\ pending # NoPage /\ pending.kind \in Kinds
        /\ pending.queue \in Seq(Challenges) /\ pending.queue # <<>>
        /\ Append(pending.answers, a) \in Seq(Answers)
        /\ asks \in Seq(Challenges)
    BY <1>3, AskNextPage, AsksType, NoPageType DEF TypeOK, FlagsOK
  <2>2. Answered(pending, asks) /\ AskedSoFar(pending, asks) /\ a \in Accepts[pending.expect]
    BY <1>1, <1>3, <2>1 DEF WaitingPageInOrder, AskNext, Answerable
  <2>3. pending' = Asking(pending.kind, pending.queue, Append(pending.answers, a)) /\ hint' = hint
    BY <1>3 DEF AskNext
  <2>4. pending'.kind = pending.kind /\ pending'.answers = Append(pending.answers, a)
    BY <2>3 DEF Asking
  <2>5. Answered(pending', asks)
    BY <2>1, <2>2, <2>4, AnsweredOneMore
  <2>6. AskedSoFar(pending', asks)
    <3> DEFINE given == Append(pending.answers, a)
    <3>1. pending.answers \in Seq(Answers) /\ Len(pending.answers) \in Nat
      BY <2>1 DEF Page
    <3>2. Len(given) = Len(pending.answers) + 1
      BY <3>1
    <3>3. Len(asks) = Len(given) + Len(pending.queue)
      BY <2>2, <3>2 DEF AskedSoFar
    <3>4. \A j \in 1..Len(pending.queue): pending.queue[j] = asks[Len(given) + j]
      BY <2>2, <3>2 DEF AskedSoFar
    <3> QED
      BY <2>1, <2>3, <3>3, <3>4, AskingInOrder
  <2>7. pc' = "idle" /\ form' = NoPage
    BY <1>3 DEF AskNext, Return, Settle
  <2> QED
    BY <2>3, <2>4, <2>5, <2>6, <2>7 DEF PageInv, FormAnswersPage, WaitingPageInOrder
<1>4. ASSUME NEW c \in Clients, NEW a \in Answers, PostForm(c, a)
      PROVE  PageInv'
  <2> DEFINE asks == Asks[pending.kind][hint]
  <2>1. /\ pending \in Page /\ pending # NoPage /\ form' # NoPage
        /\ form'.kind = pending.kind /\ form'.answers = Append(pending.answers, a)
    BY <1>4, PostedPage, NoPageType DEF TypeOK
  <2>2. /\ Answered(pending, asks) /\ AskedSoFar(pending, asks) /\ a \in Accepts[pending.expect]
        /\ pending.queue = <<>>
    BY <1>1, <1>4, <2>1 DEF WaitingPageInOrder, PostForm, Answerable
  <2>3. asks \in Seq(Challenges) /\ pending.answers \in Seq(Answers)
    BY <2>1, AsksType DEF Page, TypeOK, FlagsOK
  <2>4. Answered(form', asks)
    BY <2>1, <2>2, <2>3, AnsweredOneMore
  <2>5. Len(form'.answers) = Len(asks)
    BY <2>1, <2>2, <2>3 DEF AskedSoFar
  <2>6. pc' = "post" /\ pending' = NoPage /\ hint' = hint
    BY <1>4 DEF PostForm
  <2> QED
    BY <2>1, <2>4, <2>5, <2>6 DEF PageInv, FormAnswersPage, WaitingPageInOrder
<1>5. ASSUME NEW p \in PageReply, PresentPage(p)
      PROVE  PageInv'
  <2> DEFINE asks == Asks[p.kind][hint]
  <2>1. p.kind \in Kinds /\ asks \in Seq(Challenges) /\ asks # <<>>
    BY <1>5, PresentedPage DEF TypeOK, FlagsOK
  <2>2. pending' = Asking(p.kind, asks, <<>>) /\ hint' = hint /\ pc' = "idle" /\ form' = NoPage
    BY <1>5 DEF PresentPage, Return, Settle
  <2>3. pending'.kind = p.kind /\ pending'.answers = <<>>
    BY <2>2 DEF Asking
  <2>4. Answered(pending', asks)
    BY <2>1, <2>3 DEF Answered
  <2>5. AskedSoFar(pending', asks)
    <3>1. <<>> \in Seq(Answers) /\ Len(asks) = Len(<<>>) + Len(asks)
          /\ \A j \in 1..Len(asks): asks[j] = asks[Len(<<>>) + j]
      BY <2>1
    <3> QED
      BY <2>1, <2>2, <3>1, AskingInOrder
  <2> QED
    BY <2>2, <2>3, <2>4, <2>5 DEF PageInv, FormAnswersPage, WaitingPageInOrder
<1>6. ASSUME NEW r \in RedirectReply, FollowRedirect(r) \/ RedeemCode(r)
      PROVE  PageInv'
    BY <1>1, <1>6 DEF FollowRedirect, RedeemCode, PageInv, FormAnswersPage, WaitingPageInOrder
<1>7. ASSUME NEW t \in TokenReply, FetchKeys(t)
      PROVE  PageInv'
    BY <1>1, <1>7 DEF FetchKeys, flowVars, PageInv, FormAnswersPage, WaitingPageInOrder
<1>8. CASE GivesUp
    BY <1>1, <1>8 DEF GivesUp, PageInv, FormAnswersPage, WaitingPageInOrder
<1>9. CASE Wipes \/ Completes
    BY <1>9 DEF Wipes, Completes, PageInv, FormAnswersPage, WaitingPageInOrder
<1>10. CASE Idles
    BY <1>1, <1>10 DEF Idles, flowVars, PageInv, FormAnswersPage, WaitingPageInOrder
<1> QED
    BY <1>1, <1>2, <1>3, <1>4, <1>5, <1>6, <1>7, <1>8, <1>9, <1>10, Effect

\* A login not yet begun satisfies the inductive invariant.
LEMMA InitInv == Init => LoginInv
<1> SUFFICES ASSUME Init PROVE LoginInv
    OBVIOUS
<1> USE DEF Init
<1>1. FlagsOK
    BY DEF FlagsOK
<1>2. ValuesOK
    BY BoundType, NoTokenType DEF ValuesOK, Running, Awaiting, States
<1>3. FlowInv
    BY DEF FlowInv, EndedIsWiped, LiveIsUsable, InFlightIsOwnAndActive, SpentLoginIsOver,
           Beginning, Awaiting
<1>4. PageInv
    BY DEF PageInv, WaitingPageInOrder, FormAnswersPage
<1> QED
    BY <1>1, <1>2, <1>3, <1>4 DEF LoginInv, TypeOK

\* Every step preserves the inductive invariant.
LEMMA NextInv == LoginInv /\ [Next]_vars => LoginInv'
<1> SUFFICES ASSUME LoginInv, [Next]_vars PROVE LoginInv'
    OBVIOUS
<1>1. TypeOK'
    BY FlagsPreserved, ValuesPreserved DEF LoginInv, TypeOK
<1>2. FlowInv'
    BY FlowPreserved DEF LoginInv, PageInv
<1>3. PageInv'
    BY PagePreserved DEF LoginInv
<1> QED
    BY <1>1, <1>2, <1>3 DEF LoginInv

\* The inductive invariant holds of every login, with or without fairness.
LEMMA Invariance == Safety => []LoginInv
<1> QED
    BY InitInv, NextInv, PTL DEF Safety

-----------------------------------------------------------------------------
(* The theorems *)

\* Every value stays in its type; redirects followed in a row stay within MAX_REDIRECTS.
THEOREM TypeCorrect == Spec => []TypeOK
<1>1. LoginInv => TypeOK
    BY DEF LoginInv
<1> QED
    BY <1>1, Invariance, PTL DEF Spec

\* However a login ends, its cookies, waiting page and secrets are wiped and stay wiped, and one
\* still active between steps has its secrets and a challenge waiting.
THEOREM WipeCorrect == Spec => []WipedWhenOver
<1>1. LoginInv => WipedWhenOver
    BY DEF LoginInv, FlowInv, WipedWhenOver
<1> QED
    BY <1>1, Invariance, PTL DEF Spec

\* Only an active login has a request in flight, and only for the client that began it.
THEOREM GateCorrect == Spec => []InFlightIsOwnAndActive
<1>1. LoginInv => InFlightIsOwnAndActive
    BY DEF LoginInv, FlowInv
<1> QED
    BY <1>1, Invariance, PTL DEF Spec

\* A login sends at most one authorization code, and is over once it sent it.
THEOREM CodeSpentOnce == Spec => []SpentLoginIsOver
<1>1. LoginInv => SpentLoginIsOver
    BY DEF LoginInv, FlowInv
<1> QED
    BY <1>1, Invariance, PTL DEF Spec

\* A form in flight answers every challenge of its page in order, whatever the factor asks.
THEOREM FormCorrect == Spec => []FormAnswersPage
<1>1. LoginInv => FormAnswersPage
    BY DEF LoginInv, PageInv
<1> QED
    BY <1>1, Invariance, PTL DEF Spec

\* The page waiting on the caller keeps its challenges and answers in order.
THEOREM PageCorrect == Spec => []WaitingPageInOrder
<1>1. LoginInv => WaitingPageInOrder
    BY DEF LoginInv, PageInv
<1> QED
    BY <1>1, Invariance, PTL DEF Spec

\* How a login ended is never rewritten.
THEOREM OutcomeFinal == Spec => EndedForGood
<1>1. LoginInv /\ [Next]_vars => [lifecycle # "Active" => lifecycle' = lifecycle]_vars
  <2> SUFFICES ASSUME LoginInv, [Next]_vars, lifecycle # "Active" PROVE lifecycle' = lifecycle
    OBVIOUS
  <2>1. ~Live /\ (pc \in Awaiting => FALSE) /\ pc # "none"
    BY DEF Live, LoginInv, FlowInv, InFlightIsOwnAndActive, Beginning
  <2>2. \A c, a: ~AskNext(c, a) /\ ~PostForm(c, a)
    BY <2>1 DEF AskNext, PostForm, Answerable
  <2>3. \A r: ~PresentPage(r) /\ ~FollowRedirect(r) /\ ~RedeemCode(r)
    BY <2>1 DEF PresentPage, FollowRedirect, RedeemCode
  <2>4. \A c, h: ~Begin(c, h)
    BY <2>1 DEF Begin, FirstPage, GiveUp, Settle
  <2>5. \A t: ~FetchKeys(t)
    BY <2>1 DEF FetchKeys, Awaiting
  <2>6. ~Completes
    BY <2>1 DEF Completes
  <2>7. GivesUp \/ Wipes \/ Idles
    BY <2>2, <2>3, <2>4, <2>5, <2>6, Effect DEF LoginInv, PageInv
  <2> QED
    BY <2>7 DEF GivesUp, Wipes, Idles, flowVars
<1> QED
    BY <1>1, Invariance, PTL DEF Spec, Safety, EndedForGood

\* A login finishes exactly when a step completes, in time, on tokens verified for its nonce.
THEOREM FinishCorrect == Spec => FinishesVerified
<1> DEFINE ends == (lifecycle' = "Finished" /\ lifecycle # "Finished")
                   \/ (result' = "Complete" /\ result # "Complete")
           good == /\ lifecycle' = "Finished" /\ result' = "Complete" /\ redeemed' = 1
                   /\ token'.genuine /\ token'.own /\ ~due
<1>1. LoginInv /\ [Next]_vars => [ends => good]_vars
  <2> SUFFICES ASSUME LoginInv, [Next]_vars, ends PROVE good
    OBVIOUS
  <2>1. ASSUME NEW c \in Clients, NEW h \in BOOLEAN, Begin(c, h) PROVE FALSE
    BY <2>1 DEF Begin, FirstPage, GiveUp, Settle, LoginInv, FlowInv, Beginning
  <2>2. ASSUME NEW c \in Clients, NEW a \in Answers, AskNext(c, a) \/ PostForm(c, a) PROVE FALSE
    BY <2>2 DEF AskNext, PostForm, Return
  <2>3. ASSUME NEW p \in PageReply, PresentPage(p) PROVE FALSE
    BY <2>3 DEF PresentPage, Return
  <2>4. ASSUME NEW r \in RedirectReply, FollowRedirect(r) \/ RedeemCode(r) PROVE FALSE
    BY <2>4 DEF FollowRedirect, RedeemCode
  <2>5. ASSUME NEW t \in TokenReply, FetchKeys(t) PROVE FALSE
    BY <2>5 DEF FetchKeys, flowVars
  <2>6. ~GivesUp /\ ~Wipes /\ ~Idles
    BY DEF GivesUp, Wipes, Idles, flowVars
  <2>7. Completes
    BY <2>1, <2>2, <2>3, <2>4, <2>5, <2>6, Effect DEF LoginInv, PageInv
  <2> QED
    BY <2>7 DEF Completes, Live, LoginInv, FlowInv, Beginning
<1> QED
    BY <1>1, Invariance, PTL DEF Spec, Safety, FinishesVerified

\* Past the time limit no request of a login leaves but the fetch of the realm's public keys.
THEOREM LimitKept == Spec => OnlyKeysPastLimit
<1>1. LoginInv /\ [Next]_vars => [Sends /\ due => pc' = "keys"]_vars
  <2> SUFFICES ASSUME LoginInv, [Next]_vars, Sends, due PROVE pc' = "keys"
    OBVIOUS
  <2>1. ASSUME NEW c \in Clients, NEW h \in BOOLEAN, Begin(c, h) PROVE FALSE
    BY <2>1 DEF Begin, FirstPage, GiveUp, Settle, LoginInv, FlowInv, Beginning
  <2>2. ASSUME NEW c \in Clients, NEW a \in Answers, AskNext(c, a) \/ PostForm(c, a) PROVE FALSE
    BY <2>2 DEF AskNext, PostForm, Answerable, Live
  <2>3. ASSUME NEW p \in PageReply, PresentPage(p) PROVE FALSE
    BY <2>3 DEF PresentPage, Live
  <2>4. ASSUME NEW r \in RedirectReply, FollowRedirect(r) \/ RedeemCode(r) PROVE FALSE
    BY <2>4 DEF FollowRedirect, RedeemCode, Live
  <2>5. ASSUME NEW t \in TokenReply, FetchKeys(t) PROVE pc' = "keys"
    BY <2>5 DEF FetchKeys
  <2>6. ~GivesUp /\ ~Wipes /\ ~Completes /\ ~Idles
    BY DEF GivesUp, Wipes, Completes, Idles, Sends, Awaiting
  <2> QED
    BY <2>1, <2>2, <2>3, <2>4, <2>5, <2>6, Effect DEF LoginInv, PageInv
<1> QED
    BY <1>1, Invariance, PTL DEF Spec, Safety, OnlyKeysPastLimit

\* Every login keeps the contract: its phases begin, wait, spend the code once and end once.
THEOREM ContractKept == Spec => Contract!ContractSafety
<1>1. Init => Contract!ContractInit
    BY DEF Init, Phase, Contract!ContractInit
<1>2. LoginInv /\ [Next]_vars => [Contract!ContractNext]_(Contract!contractVars)
  <2> SUFFICES ASSUME LoginInv, [Next]_vars
               PROVE  [Contract!ContractNext]_(Contract!contractVars)
    OBVIOUS
  <2> USE DEF Contract!ContractNext, Contract!contractVars
  <2>1. /\ TypeOK /\ SpentLoginIsOver /\ Beginning /\ InFlightIsOwnAndActive
        /\ redeemed \in Nat /\ lifecycle \in States
    BY DEF LoginInv, FlowInv, TypeOK, ValuesOK
  <2>2. ASSUME NEW c \in Clients, NEW h \in BOOLEAN, Begin(c, h)
        PROVE  Contract!Start
    BY <2>1, <2>2 DEF Phase, Begin, FirstPage, GiveUp, Settle, Contract!Start, Beginning
  <2>3. ASSUME NEW c \in Clients, NEW a \in Answers, AskNext(c, a)
        PROVE  UNCHANGED Contract!contractVars
    BY <2>3 DEF Phase, AskNext, Answerable, Live, Return
  <2>4. ASSUME NEW c \in Clients, NEW a \in Answers, PostForm(c, a)
        PROVE  Contract!Work
    BY <2>4 DEF Phase, PostForm, Answerable, Live, Contract!Work
  <2>5. ASSUME NEW p \in PageReply, PresentPage(p)
        PROVE  Contract!Ask
    BY <2>1, <2>5 DEF Phase, PresentPage, Landing, Live, Return, Contract!Ask, SpentLoginIsOver
  <2>6. ASSUME NEW r \in RedirectReply, FollowRedirect(r)
        PROVE  UNCHANGED Contract!contractVars
    BY <2>6 DEF Phase, FollowRedirect, Landing, Live
  <2>7. ASSUME NEW r \in RedirectReply, RedeemCode(r)
        PROVE  Contract!Spend
    BY <2>1, <2>7 DEF Phase, RedeemCode, Landing, Live, Contract!Spend, SpentLoginIsOver
  <2>8. ASSUME NEW t \in TokenReply, FetchKeys(t)
        PROVE  UNCHANGED Contract!contractVars
    BY <2>8 DEF Phase, FetchKeys, flowVars
  <2>9. CASE GivesUp
    <3>1. CASE lifecycle = "Active" /\ pc = "idle"
      <4>1. Phase = "waiting" /\ Phase' = "working" /\ redeemed' = redeemed
        BY <2>9, <3>1 DEF GivesUp, Phase
      <4> QED
        BY <4>1 DEF Contract!Work
    <3>2. CASE ~(lifecycle = "Active" /\ pc = "idle")
      <4>1. Phase' = Phase /\ redeemed' = redeemed
        BY <2>9, <3>2 DEF GivesUp, Phase
      <4> QED
        BY <4>1
    <3> QED
      BY <3>1, <3>2
  <2>10. CASE Wipes
    <3>1. CASE lifecycle # "Active"
      <4>1. Phase' = Phase /\ redeemed' = redeemed
        BY <2>10, <3>1 DEF Wipes, Phase
      <4> QED
        BY <4>1
    <3>2. CASE lifecycle = "Active" /\ pc = "idle"
      <4>1. /\ Phase = "waiting" /\ Phase' \in {"Cancelled", "Expired", "abandoned"}
            /\ redeemed' = redeemed
        BY <2>10, <3>2 DEF Wipes, Phase
      <4> QED
        BY <4>1 DEF Contract!Stop
    <3>3. CASE lifecycle = "Active" /\ pc # "idle"
      <4>1. Phase = "working" /\ Phase' \in {"Failed", "Expired"} /\ redeemed' = redeemed
        BY <2>10, <3>3 DEF Wipes, Phase
      <4> QED
        BY <4>1 DEF Contract!Break
    <3> QED
      BY <3>1, <3>2, <3>3
  <2>11. CASE Completes
    BY <2>1, <2>11 DEF Phase, Completes, Live, Beginning, Contract!Complete
  <2>12. CASE Idles
    BY <2>12 DEF Phase, Idles, flowVars
  <2> QED
    BY <2>2, <2>3, <2>4, <2>5, <2>6, <2>7, <2>8, <2>9, <2>10, <2>11, <2>12, Effect
       DEF LoginInv, PageInv
<1> QED
    BY <1>1, <1>2, Invariance, PTL DEF Spec, Safety, Contract!ContractSafety
=============================================================================
