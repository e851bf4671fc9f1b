---------------------------- MODULE SessionProofs ----------------------------
(***************************************************************************)
(* What Session promises, for any number of callers, sessions and clients. *)
(* The inductive invariant ties each refresh under way to the slot whose    *)
(* Tokens it was started with, and follows each session's newest refresh    *)
(* token where Keycloak rotates: from the slot that has not used it, to the *)
(* one call that redeemed it, to the slot again.                            *)
(***************************************************************************)
EXTENDS Session, TLAPS

\* The states of a call that is not idle.
Busy == [stage: {"redeeming", "answered", "verifying", "asking", "done"},
         kind: {"refresh", "userinfo"}, slot: Slots, client: Clients, prev: Tokens,
         got: Answers \cup {None}, told: Subjects \cup {None}, result: {"none", "ok", "error"}]

\* A call that is not idle has all its fields.
LEMMA BusyCall ==
    ASSUME NEW c \in Calls, TypeOK, call[c].stage # "idle"
    PROVE  call[c] \in Busy
<1>1. call[c] \in CallStates
    BY DEF TypeOK
<1> QED
    BY <1>1 DEF CallStates, Idle, Busy

\* A call that starts has the fields it was started with.
LEMMA NewCall ==
    ASSUME NEW c \in Calls, TypeOK, NEW stage \in {"redeeming", "verifying", "asking"},
           NEW kind \in {"refresh", "userinfo"}, NEW w \in Slots, NEW client \in Clients,
           NEW prev \in Tokens, Start(c, stage, kind, w, client, prev)
    PROVE  /\ call' \in [Calls -> CallStates]
           /\ call'[c] \in Busy
           /\ call'[c].stage = stage /\ call'[c].kind = kind /\ call'[c].slot = w
           /\ call'[c].client = client /\ call'[c].prev = prev /\ call'[c].got = None
           /\ \A d \in Calls \ {c}: call'[d] = call[d]
<1> DEFINE new == [stage |-> stage, kind |-> kind, slot |-> w, client |-> client, prev |-> prev,
                   got |-> None, told |-> None, result |-> "none"]
<1>1. call \in [Calls -> CallStates] /\ call' = [call EXCEPT ![c] = new]
    BY DEF TypeOK, Start
<1>2. new \in Busy
    BY DEF Busy
<1>3. Busy \subseteq CallStates
    BY DEF Busy, CallStates
<1> HIDE DEF new
<1>4. call'[c] = new /\ call' \in [Calls -> CallStates] /\ \A d \in Calls \ {c}: call'[d] = call[d]
    BY <1>1, <1>2, <1>3
<1> QED
    BY <1>2, <1>4 DEF new

\* A call that ends keeps what it was about.
LEMMA EndedCall ==
    ASSUME NEW c \in Calls, TypeOK, call[c].stage # "idle", NEW result \in {"ok", "error"},
           NEW told \in Subjects \cup {None}, End(c, result, told)
    PROVE  /\ call' \in [Calls -> CallStates]
           /\ call'[c] \in Busy
           /\ call'[c].stage = "done" /\ call'[c].result = result /\ call'[c].told = told
           /\ call'[c].kind = call[c].kind /\ call'[c].got = call[c].got
           /\ call'[c].prev = call[c].prev
           /\ \A d \in Calls \ {c}: call'[d] = call[d]
<1> DEFINE new == [call[c] EXCEPT !.stage = "done", !.result = result, !.told = told]
<1>1. call \in [Calls -> CallStates] /\ call[c] \in Busy
    BY BusyCall DEF TypeOK
<1>2. call' = [call EXCEPT ![c] = new]
    BY <1>1 DEF End
<1>3. /\ new \in Busy /\ new.stage = "done" /\ new.result = result /\ new.told = told
      /\ new.kind = call[c].kind /\ new.got = call[c].got /\ new.prev = call[c].prev
    BY <1>1 DEF Busy
<1>4. Busy \subseteq CallStates
    BY DEF Busy, CallStates
<1> HIDE DEF new
<1>5. call'[c] = new /\ call' \in [Calls -> CallStates] /\ \A d \in Calls \ {c}: call'[d] = call[d]
    BY <1>1, <1>2, <1>3, <1>4
<1> QED
    BY <1>3, <1>5

\* A call that goes on keeps all but its stage.
LEMMA MovedCall ==
    ASSUME NEW c \in Calls, TypeOK, call[c].stage # "idle",
           NEW stage \in {"verifying", "asking"}, call' = [call EXCEPT ![c].stage = stage]
    PROVE  /\ call' \in [Calls -> CallStates]
           /\ call'[c] \in Busy /\ call'[c] = [call[c] EXCEPT !.stage = stage]
           /\ call'[c].stage = stage
           /\ call'[c].kind = call[c].kind /\ call'[c].got = call[c].got
           /\ call'[c].prev = call[c].prev /\ call'[c].slot = call[c].slot
           /\ call'[c].client = call[c].client
           /\ \A d \in Calls \ {c}: call'[d] = call[d]
<1> DEFINE new == [call[c] EXCEPT !.stage = stage]
<1>1. call \in [Calls -> CallStates] /\ call[c] \in Busy
    BY BusyCall DEF TypeOK
<1>2. call' = [call EXCEPT ![c] = new]
    BY <1>1
<1>3. /\ new \in Busy /\ new.stage = stage /\ new.slot = call[c].slot /\ new.client = call[c].client
      /\ new.kind = call[c].kind /\ new.got = call[c].got /\ new.prev = call[c].prev
    BY <1>1 DEF Busy
<1>4. Busy \subseteq CallStates
    BY DEF Busy, CallStates
<1> HIDE DEF new
<1>5. call'[c] = new /\ call' \in [Calls -> CallStates] /\ \A d \in Calls \ {c}: call'[d] = call[d]
    BY <1>1, <1>2, <1>3, <1>4
<1> QED
    BY <1>3, <1>5 DEF new
-----------------------------------------------------------------------------
(* The inductive invariant *)

\* The call is a refresh that has not ended.
Refreshing(c) ==
    call[c].stage \in {"redeeming", "answered", "verifying", "asking"} /\ call[c].kind = "refresh"

\* The refresh token was redeemed, and its answer is not yet the caller's.
Pending(c) == Refreshing(c) /\ call[c].stage # "redeeming"

\* A slot with Tokens that can be refreshed.
Has(w) == held[w] # None /\ held[w].verified # None

\* The session a call refreshes, and the Tokens in the slot it was started from.
SessionOf(c) == call[c].prev.refresh[1]
SlotOf(c) == held[call[c].slot]

\* A refresh under way is for the session that its slot still holds Tokens of.
RefreshBound(c) ==
    /\ call[c].prev.refresh \in RefreshTokens
    /\ Subject[SessionOf(c)] = call[c].prev.subject /\ Client[SessionOf(c)] = call[c].client
    /\ Has(call[c].slot) /\ SlotOf(c).verified[1] = SessionOf(c)
    /\ call[c].prev.refresh[2] <= newest[SessionOf(c)]

\* What it was answered is of this session, and the stage tells if there was an ID token.
AnswerBound(c) ==
    /\ call[c].got # None
    /\ call[c].got.refresh # None =>
           /\ call[c].got.refresh[1] = SessionOf(c)
           /\ call[c].got.refresh[2] <= newest[SessionOf(c)]
    /\ call[c].stage = "verifying" => call[c].got.id # None
    /\ call[c].stage = "asking" => call[c].got.id = None

CallsBound ==
    \A c \in Calls:
        /\ call[c].stage \in {"redeeming", "answered"} => call[c].kind = "refresh"
        /\ Refreshing(c) => RefreshBound(c)
        /\ Pending(c) => AnswerBound(c)

\* No two slots hold Tokens of one session, and none holds a refresh token not made yet.
SlotsApart ==
    /\ \A w \in Slots: Has(w) => held[w].verified[2] <= newest[held[w].verified[1]]
    /\ \A v, w \in Slots: Has(v) /\ Has(w) /\ held[v].verified[1] = held[w].verified[1] => v = w

\* A slot that has not sent its refresh token holds the newest of its session.
FreshSlot(w) == Has(w) /\ ~used[w] => held[w].verified[2] = newest[held[w].verified[1]]

\* A call that redeemed one has the newest, and its slot an older one.
HasNewest(c) ==
    Pending(c) =>
        /\ used[call[c].slot] /\ call[c].got.refresh # None
        /\ call[c].got.refresh[2] = newest[SessionOf(c)]
        /\ SlotOf(c).verified[2] < newest[SessionOf(c)]

\* A call that can still redeem its refresh token sent the one its slot holds.
Redeemable(c) ==
    call[c].stage = "redeeming" /\ call[c].prev.refresh[2] = newest[SessionOf(c)] =>
        used[call[c].slot] /\ SlotOf(c).verified[2] = newest[SessionOf(c)]

\* Only one call of a session has redeemed a refresh token and not delivered the new one.
Alone(c, d) == Pending(c) /\ Pending(d) /\ SessionOf(c) = SessionOf(d) => c = d

\* Where tokens rotate, somebody has the newest one: a fresh slot or the pending call.
Newest ==
    /\ \A w \in Slots: FreshSlot(w)
    /\ \A c \in Calls: HasNewest(c) /\ Redeemable(c)
    /\ \A c, d \in Calls: Alone(c, d)

NewestIsSomewhere == rotates => Newest

SessionInv ==
    /\ TypeOK /\ BoundToSession /\ SentByOwner /\ AnswersAreAboutSubject
    /\ CallsBound /\ SlotsApart /\ NewestIsSomewhere
-----------------------------------------------------------------------------
(* What a step can do *)

\* No other call moves.
Others(c) == call' \in [Calls -> CallStates] /\ \A d \in Calls \ {c}: call'[d] = call[d]

\* A refresh token is sent.
Sent(c) ==
    /\ Others(c) /\ call'[c] \in Busy
    /\ call'[c].stage = "redeeming" /\ call'[c].kind = "refresh"
    /\ LET w == call'[c].slot
           prev == call'[c].prev
       IN  /\ Has(w) /\ held[w].verified = prev.refresh /\ held[w].subject = prev.subject
           /\ held[w].client = call'[c].client
           /\ used' = [used EXCEPT ![w] = TRUE]
           /\ sent' = sent \cup {[client |-> call'[c].client, subject |-> prev.subject,
                                  token |-> prev.refresh]}
    /\ UNCHANGED <<held, newest, rotates>>

\* A call that does not refresh goes on, or any call ends without having refreshed.
Elsewhere(c) ==
    /\ Others(c) /\ call'[c] \in Busy
    /\ call'[c].kind = "userinfo" \/ call'[c].stage = "done"
    /\ call'[c].stage \in {"verifying", "asking", "done"}
    /\ call'[c].stage = "done" /\ call'[c].result = "ok" =>
           call'[c].kind = "userinfo" /\ call'[c].told = call'[c].prev.subject
    /\ UNCHANGED <<held, used, newest, rotates, sent>>

\* Nothing of a refresh changes but where it stands.
SameRefresh(c) ==
    /\ call'[c].kind = call[c].kind /\ call'[c].prev = call[c].prev
    /\ call'[c].slot = call[c].slot /\ call'[c].client = call[c].client

\* Keycloak redeems a refresh token.
Redeemed(c) ==
    /\ Others(c) /\ call'[c] \in Busy /\ SameRefresh(c)
    /\ call[c].stage = "redeeming" /\ call'[c].stage = "answered"
    /\ LET s == SessionOf(c)
           gen == call[c].prev.refresh[2]
       IN  /\ rotates => gen = newest[s] /\ newest' = [newest EXCEPT ![s] = gen + 1]
           /\ ~rotates => newest' = newest
           /\ call'[c].got # None /\ call'[c].got.refresh \in RefreshTokens \cup {None}
           /\ rotates => call'[c].got.refresh = <<s, gen + 1>>
           /\ ~rotates => call'[c].got.refresh \in {None, <<s, gen>>}
           /\ newest' \in [Sessions -> 0..MaxGen]
    /\ UNCHANGED <<held, used, rotates, sent>>

\* An answer arrives.
Landed(c) ==
    /\ Others(c) /\ call'[c] \in Busy /\ SameRefresh(c) /\ call'[c].got = call[c].got
    /\ call[c].stage = "answered"
    /\ call'[c].stage = IF call[c].got.id = None THEN "asking" ELSE "verifying"
    /\ UNCHANGED <<held, used, newest, rotates, sent>>

\* The Tokens of a slot are replaced, by those of an answer about their subject.
Renewed(c) ==
    /\ Others(c) /\ call'[c] \in Busy
    /\ Pending(c) /\ call'[c].stage = "done" /\ call'[c].kind = "refresh"
    /\ call'[c].got = call[c].got /\ call'[c].prev = call[c].prev
    /\ IF call[c].got.id # None THEN Subject[call[c].got.id] = call[c].prev.subject
                                ELSE call'[c].told = call[c].prev.subject
    /\ held' = [held EXCEPT ![call[c].slot] =
           Verified([call[c].got EXCEPT !.refresh = Kept(c)], call[c].prev.subject, call[c].client)]
    /\ used' = [used EXCEPT ![call[c].slot] = FALSE]
    /\ UNCHANGED <<newest, rotates, sent>>

CallEffect(c) == Sent(c) \/ Elsewhere(c) \/ Redeemed(c) \/ Landed(c) \/ Renewed(c)

Still == UNCHANGED <<held, used, call, newest, rotates, sent>>

\* What a caller can pass has the verified record of the Tokens it holds.
LEMMA PassedTokens ==
    ASSUME TypeOK, NEW w \in Slots, held[w] # None, NEW prev \in Passed(w)
    PROVE  /\ prev \in Tokens /\ prev.subject = held[w].subject /\ prev.client = held[w].client
           /\ prev.verified = held[w].verified
           /\ [prev EXCEPT !.id = None] \in Tokens
           /\ [prev EXCEPT !.refresh = None, !.verified = None] \in Tokens
           /\ [prev EXCEPT !.id = None].refresh = prev.refresh
           /\ [prev EXCEPT !.id = None].subject = prev.subject
           /\ [prev EXCEPT !.refresh = None, !.verified = None].subject = prev.subject
<1>1. \A v \in Slots: held[v] \in Tokens \cup {None}
    BY DEF TypeOK
<1> DEFINE mine == {held[v]: v \in Slots} \ {None}
<1>2. mine \subseteq Tokens
    BY <1>1
<1> DEFINE refreshes == {t.refresh: t \in mine} \cup {None}
           ids == {t.id: t \in mine} \cup {None}
<1>3. PICK shown \in refreshes \X ids: prev = [held[w] EXCEPT !.refresh = shown[1], !.id = shown[2]]
    BY DEF Passed
<1>4. refreshes \subseteq RefreshTokens \cup {None} /\ ids \subseteq Sessions \cup {None}
    BY <1>2 DEF Tokens
<1> HIDE DEF refreshes, ids
<1>5. shown[1] \in RefreshTokens \cup {None} /\ shown[2] \in Sessions \cup {None}
    BY <1>3, <1>4
<1>6. held[w] \in Tokens
    BY <1>1
<1> QED
    BY <1>3, <1>5, <1>6 DEF Tokens

\* A failed call changes nothing else.
LEMMA FailEffect ==
    ASSUME SessionInv, NEW c \in Calls, call[c].stage # "idle", Fail(c),
           UNCHANGED <<newest, rotates, sent>>
    PROVE  Elsewhere(c)
<1>1. TypeOK
    BY DEF SessionInv
<1>2. End(c, "error", None) /\ UNCHANGED <<held, used>>
    BY DEF Fail
<1> QED
    BY <1>1, <1>2, EndedCall DEF Elsewhere, Others

\* A refresh whose answer is about the session's subject renews the Tokens of its slot.
LEMMA RefreshedEffect ==
    ASSUME SessionInv, NEW c \in Calls, Pending(c), NEW told \in Subjects \cup {None},
           Refreshed(c, told), UNCHANGED <<newest, rotates, sent>>,
           IF call[c].got.id # None THEN Subject[call[c].got.id] = call[c].prev.subject
                                    ELSE told = call[c].prev.subject
    PROVE  Renewed(c)
<1>1. TypeOK /\ call[c].stage # "idle" /\ call[c].kind = "refresh"
    BY DEF SessionInv, Pending, Refreshing
<1>2. End(c, "ok", told)
    BY DEF Refreshed
<1>3. /\ call' \in [Calls -> CallStates]
           /\ call'[c] \in Busy
           /\ call'[c].stage = "done" /\ call'[c].told = told
           /\ call'[c].kind = call[c].kind /\ call'[c].got = call[c].got
           /\ call'[c].prev = call[c].prev
           /\ \A d \in Calls \ {c}: call'[d] = call[d]
    BY <1>1, <1>2, EndedCall
<1> QED
    BY <1>1, <1>3 DEF Refreshed, Renewed, Others

\* A call that starts sends the refresh token that was verified, or it is about userinfo.
LEMMA CalledEffect ==
    ASSUME SessionInv, NEW c \in Calls, Called(c)
    PROVE  Sent(c) \/ Elsewhere(c)
<1>1. TypeOK
    BY DEF SessionInv
<1>2. PICK w \in Slots, client \in Clients:
          /\ held[w] # None
          /\ \E prev \in Passed(w): Refresh(c, w, client, prev) \/ UserInfo(c, w, client, prev)
    BY DEF Called
<1>3. PICK prev \in Passed(w): Refresh(c, w, client, prev) \/ UserInfo(c, w, client, prev)
    BY <1>2
<1> DEFINE plain == [prev EXCEPT !.id = None]
           bare == [prev EXCEPT !.refresh = None, !.verified = None]
<1>4. /\ prev \in Tokens /\ prev.subject = held[w].subject /\ prev.client = held[w].client
      /\ prev.verified = held[w].verified
      /\ plain \in Tokens /\ bare \in Tokens
      /\ plain.refresh = prev.refresh /\ plain.subject = prev.subject
    BY <1>1, <1>2, PassedTokens
<1> HIDE DEF plain, bare
<1>5. CASE Refresh(c, w, client, prev)
  <2>1. Start(c, "redeeming", "refresh", w, client, plain)
      BY <1>5 DEF Refresh, plain
  <2>2. /\ call' \in [Calls -> CallStates] /\ call'[c] \in Busy
        /\ call'[c].stage = "redeeming" /\ call'[c].kind = "refresh" /\ call'[c].slot = w
        /\ call'[c].client = client /\ call'[c].prev = plain
        /\ \A d \in Calls \ {c}: call'[d] = call[d]
      BY <1>1, <1>4, <2>1, NewCall
  <2>3. /\ prev.client = client /\ prev.refresh # None /\ prev.verified = prev.refresh
        /\ used' = [used EXCEPT ![w] = TRUE]
        /\ sent' = sent \cup {[client |-> client, subject |-> prev.subject, token |-> prev.refresh]}
        /\ UNCHANGED <<held, newest, rotates>>
      BY <1>5 DEF Refresh, OfThisClient, OwnRefresh
  <2> QED
      BY <1>2, <1>4, <2>2, <2>3 DEF Sent, Others, Has
<1>6. CASE UserInfo(c, w, client, prev)
  <2>1. PICK stage \in {"verifying", "asking"}: Start(c, stage, "userinfo", w, client, bare)
      BY <1>6 DEF UserInfo, bare
  <2>2. /\ call' \in [Calls -> CallStates] /\ call'[c] \in Busy
        /\ call'[c].stage = stage /\ call'[c].kind = "userinfo"
        /\ \A d \in Calls \ {c}: call'[d] = call[d]
      BY <1>1, <1>4, <2>1, NewCall
  <2> QED
      BY <1>6, <2>2 DEF UserInfo, Elsewhere, Others
<1> QED
    BY <1>3, <1>5, <1>6

\* A redeemed refresh token is answered with one of the same session, the newest if rotated.
LEMMA RedeemEffect ==
    ASSUME SessionInv, NEW c \in Calls, Redeem(c)
    PROVE  Redeemed(c)
<1> DEFINE s == call[c].prev.refresh[1]
           gen == call[c].prev.refresh[2]
<1>1. /\ TypeOK /\ call[c].stage = "redeeming" /\ call[c].prev.refresh \in RefreshTokens
    BY DEF SessionInv, CallsBound, Refreshing, RefreshBound, Redeem
<1>2. s \in Sessions /\ gen \in 1..MaxGen /\ call[c].prev.refresh = <<s, gen>>
    BY <1>1 DEF RefreshTokens
<1>3. call[c] \in Busy
    BY <1>1, BusyCall
<1>4. PICK id \in Sessions \cup {None},
           refresh \in IF rotates THEN {<<s, gen + 1>>} ELSE {None, <<s, gen>>}:
          call' = [call EXCEPT ![c].stage = "answered", ![c].got = [refresh |-> refresh, id |-> id]]
    BY DEF Redeem
<1>5. /\ rotates => gen = newest[s] /\ gen < MaxGen
      /\ newest' = IF rotates THEN [newest EXCEPT ![s] = gen + 1] ELSE newest
      /\ UNCHANGED <<held, used, rotates, sent>>
    BY DEF Redeem
<1>6. refresh \in RefreshTokens \cup {None} /\ newest' \in [Sessions -> 0..MaxGen]
  <2>1. CASE rotates
    <3>1. gen + 1 \in 1..MaxGen /\ gen + 1 \in 0..MaxGen
        BY <1>2, <1>5, <2>1, SessionAssumption
    <3> QED
        BY <1>1, <1>2, <1>4, <1>5, <2>1, <3>1 DEF RefreshTokens, TypeOK
  <2>2. CASE ~rotates
      BY <1>1, <1>2, <1>4, <1>5, <2>2 DEF TypeOK
  <2> QED
      BY <2>1, <2>2
<1> DEFINE answer == [refresh |-> refresh, id |-> id]
           new == [call[c] EXCEPT !.stage = "answered", !.got = answer]
<1>7. answer \in Answers /\ answer.refresh = refresh
    BY <1>6 DEF Answers
<1>8. call \in [Calls -> CallStates] /\ call' = [call EXCEPT ![c] = new]
    BY <1>1, <1>4 DEF TypeOK
<1> HIDE DEF answer
<1>9. /\ new \in Busy /\ new.stage = "answered" /\ new.got = answer
      /\ new.kind = call[c].kind /\ new.prev = call[c].prev
      /\ new.slot = call[c].slot /\ new.client = call[c].client
    BY <1>3, <1>7 DEF Busy
<1>10. Busy \subseteq CallStates
    BY DEF Busy, CallStates
<1> HIDE DEF new
<1>11. call'[c] = new /\ call' \in [Calls -> CallStates] /\ \A d \in Calls \ {c}: call'[d] = call[d]
    BY <1>8, <1>9, <1>10
<1>12. answer # None
    BY <1>7, NoneAssumption DEF Answers
<1>13. Others(c) /\ call'[c] \in Busy /\ SameRefresh(c) /\ call'[c].stage = "answered"
    BY <1>9, <1>11 DEF Others, SameRefresh
<1>14. /\ call'[c].got # None /\ call'[c].got.refresh = refresh
    BY <1>7, <1>9, <1>11, <1>12
<1> HIDE DEF new, s, gen
<1>15. /\ rotates => refresh = <<s, gen + 1>>
       /\ ~rotates => refresh \in {None, <<s, gen>>}
    BY <1>4
<1>16. /\ rotates => gen = newest[s] /\ newest' = [newest EXCEPT ![s] = gen + 1]
       /\ ~rotates => newest' = newest
    BY <1>5
<1>17. s = SessionOf(c) /\ gen = call[c].prev.refresh[2]
    BY DEF SessionOf, s, gen
<1> QED
    BY <1>1, <1>5, <1>6, <1>13, <1>14, <1>15, <1>16, <1>17 DEF Redeemed

\* A step of a call under way.
LEMMA StepEffect ==
    ASSUME SessionInv, NEW c \in Calls, Step(c)
    PROVE  CallEffect(c)
<1>1. /\ TypeOK
      /\ call[c].stage \in {"redeeming", "answered"} => call[c].kind = "refresh"
      /\ Pending(c) => AnswerBound(c)
    BY DEF SessionInv, CallsBound
<1>2. call[c].stage # "idle"
    BY DEF Step, Redeem, AnswerLands, CallFails, Verify, Ask
<1>3. call[c] \in Busy
    BY <1>1, <1>2, BusyCall
<1>4. CASE Redeem(c)
    BY <1>4, RedeemEffect DEF CallEffect
<1>5. CASE AnswerLands(c)
  <2>1. PICK stage \in {"verifying", "asking"}:
            /\ stage = (IF call[c].got.id = None THEN "asking" ELSE "verifying")
            /\ call' = [call EXCEPT ![c].stage = stage]
      BY <1>5 DEF AnswerLands
  <2> QED
      BY <1>1, <1>2, <1>5, <2>1, MovedCall DEF AnswerLands, CallEffect, Landed, Others, SameRefresh
<1>6. CASE CallFails(c)
    BY <1>2, <1>6, FailEffect DEF CallFails, CallEffect
<1>7. CASE Verify(c)
  <2>1. UNCHANGED <<newest, rotates, sent>> /\ call[c].stage = "verifying"
      BY <1>7 DEF Verify
  <2>2. CASE IdSubject(c) # call[c].prev.subject
      BY <1>2, <1>7, <2>1, <2>2, FailEffect DEF Verify, CallEffect
  <2>3. CASE IdSubject(c) = call[c].prev.subject /\ call[c].kind = "refresh"
    <3>1. Pending(c)
        BY <2>1, <2>3 DEF Pending, Refreshing
    <3>2. Refreshed(c, None)
        BY <1>7, <2>3 DEF Verify
    <3>3. call[c].got.id # None /\ Subject[call[c].got.id] = call[c].prev.subject
        BY <1>1, <2>1, <2>3, <3>1 DEF AnswerBound, IdSubject
    <3> QED
        BY <2>1, <3>1, <3>2, <3>3, RefreshedEffect DEF CallEffect
  <2>4. CASE IdSubject(c) = call[c].prev.subject /\ call[c].kind # "refresh"
    <3>1. call[c].kind = "userinfo"
        BY <1>3, <2>4 DEF Busy
    <3>2. call' = [call EXCEPT ![c].stage = "asking"] /\ UNCHANGED <<held, used>>
        BY <1>7, <2>4 DEF Verify
    <3> QED
        BY <1>1, <1>2, <2>1, <3>1, <3>2, MovedCall DEF CallEffect, Elsewhere, Others
  <2> QED
      BY <2>2, <2>3, <2>4
<1>8. CASE Ask(c)
  <2>1. UNCHANGED <<newest, rotates, sent>> /\ call[c].stage = "asking"
      BY <1>8 DEF Ask
  <2>2. PICK who \in Subjects:
            IF who # call[c].prev.subject THEN Fail(c)
            ELSE IF call[c].kind = "refresh" THEN Refreshed(c, who)
            ELSE End(c, "ok", who) /\ UNCHANGED <<held, used>>
      BY <1>8 DEF Ask
  <2>3. CASE who # call[c].prev.subject
      BY <1>2, <2>1, <2>2, <2>3, FailEffect DEF CallEffect
  <2>4. CASE who = call[c].prev.subject /\ call[c].kind = "refresh"
    <3>1. Pending(c)
        BY <2>1, <2>4 DEF Pending, Refreshing
    <3>2. call[c].got.id = None
        BY <1>1, <2>1, <3>1 DEF AnswerBound
    <3> QED
        BY <2>1, <2>2, <2>4, <3>1, <3>2, RefreshedEffect DEF CallEffect
  <2>5. CASE who = call[c].prev.subject /\ call[c].kind # "refresh"
    <3>1. call[c].kind = "userinfo" /\ who \in Subjects \cup {None}
        BY <1>3, <2>5 DEF Busy
    <3>2. End(c, "ok", who) /\ UNCHANGED <<held, used>>
        BY <2>2, <2>5
    <3> QED
        BY <1>1, <1>2, <2>1, <2>5, <3>1, <3>2, EndedCall DEF CallEffect, Elsewhere, Others
  <2> QED
      BY <2>3, <2>4, <2>5
<1> QED
    BY <1>4, <1>5, <1>6, <1>7, <1>8 DEF Step

\* Every step is one of these, a new session, or changes nothing that the invariant is about.
LEMMA Effects ==
    ASSUME SessionInv, [Next]_vars
    PROVE  \/ \E c \in Calls: CallEffect(c)
           \/ \E w \in Slots, s \in Sessions: Acquire(w, s)
           \/ Still
<1>1. CASE \E c \in Calls: Called(c) \/ Step(c)
    BY <1>1, CalledEffect, StepEffect DEF CallEffect
<1>2. CASE (\E s \in Sessions: Revoke(s)) \/ Quiet \/ UNCHANGED vars
    BY <1>2 DEF Revoke, Quiet, vars, Still
<1> QED
    BY <1>1, <1>2 DEF Next
-----------------------------------------------------------------------------
(* The invariant is kept *)

\* A slot with a refresh token holds one that was made, and no slot shares its session.
LEMMA HeldToken ==
    ASSUME SessionInv, NEW w \in Slots, Has(w)
    PROVE  /\ held[w] \in Tokens /\ held[w].verified \in RefreshTokens
           /\ held[w].verified[1] \in Sessions /\ held[w].verified[2] \in 1..MaxGen
           /\ newest[held[w].verified[1]] \in Nat
           /\ held[w].verified[2] <= newest[held[w].verified[1]]
           /\ Subject[held[w].verified[1]] = held[w].subject
           /\ Client[held[w].verified[1]] = held[w].client
<1>1. held[w] \in Tokens /\ held[w].verified # None /\ newest \in [Sessions -> 0..MaxGen]
    BY DEF SessionInv, TypeOK, Has
<1>2. held[w].verified \in Sessions \X (1..MaxGen)
    BY <1>1 DEF Tokens, RefreshTokens
<1>3. held[w].verified[1] \in Sessions /\ held[w].verified[2] \in 1..MaxGen
    BY <1>2
<1>4. newest[held[w].verified[1]] \in 0..MaxGen
    BY <1>1, <1>3
<1>5. BoundToSession /\ SlotsApart
    BY DEF SessionInv
<1> QED
    BY <1>1, <1>2, <1>3, <1>4, <1>5 DEF RefreshTokens, BoundToSession, SlotsApart, Has

\* A refresh under way has a slot with a refresh token of its session.
LEMMA RefreshingCall ==
    ASSUME SessionInv, NEW c \in Calls, Refreshing(c)
    PROVE  /\ call[c] \in Busy /\ RefreshBound(c) /\ call[c].slot \in Slots
           /\ call[c].client \in Clients /\ call[c].prev \in Tokens
           /\ SessionOf(c) \in Sessions /\ call[c].prev.refresh[2] \in 1..MaxGen
           /\ call[c].prev.refresh = <<SessionOf(c), call[c].prev.refresh[2]>>
           /\ Has(call[c].slot) /\ SlotOf(c) \in Tokens
           /\ SlotOf(c).verified[2] \in 1..MaxGen /\ SlotOf(c).verified[1] = SessionOf(c)
           /\ newest[SessionOf(c)] \in Nat
<1>1. TypeOK /\ call[c].stage # "idle" /\ RefreshBound(c)
    BY DEF SessionInv, CallsBound, Refreshing
<1>2. call[c] \in Busy
    BY <1>1, BusyCall
<1>3. call[c].slot \in Slots /\ call[c].client \in Clients /\ call[c].prev \in Tokens
    BY <1>2 DEF Busy
<1>4. call[c].prev.refresh \in Sessions \X (1..MaxGen)
    BY <1>1 DEF RefreshBound, RefreshTokens
<1>5. /\ SessionOf(c) \in Sessions /\ call[c].prev.refresh[2] \in 1..MaxGen
      /\ call[c].prev.refresh = <<SessionOf(c), call[c].prev.refresh[2]>>
    BY <1>4 DEF SessionOf
<1>6. Has(call[c].slot) /\ SlotOf(c).verified[1] = SessionOf(c)
    BY <1>1 DEF RefreshBound
<1>7. SlotOf(c) \in Tokens /\ SlotOf(c).verified[2] \in 1..MaxGen
    BY <1>3, <1>6, HeldToken DEF SlotOf
<1>8. newest[SessionOf(c)] \in Nat
    BY <1>1, <1>5 DEF TypeOK
<1> QED
    BY <1>1, <1>2, <1>3, <1>5, <1>6, <1>7, <1>8

\* The Tokens that replace those of a slot hold the refresh token of the answer, or the old
\* one; both are of the slot's session, and the answer's is the newest where tokens rotate.
LEMMA RenewedTokens ==
    ASSUME SessionInv, NEW c \in Calls, Renewed(c)
    PROVE  /\ Refreshing(c) /\ call[c].slot \in Slots
           /\ held' \in [Slots -> Tokens \cup {None}] /\ held'[call[c].slot] \in Tokens
           /\ held'[call[c].slot] # None
           /\ held'[call[c].slot].verified = held'[call[c].slot].refresh
           /\ held'[call[c].slot].verified \in RefreshTokens
           /\ held'[call[c].slot].verified[1] = SessionOf(c)
           /\ held'[call[c].slot].verified[2] <= newest[SessionOf(c)]
           /\ rotates => held'[call[c].slot].verified[2] = newest[SessionOf(c)]
           /\ held'[call[c].slot].subject = Subject[SessionOf(c)]
           /\ held'[call[c].slot].client = Client[SessionOf(c)]
           /\ \A w \in Slots \ {call[c].slot}: held'[w] = held[w] /\ used'[w] = used[w]
           /\ used' \in [Slots -> BOOLEAN] /\ used'[call[c].slot] = FALSE
<1> DEFINE answer == [call[c].got EXCEPT !.refresh = Kept(c)]
           t == Verified(answer, call[c].prev.subject, call[c].client)
           w == call[c].slot
<1>1. /\ Pending(c) /\ Refreshing(c)
      /\ held' = [held EXCEPT ![w] = t] /\ used' = [used EXCEPT ![w] = FALSE]
    BY DEF Renewed, Pending
<1>2. /\ call[c] \in Busy /\ RefreshBound(c) /\ w \in Slots
      /\ call[c].client \in Clients /\ call[c].prev \in Tokens /\ SessionOf(c) \in Sessions
    BY <1>1, RefreshingCall
<1>3. TypeOK /\ AnswerBound(c)
    BY <1>1 DEF SessionInv, CallsBound
<1>4. call[c].got \in Answers
    BY <1>2, <1>3 DEF Busy, AnswerBound
<1>5. /\ Kept(c) \in RefreshTokens /\ Kept(c)[1] = SessionOf(c)
      /\ Kept(c)[2] <= newest[SessionOf(c)]
    BY <1>2, <1>3, <1>4 DEF Kept, AnswerBound, RefreshBound, Answers, SessionOf
<1>6. rotates => Kept(c)[2] = newest[SessionOf(c)]
    BY <1>1 DEF SessionInv, NewestIsSomewhere, Newest, HasNewest, Kept
<1>7. answer.refresh = Kept(c) /\ answer.id \in Sessions \cup {None}
    BY <1>4 DEF Answers
<1> HIDE DEF answer
<1>8. call[c].prev.subject \in Subjects
    BY <1>2 DEF Tokens
<1>9. /\ t \in Tokens /\ t.verified = Kept(c) /\ t.refresh = Kept(c)
      /\ t.subject = call[c].prev.subject /\ t.client = call[c].client
    BY <1>2, <1>5, <1>7, <1>8 DEF Verified, Tokens
<1>10. t # None
    BY <1>9, NoneAssumption
<1> HIDE DEF t
<1>11. held \in [Slots -> Tokens \cup {None}] /\ used \in [Slots -> BOOLEAN]
    BY <1>3 DEF TypeOK
<1>12. /\ held'[w] = t /\ held' \in [Slots -> Tokens \cup {None}]
       /\ used' \in [Slots -> BOOLEAN] /\ used'[w] = FALSE
       /\ \A v \in Slots \ {w}: held'[v] = held[v] /\ used'[v] = used[v]
    BY <1>1, <1>2, <1>9, <1>11
<1> QED
    BY <1>1, <1>2, <1>5, <1>6, <1>9, <1>10, <1>12 DEF RefreshBound

\* A new session fills an empty slot, with a refresh token or without; no slot held Tokens
\* of the session before, and no call was refreshing it.
LEMMA Acquired ==
    ASSUME SessionInv, NEW w \in Slots, NEW s \in Sessions, Acquire(w, s)
    PROVE  /\ held' \in [Slots -> Tokens \cup {None}] /\ held'[w] \in Tokens /\ ~Has(w)
           /\ held'[w].verified = held'[w].refresh /\ held'[w].verified \in {None, <<s, 1>>}
           /\ held'[w].subject = Subject[s] /\ held'[w].client = Client[s]
           /\ \A v \in Slots \ {w}: held'[v] = held[v]
           /\ newest' \in [Sessions -> 0..MaxGen] /\ newest[s] = 0 /\ newest'[s] = 1
           /\ \A z \in Sessions \ {s}: newest'[z] = newest[z]
           /\ \A v \in Slots: Has(v) => v # w /\ held[v].verified[1] # s
           /\ \A c \in Calls: Refreshing(c) => SessionOf(c) # s /\ call[c].slot # w
<1>1. TypeOK /\ held[w] = None /\ newest[s] = 0
    BY DEF SessionInv, Acquire
<1>2. PICK refresh \in {None, <<s, 1>>}:
          held' = [held EXCEPT ![w] = Verified([refresh |-> refresh, id |-> s], Subject[s], Client[s])]
    BY DEF Acquire
<1>3. 1 \in 1..MaxGen /\ 1 \in 0..MaxGen
    BY SessionAssumption
<1>4. refresh \in RefreshTokens \cup {None}
    BY <1>3 DEF RefreshTokens
<1> DEFINE t == Verified([refresh |-> refresh, id |-> s], Subject[s], Client[s])
<1>5. Subject[s] \in Subjects /\ Client[s] \in Clients
    BY SessionAssumption DEF Subjects
<1>6. /\ t \in Tokens /\ t.verified = refresh /\ t.refresh = refresh
      /\ t.subject = Subject[s] /\ t.client = Client[s]
    BY <1>4, <1>5 DEF Verified, Tokens
<1>7. held' = [held EXCEPT ![w] = t]
    BY <1>2
<1> HIDE DEF t
<1>8. /\ held'[w] = t /\ held' \in [Slots -> Tokens \cup {None}]
      /\ \A v \in Slots \ {w}: held'[v] = held[v]
    BY <1>1, <1>6, <1>7 DEF TypeOK
<1>9. newest \in [Sessions -> 0..MaxGen] /\ newest' = [newest EXCEPT ![s] = 1]
    BY <1>1 DEF TypeOK, Acquire
<1>10. /\ newest' \in [Sessions -> 0..MaxGen] /\ newest'[s] = 1
       /\ \A z \in Sessions \ {s}: newest'[z] = newest[z]
    BY <1>3, <1>9
<1>11. ~Has(w)
    BY <1>1 DEF Has
<1>12. ASSUME NEW v \in Slots, Has(v) PROVE v # w /\ held[v].verified[1] # s
    BY <1>1, <1>11, <1>12, HeldToken
<1>13. ASSUME NEW c \in Calls, Refreshing(c) PROVE SessionOf(c) # s /\ call[c].slot # w
    BY <1>12, <1>13, RefreshingCall DEF SlotOf
<1> QED
    BY <1>1, <1>6, <1>8, <1>10, <1>11, <1>12, <1>13

\* What a step leaves: rotation, the sessions of the slots, and what Keycloak has handed out.
Framed ==
    /\ rotates' = rotates /\ newest' \in [Sessions -> 0..MaxGen]
    /\ \A s \in Sessions: newest[s] <= newest'[s]
    /\ \A w \in Slots: Has(w) => Has(w)' /\ held'[w].verified[1] = held[w].verified[1]

\* No call's step gives a slot another session or takes a refresh token back.
LEMMA CallFrames ==
    ASSUME SessionInv, NEW c \in Calls, CallEffect(c)
    PROVE  Framed
<1>1. newest \in [Sessions -> 0..MaxGen] /\ \A s \in Sessions: newest[s] \in Nat
    BY DEF SessionInv, TypeOK
<1>2. CASE Sent(c) \/ Elsewhere(c) \/ Landed(c)
    BY <1>1, <1>2 DEF Sent, Elsewhere, Landed, Framed, Has
<1>3. CASE Redeemed(c)
  <2>1. \A s \in Sessions: newest[s] <= newest'[s]
      BY <1>1, <1>3 DEF Redeemed
  <2> QED
      BY <1>3, <2>1 DEF Redeemed, Framed, Has
<1>4. CASE Renewed(c)
  <2>1. UNCHANGED <<newest, rotates>>
      BY <1>4 DEF Renewed
  <2>2. SlotOf(c).verified[1] = SessionOf(c)
      BY <1>4, RenewedTokens, RefreshingCall
  <2>3. ASSUME NEW w \in Slots, Has(w) PROVE Has(w)' /\ held'[w].verified[1] = held[w].verified[1]
    <3>1. CASE w = call[c].slot
        BY <1>4, <2>2, <3>1, RenewedTokens, NoneAssumption DEF Has, SlotOf
    <3>2. CASE w # call[c].slot
        BY <1>4, <2>3, <3>2, RenewedTokens DEF Has
    <3> QED
        BY <3>1, <3>2
  <2> QED
      BY <1>1, <2>1, <2>3 DEF Framed
<1> QED
    BY <1>2, <1>3, <1>4 DEF CallEffect

\* Nor does a new session.
LEMMA AcquireFrames ==
    ASSUME SessionInv, NEW w \in Slots, NEW s \in Sessions, Acquire(w, s)
    PROVE  Framed
<1>1. newest \in [Sessions -> 0..MaxGen] /\ \A z \in Sessions: newest[z] \in Nat
    BY DEF SessionInv, TypeOK
<1>2. \A z \in Sessions: newest[z] <= newest'[z]
    BY <1>1, Acquired
<1>3. \A v \in Slots: Has(v) => Has(v)' /\ held'[v].verified[1] = held[v].verified[1]
    BY Acquired DEF Has
<1>4. rotates' = rotates
    BY DEF Acquire
<1> QED
    BY <1>2, <1>3, <1>4, Acquired DEF Framed

\* A refresh that a step does not move stays bound.
LEMMA StaysBound ==
    ASSUME SessionInv, Framed, NEW d \in Calls, call'[d] = call[d], Refreshing(d)
    PROVE  RefreshBound(d)' /\ (Pending(d) => AnswerBound(d)')
<1>1. /\ RefreshBound(d) /\ call[d].slot \in Slots /\ SessionOf(d) \in Sessions
      /\ call[d].prev.refresh[2] \in Nat /\ newest[SessionOf(d)] \in Nat /\ call[d] \in Busy
    BY RefreshingCall
<1>2. newest'[SessionOf(d)] \in Nat /\ newest[SessionOf(d)] <= newest'[SessionOf(d)]
    BY <1>1 DEF Framed
<1>3. RefreshBound(d)'
    BY <1>1, <1>2 DEF Framed, RefreshBound, SessionOf, SlotOf
<1>4. ASSUME Pending(d) PROVE AnswerBound(d)'
  <2>1. AnswerBound(d)
      BY <1>4 DEF SessionInv, CallsBound
  <2>2. call[d].got.refresh # None => call[d].got.refresh[2] \in Nat
      BY <1>1, <2>1 DEF AnswerBound, Busy, Answers, RefreshTokens
  <2> QED
      BY <1>1, <1>2, <2>1, <2>2 DEF AnswerBound, SessionOf
<1> QED
    BY <1>3, <1>4

\* Types.
LEMMA TypeStep ==
    ASSUME SessionInv, [Next]_vars
    PROVE  TypeOK'
<1>1. TypeOK
    BY DEF SessionInv
<1>2. live' \subseteq Sessions
  <2>1. live \subseteq Sessions
      BY <1>1 DEF TypeOK
  <2>2. ASSUME NEW c \in Calls, Called(c) PROVE live' = live
      BY <2>2 DEF Called, Refresh, UserInfo
  <2>3. ASSUME NEW c \in Calls, Step(c) PROVE live' = live
      BY <2>3 DEF Step, Redeem, AnswerLands, CallFails, Verify, Ask
  <2>4. ASSUME NEW w \in Slots, NEW s \in Sessions, Acquire(w, s) PROVE live' = live \cup {s}
      BY <2>4 DEF Acquire
  <2>5. ASSUME NEW s \in Sessions, Revoke(s) PROVE live' = live \ {s}
      BY <2>5 DEF Revoke
  <2>6. CASE Quiet \/ UNCHANGED vars
      BY <2>1, <2>6 DEF Quiet, vars
  <2> QED
      BY <2>1, <2>2, <2>3, <2>4, <2>5, <2>6 DEF Next
<1>3. ASSUME NEW c \in Calls, CallEffect(c) PROVE TypeOK'
  <2>1. newest' \in [Sessions -> 0..MaxGen] /\ rotates' = rotates
      BY <1>3, CallFrames DEF Framed
  <2>2. call' \in [Calls -> CallStates]
      BY <1>3 DEF CallEffect, Sent, Elsewhere, Redeemed, Landed, Renewed, Others
  <2>3. CASE Sent(c)
    <3>1. /\ call'[c].slot \in Slots /\ call'[c].client \in Clients
          /\ call'[c].prev \in Tokens
        BY <2>3 DEF Sent, Busy
    <3>2. call'[c].prev.refresh \in RefreshTokens /\ call'[c].prev.subject \in Subjects
        BY <2>3, <3>1, HeldToken DEF Sent, Tokens
    <3>3. sent' \subseteq [client: Clients, subject: Subjects, token: RefreshTokens]
        BY <1>1, <2>3, <3>1, <3>2 DEF TypeOK, Sent
    <3>4. used' \in [Slots -> BOOLEAN] /\ held' \in [Slots -> Tokens \cup {None}]
        BY <1>1, <2>3, <3>1 DEF TypeOK, Sent
    <3> QED
        BY <1>1, <1>2, <2>1, <2>2, <3>3, <3>4 DEF TypeOK
  <2>4. CASE Elsewhere(c) \/ Redeemed(c) \/ Landed(c)
      BY <1>1, <1>2, <2>1, <2>2, <2>4 DEF TypeOK, Elsewhere, Redeemed, Landed
  <2>5. CASE Renewed(c)
    <3>1. sent' = sent
        BY <2>5 DEF Renewed
    <3> QED
        BY <1>1, <1>2, <2>1, <2>2, <2>5, <3>1, RenewedTokens DEF TypeOK
  <2> QED
      BY <1>3, <2>3, <2>4, <2>5 DEF CallEffect
<1>4. ASSUME NEW w \in Slots, NEW s \in Sessions, Acquire(w, s) PROVE TypeOK'
  <2>1. UNCHANGED <<used, call, rotates, sent>>
      BY <1>4 DEF Acquire
  <2> QED
      BY <1>1, <1>2, <1>4, <2>1, Acquired DEF TypeOK
<1>5. CASE Still
    BY <1>1, <1>2, <1>5 DEF Still, TypeOK
<1> QED
    BY <1>3, <1>4, <1>5, Effects

\* The refresh token of a slot stays that of a session of its subject at its client.
LEMMA BoundStep ==
    ASSUME SessionInv, [Next]_vars
    PROVE  BoundToSession'
<1>1. BoundToSession
    BY DEF SessionInv
<1>2. ASSUME NEW c \in Calls, CallEffect(c) PROVE BoundToSession'
  <2>1. CASE Sent(c) \/ Elsewhere(c) \/ Redeemed(c) \/ Landed(c)
      BY <1>1, <2>1 DEF BoundToSession, Sent, Elsewhere, Redeemed, Landed
  <2>2. CASE Renewed(c)
    <3>1. /\ held'[call[c].slot].verified = held'[call[c].slot].refresh
          /\ Subject[held'[call[c].slot].verified[1]] = held'[call[c].slot].subject
          /\ Client[held'[call[c].slot].verified[1]] = held'[call[c].slot].client
          /\ \A w \in Slots \ {call[c].slot}: held'[w] = held[w]
        BY <2>2, RenewedTokens
    <3> QED
        BY <1>1, <3>1 DEF BoundToSession
  <2> QED
      BY <1>2, <2>1, <2>2 DEF CallEffect
<1>3. ASSUME NEW w \in Slots, NEW s \in Sessions, Acquire(w, s) PROVE BoundToSession'
    BY <1>1, <1>3, Acquired DEF BoundToSession
<1>4. CASE Still
    BY <1>1, <1>4 DEF Still, BoundToSession
<1> QED
    BY <1>2, <1>3, <1>4, Effects

\* Refresh tokens are only sent for the slots' subjects and clients.
LEMMA SentStep ==
    ASSUME SessionInv, [Next]_vars
    PROVE  SentByOwner'
<1>1. SentByOwner
    BY DEF SessionInv
<1>2. ASSUME NEW c \in Calls, Sent(c) PROVE SentByOwner'
  <2>1. call'[c].slot \in Slots
      BY <1>2 DEF Sent, Busy
  <2>2. /\ Client[call'[c].prev.refresh[1]] = call'[c].client
        /\ Subject[call'[c].prev.refresh[1]] = call'[c].prev.subject
      BY <1>2, <2>1, HeldToken DEF Sent
  <2> QED
      BY <1>1, <1>2, <2>2 DEF Sent, SentByOwner
<1>3. CASE \E c \in Calls: Elsewhere(c) \/ Redeemed(c) \/ Landed(c) \/ Renewed(c)
    BY <1>1, <1>3 DEF Elsewhere, Redeemed, Landed, Renewed, SentByOwner
<1>4. CASE \E w \in Slots, s \in Sessions: Acquire(w, s)
    BY <1>1, <1>4 DEF Acquire, SentByOwner
<1>5. CASE Still
    BY <1>1, <1>5 DEF Still, SentByOwner
<1> QED
    BY <1>2, <1>3, <1>4, <1>5, Effects DEF CallEffect

\* Only a userinfo answer about the subject, or renewed Tokens, end a call well.
LEMMA AnswersStep ==
    ASSUME SessionInv, [Next]_vars
    PROVE  AnswersAreAboutSubject'
<1>1. AnswersAreAboutSubject
    BY DEF SessionInv
<1>2. ASSUME NEW c \in Calls, CallEffect(c) PROVE AnswersAreAboutSubject'
  <2>1. \A d \in Calls \ {c}: call'[d] = call[d]
      BY <1>2 DEF CallEffect, Sent, Elsewhere, Redeemed, Landed, Renewed, Others
  <2>2. ASSUME call'[c].stage = "done", call'[c].result = "ok"
        PROVE  IF call'[c].kind = "refresh" /\ call'[c].got.id # None
               THEN Subject[call'[c].got.id] = call'[c].prev.subject
               ELSE call'[c].told = call'[c].prev.subject
      BY <1>2, <2>2 DEF CallEffect, Sent, Elsewhere, Redeemed, Landed, Renewed
  <2> QED
      BY <1>1, <2>1, <2>2 DEF AnswersAreAboutSubject
<1>3. CASE \E w \in Slots, s \in Sessions: Acquire(w, s)
    BY <1>1, <1>3 DEF Acquire, AnswersAreAboutSubject
<1>4. CASE Still
    BY <1>1, <1>4 DEF Still, AnswersAreAboutSubject
<1> QED
    BY <1>2, <1>3, <1>4, Effects

\* Refreshes stay bound to the session of their slot.
LEMMA CallsStep ==
    ASSUME SessionInv, [Next]_vars
    PROVE  CallsBound'
<1> DEFINE BoundCall(c) ==
               /\ call[c].stage \in {"redeeming", "answered"} => call[c].kind = "refresh"
               /\ Refreshing(c) => RefreshBound(c)
               /\ Pending(c) => AnswerBound(c)
<1>1. \A c \in Calls: BoundCall(c)
    BY DEF SessionInv, CallsBound
<1>2. ASSUME NEW d \in Calls, call'[d] = call[d], Framed PROVE BoundCall(d)'
    BY <1>1, <1>2, StaysBound DEF Refreshing, Pending
<1>3. ASSUME NEW c \in Calls, CallEffect(c) PROVE \A d \in Calls: BoundCall(d)'
  <2>1. Framed
      BY <1>3, CallFrames
  <2>2. \A d \in Calls \ {c}: BoundCall(d)'
      BY <1>2, <1>3, <2>1 DEF CallEffect, Sent, Elsewhere, Redeemed, Landed, Renewed, Others
  <2>3. CASE Sent(c)
    <3>1. call'[c].slot \in Slots
        BY <2>3 DEF Sent, Busy
    <3>2. RefreshBound(c)'
        BY <2>3, <3>1, HeldToken DEF Sent, RefreshBound, SessionOf, SlotOf, Has
    <3> QED
        BY <2>2, <2>3, <3>2 DEF Sent, Pending, Refreshing
  <2>4. CASE Elsewhere(c) \/ Renewed(c)
    <3>1. BoundCall(c)'
        BY <2>4 DEF Elsewhere, Renewed, Pending, Refreshing
    <3> QED
        BY <2>2, <3>1
  <2>5. CASE Redeemed(c)
    <3>1. Refreshing(c)
        BY <1>1, <2>5 DEF Redeemed, Refreshing
    <3>2. /\ RefreshBound(c) /\ call[c].slot \in Slots /\ SessionOf(c) \in Sessions
          /\ call[c].prev.refresh[2] \in Nat /\ newest[SessionOf(c)] \in Nat
        BY <3>1, RefreshingCall
    <3>3. newest'[SessionOf(c)] \in Nat /\ newest[SessionOf(c)] <= newest'[SessionOf(c)]
        BY <2>1, <3>2 DEF Framed
    <3>4. RefreshBound(c)'
        BY <2>1, <2>5, <3>2, <3>3 DEF Framed, Redeemed, SameRefresh, RefreshBound, SessionOf, SlotOf
    <3>5. newest \in [Sessions -> 0..MaxGen]
        BY DEF SessionInv, TypeOK
    <3>6. SessionOf(c)' = SessionOf(c)
        BY <2>5 DEF Redeemed, SameRefresh, SessionOf
    <3>7. call'[c].got.refresh # None =>
              call'[c].got.refresh[1] = SessionOf(c) /\ call'[c].got.refresh[2] <= newest'[SessionOf(c)]
      <4>1. CASE rotates
          BY <2>5, <3>2, <3>5, <4>1 DEF Redeemed
      <4>2. CASE ~rotates
          BY <2>5, <3>2, <4>2 DEF Redeemed, RefreshBound
      <4> QED
          BY <4>1, <4>2
    <3>8. AnswerBound(c)'
        BY <2>5, <3>6, <3>7 DEF Redeemed, AnswerBound
    <3> QED
        BY <2>2, <2>5, <3>1, <3>4, <3>8 DEF Redeemed, SameRefresh, Refreshing
  <2>6. CASE Landed(c)
    <3>1. Refreshing(c) /\ Pending(c)
        BY <1>1, <2>6 DEF Landed, Pending, Refreshing
    <3>2. RefreshBound(c) /\ AnswerBound(c)
        BY <1>1, <3>1
    <3>3. RefreshBound(c)'
        BY <2>6, <3>2 DEF Landed, SameRefresh, RefreshBound, SessionOf, SlotOf, Has
    <3>4. AnswerBound(c)'
        BY <2>6, <3>2 DEF Landed, SameRefresh, AnswerBound, SessionOf
    <3> QED
        BY <2>2, <2>6, <3>1, <3>3, <3>4 DEF Landed, SameRefresh, Refreshing
  <2> QED
      BY <1>3, <2>3, <2>4, <2>5, <2>6 DEF CallEffect
<1>4. ASSUME NEW w \in Slots, NEW s \in Sessions, Acquire(w, s) PROVE \A d \in Calls: BoundCall(d)'
    BY <1>2, <1>4, AcquireFrames DEF Acquire
<1>5. ASSUME Still PROVE \A d \in Calls: BoundCall(d)'
  <2>1. newest \in [Sessions -> 0..MaxGen]
      BY DEF SessionInv, TypeOK
  <2>2. Framed
      BY <1>5, <2>1 DEF Still, Framed, Has
  <2> QED
      BY <1>2, <1>5, <2>2 DEF Still
<1> HIDE DEF BoundCall
<1>6. \A d \in Calls: BoundCall(d)'
  <2>1. CASE \E c \in Calls: CallEffect(c)
      BY <1>3, <2>1
  <2>2. CASE \E w \in Slots, s \in Sessions: Acquire(w, s)
      BY <1>4, <2>2
  <2> QED
      BY <1>5, <2>1, <2>2, Effects
<1> QED
    BY <1>6 DEF CallsBound, BoundCall

\* Slots stay apart, for Tokens are renewed within their session and new sessions are new.
LEMMA ApartStep ==
    ASSUME SessionInv, [Next]_vars
    PROVE  SlotsApart'
<1>1. SlotsApart /\ newest \in [Sessions -> 0..MaxGen]
    BY DEF SessionInv, TypeOK
<1>2. ASSUME NEW c \in Calls, CallEffect(c) PROVE SlotsApart'
  <2>1. Framed
      BY <1>2, CallFrames
  <2>2. CASE Sent(c) \/ Elsewhere(c) \/ Redeemed(c) \/ Landed(c)
    <3>1. held' = held
        BY <2>2 DEF Sent, Elsewhere, Redeemed, Landed
    <3>2. ASSUME NEW w \in Slots, Has(w)
          PROVE  held[w].verified[2] <= newest'[held[w].verified[1]]
      <4>1. /\ held[w].verified[1] \in Sessions /\ held[w].verified[2] \in Nat
            /\ held[w].verified[2] <= newest[held[w].verified[1]]
            /\ newest[held[w].verified[1]] \in Nat
          BY <3>2, HeldToken
      <4>2. /\ newest'[held[w].verified[1]] \in Nat
            /\ newest[held[w].verified[1]] <= newest'[held[w].verified[1]]
          BY <2>1, <4>1 DEF Framed
      <4> QED
          BY <4>1, <4>2
    <3> QED
        BY <1>1, <3>1, <3>2 DEF SlotsApart, Has
  <2>3. CASE Renewed(c)
    <3> DEFINE w == call[c].slot
    <3>1. newest' = newest
        BY <2>3 DEF Renewed
    <3>2. w \in Slots /\ Has(w) /\ held[w].verified[1] = SessionOf(c)
        BY <2>3, RenewedTokens, RefreshingCall DEF SlotOf
    <3>3. /\ held'[w].verified[1] = held[w].verified[1]
          /\ held'[w].verified[2] <= newest[held'[w].verified[1]]
          /\ \A v \in Slots \ {w}: held'[v] = held[v]
        BY <2>3, <3>2, RenewedTokens
    <3> HIDE DEF w
    <3>4. \A v \in Slots: Has(v)' => Has(v) /\ held'[v].verified[1] = held[v].verified[1]
        BY <3>2, <3>3 DEF Has
    <3>5. \A v \in Slots: Has(v)' => held'[v].verified[2] <= newest'[held'[v].verified[1]]
        BY <1>1, <3>1, <3>3, <3>4 DEF SlotsApart
    <3>6. \A u, v \in Slots: Has(u)' /\ Has(v)' /\ held'[u].verified[1] = held'[v].verified[1] => u = v
        BY <1>1, <3>4 DEF SlotsApart
    <3> QED
        BY <3>5, <3>6 DEF SlotsApart
  <2> QED
      BY <1>2, <2>2, <2>3 DEF CallEffect
<1>3. ASSUME NEW w \in Slots, NEW s \in Sessions, Acquire(w, s) PROVE SlotsApart'
  <2>1. \A v \in Slots \ {w}: Has(v)' => Has(v) /\ held'[v] = held[v]
      BY <1>3, Acquired DEF Has
  <2>2. Has(w)' => held'[w].verified[1] = s /\ held'[w].verified[2] = 1
      BY <1>3, Acquired DEF Has
  <2>3. \A v \in Slots \ {w}: Has(v)' =>
            held'[v].verified[1] # s /\ held'[v].verified[2] <= newest'[held'[v].verified[1]]
      BY <1>3, <2>1, Acquired, HeldToken
  <2>4. \A v \in Slots: Has(v)' => held'[v].verified[2] <= newest'[held'[v].verified[1]]
      BY <1>3, <2>2, <2>3, Acquired
  <2>5. \A u, v \in Slots: Has(u)' /\ Has(v)' /\ held'[u].verified[1] = held'[v].verified[1] => u = v
      BY <1>1, <2>1, <2>2, <2>3 DEF SlotsApart
  <2> QED
      BY <2>4, <2>5 DEF SlotsApart
<1>4. CASE Still
    BY <1>1, <1>4 DEF Still, SlotsApart, Has
<1> QED
    BY <1>2, <1>3, <1>4, Effects

\* Sending a refresh token uses up its slot, and redeems nothing yet.
LEMMA SentNewest ==
    ASSUME SessionInv, Newest, NEW c \in Calls, Sent(c)
    PROVE  Newest'
<1>1. used \in [Slots -> BOOLEAN] /\ call'[c].slot \in Slots
    BY DEF SessionInv, TypeOK, Sent, Busy
<1>2. /\ held' = held /\ newest' = newest /\ used' = [used EXCEPT ![call'[c].slot] = TRUE]
      /\ \A d \in Calls \ {c}: call'[d] = call[d]
      /\ call'[c].stage = "redeeming" /\ held[call'[c].slot].verified = call'[c].prev.refresh
    BY DEF Sent, Others
<1>3. used'[call'[c].slot] /\ \A w \in Slots: used[w] => used'[w]
    BY <1>1, <1>2
<1>4. \A w \in Slots: FreshSlot(w)'
    BY <1>2, <1>3 DEF Newest, FreshSlot, Has
<1>5. ~Pending(c)' /\ \A d \in Calls \ {c}: Pending(d)' = Pending(d) /\ SessionOf(d)' = SessionOf(d)
    BY <1>2 DEF Pending, Refreshing, SessionOf
<1>6. ASSUME NEW d \in Calls \ {c}, Refreshing(d) PROVE HasNewest(d)' /\ Redeemable(d)'
  <2>1. call[d].slot \in Slots /\ HasNewest(d) /\ Redeemable(d)
      BY <1>6, RefreshingCall DEF Newest
  <2> QED
      BY <1>2, <1>3, <1>5, <2>1 DEF HasNewest, Redeemable, SlotOf
<1>7. \A d \in Calls \ {c}: ~Refreshing(d) => HasNewest(d)' /\ Redeemable(d)'
    BY <1>2, <1>5 DEF SessionInv, CallsBound, Refreshing, Pending, HasNewest, Redeemable
<1>8. HasNewest(c)' /\ Redeemable(c)'
    BY <1>2, <1>3, <1>5 DEF HasNewest, Redeemable, SessionOf, SlotOf
<1>9. \A d, e \in Calls: Alone(d, e)'
    BY <1>5 DEF Newest, Alone
<1> QED
    BY <1>4, <1>6, <1>7, <1>8, <1>9 DEF Newest

\* A call that ends or is not a refresh takes nothing from the others.
LEMMA ElsewhereNewest ==
    ASSUME SessionInv, Newest, NEW c \in Calls, Elsewhere(c)
    PROVE  Newest'
<1>1. /\ held' = held /\ newest' = newest /\ used' = used
      /\ \A d \in Calls \ {c}: call'[d] = call[d]
      /\ call'[c].stage # "redeeming" /\ ~Pending(c)'
    BY DEF Elsewhere, Others, Pending, Refreshing
<1>2. \A w \in Slots: FreshSlot(w)'
    BY <1>1 DEF Newest, FreshSlot, Has
<1>3. \A d \in Calls \ {c}: Pending(d)' = Pending(d) /\ SessionOf(d)' = SessionOf(d)
    BY <1>1 DEF Pending, Refreshing, SessionOf
<1>4. \A d \in Calls \ {c}: HasNewest(d)' /\ Redeemable(d)'
    BY <1>1, <1>3 DEF Newest, HasNewest, Redeemable, SlotOf
<1>5. HasNewest(c)' /\ Redeemable(c)'
    BY <1>1 DEF HasNewest, Redeemable
<1>6. \A d, e \in Calls: Alone(d, e)'
    BY <1>1, <1>3 DEF Newest, Alone
<1> QED
    BY <1>2, <1>4, <1>5, <1>6 DEF Newest

\* The newest refresh token is redeemed by the call whose slot holds it; the new one is the
\* call's, and no other call of the session was pending or can redeem now.
LEMMA RedeemedNewest ==
    ASSUME SessionInv, Newest, rotates, NEW c \in Calls, Redeemed(c)
    PROVE  Newest'
<1> DEFINE s == SessionOf(c)
<1>1. Refreshing(c)
    BY DEF SessionInv, CallsBound, Refreshing, Redeemed
<1>2. /\ call[c].slot \in Slots /\ s \in Sessions /\ call[c].prev.refresh[2] \in Nat
      /\ Has(call[c].slot) /\ SlotOf(c).verified[1] = s /\ newest[s] \in Nat
    BY <1>1, RefreshingCall
<1>3. /\ held' = held /\ used' = used /\ SameRefresh(c)
      /\ call[c].stage = "redeeming" /\ call'[c].stage = "answered"
      /\ \A d \in Calls \ {c}: call'[d] = call[d]
      /\ call[c].prev.refresh[2] = newest[s] /\ newest' = [newest EXCEPT ![s] = newest[s] + 1]
      /\ call'[c].got.refresh = <<s, newest[s] + 1>>
    BY DEF Redeemed, Others
<1>4. newest \in [Sessions -> 0..MaxGen]
    BY DEF SessionInv, TypeOK
<1>5. newest'[s] = newest[s] + 1 /\ \A z \in Sessions \ {s}: newest'[z] = newest[z]
    BY <1>2, <1>3, <1>4
<1>6. used[call[c].slot] /\ SlotOf(c).verified[2] = newest[s]
    BY <1>3 DEF Newest, Redeemable
<1>7. SessionOf(c)' = s /\ call'[c].slot = call[c].slot /\ SlotOf(c)' = SlotOf(c)
    BY <1>3 DEF SameRefresh, SessionOf, SlotOf
<1> HIDE DEF s
<1>8. \A v \in Slots: Has(v) /\ held[v].verified[1] = s => v = call[c].slot
    BY <1>2 DEF SessionInv, SlotsApart, SlotOf
<1>9. \A w \in Slots: FreshSlot(w)'
  <2> SUFFICES ASSUME NEW w \in Slots, Has(w), ~used[w]
               PROVE  held[w].verified[2] = newest'[held[w].verified[1]]
      BY <1>3 DEF FreshSlot, Has
  <2>1. held[w].verified[1] \in Sessions \ {s}
      BY <1>6, <1>8, HeldToken
  <2> QED
      BY <1>5, <2>1 DEF Newest, FreshSlot
<1>10. ASSUME NEW d \in Calls \ {c}, Pending(d) PROVE SessionOf(d) \in Sessions \ {s}
  <2>1. /\ Refreshing(d) /\ call[d].slot \in Slots /\ Has(call[d].slot)
        /\ SlotOf(d).verified[1] = SessionOf(d) /\ SessionOf(d) \in Sessions
        /\ newest[SessionOf(d)] \in Nat
      BY <1>10, RefreshingCall DEF Pending
  <2>2. SlotOf(d).verified[2] < newest[SessionOf(d)]
      BY <1>10 DEF Newest, HasNewest
  <2>3. CASE SessionOf(d) = s
    <3>1. SlotOf(d) = SlotOf(c)
        BY <1>8, <2>1, <2>3 DEF SlotOf
    <3> QED
        BY <1>6, <2>1, <2>2, <2>3, <3>1
  <2> QED
      BY <2>1, <2>3
<1>11. \A d \in Calls \ {c}: Pending(d)' = Pending(d) /\ SessionOf(d)' = SessionOf(d)
    BY <1>3 DEF Pending, Refreshing, SessionOf
<1>12. ASSUME NEW d \in Calls \ {c} PROVE HasNewest(d)'
    BY <1>3, <1>5, <1>10, <1>11 DEF Newest, HasNewest, SlotOf
<1>13. ASSUME NEW d \in Calls \ {c} PROVE Redeemable(d)'
  <2> SUFFICES ASSUME call[d].stage = "redeeming", call[d].prev.refresh[2] = newest'[SessionOf(d)]
               PROVE  used[call[d].slot] /\ SlotOf(d).verified[2] = newest'[SessionOf(d)]
      BY <1>3, <1>11 DEF Redeemable, SlotOf
  <2>1. Refreshing(d)
      BY DEF SessionInv, CallsBound, Refreshing
  <2>2. SessionOf(d) \in Sessions /\ call[d].prev.refresh[2] <= newest[SessionOf(d)]
      BY <2>1, RefreshingCall DEF RefreshBound
  <2>3. SessionOf(d) # s
      BY <1>2, <1>5, <2>2
  <2>4. newest'[SessionOf(d)] = newest[SessionOf(d)]
      BY <1>5, <2>2, <2>3
  <2>5. Redeemable(d)
      BY DEF Newest
  <2> QED
      BY <2>4, <2>5 DEF Redeemable
<1>14. HasNewest(c)'
  <2>1. newest'[s] \in 0..MaxGen
      BY <1>2 DEF Redeemed
  <2>2. newest[s] + 1 \in 1..MaxGen
      BY <1>2, <1>5, <2>1
  <2>3. call'[c].got.refresh # None
      BY <1>2, <1>3, <2>2, NoneAssumption DEF RefreshTokens
  <2> QED
      BY <1>2, <1>3, <1>5, <1>6, <1>7, <2>3 DEF HasNewest
<1>15. Redeemable(c)'
    BY <1>3 DEF Redeemable
<1>16. \A d, e \in Calls: Alone(d, e)'
    BY <1>7, <1>10, <1>11 DEF Newest, Alone
<1> QED
    BY <1>9, <1>12, <1>13, <1>14, <1>15, <1>16 DEF Newest

\* An answer that lands is still the same call's.
LEMMA LandedNewest ==
    ASSUME SessionInv, Newest, NEW c \in Calls, Landed(c)
    PROVE  Newest'
<1>1. /\ held' = held /\ newest' = newest /\ used' = used
      /\ SameRefresh(c) /\ call'[c].got = call[c].got
      /\ call[c].stage = "answered" /\ call'[c].stage \in {"asking", "verifying"}
      /\ \A d \in Calls \ {c}: call'[d] = call[d]
    BY DEF Landed, Others
<1>2. \A w \in Slots: FreshSlot(w)'
    BY <1>1 DEF Newest, FreshSlot, Has
<1>3. \A d \in Calls: Pending(d)' = Pending(d) /\ SessionOf(d)' = SessionOf(d)
    BY <1>1 DEF Pending, Refreshing, SessionOf, SameRefresh
<1>4. \A d \in Calls: HasNewest(d)'
    BY <1>1, <1>3 DEF Newest, HasNewest, SlotOf, SameRefresh
<1>5. \A d \in Calls: Redeemable(d)'
    BY <1>1, <1>3 DEF Newest, Redeemable, SlotOf, SameRefresh
<1>6. \A d, e \in Calls: Alone(d, e)'
    BY <1>3 DEF Newest, Alone
<1> QED
    BY <1>2, <1>4, <1>5, <1>6 DEF Newest

\* Renewed Tokens hold the newest refresh token, and the call that had it was alone.
LEMMA RenewedNewest ==
    ASSUME SessionInv, Newest, rotates, NEW c \in Calls, Renewed(c)
    PROVE  Newest'
<1> DEFINE w == call[c].slot
<1>1. /\ Pending(c) /\ Refreshing(c) /\ w \in Slots /\ SlotOf(c).verified[1] = SessionOf(c)
      /\ held'[w].verified[1] = SessionOf(c) /\ held'[w].verified[2] = newest[SessionOf(c)]
      /\ \A v \in Slots \ {w}: held'[v] = held[v] /\ used'[v] = used[v]
    BY RenewedTokens, RefreshingCall DEF Renewed
<1>2. /\ newest' = newest /\ \A d \in Calls \ {c}: call'[d] = call[d]
      /\ call'[c].stage # "redeeming" /\ ~Pending(c)'
    BY DEF Renewed, Others, Pending, Refreshing
<1>3. SlotOf(c).verified[2] < newest[SessionOf(c)] /\ newest[SessionOf(c)] \in Nat
    BY <1>1, RefreshingCall DEF Newest, HasNewest
<1> HIDE DEF w
<1>4. \A v \in Slots: FreshSlot(v)'
    BY <1>1, <1>2 DEF Newest, FreshSlot, Has
<1>5. \A d \in Calls \ {c}: Pending(d)' = Pending(d) /\ SessionOf(d)' = SessionOf(d)
    BY <1>2 DEF Pending, Refreshing, SessionOf
<1>6. ASSUME NEW d \in Calls \ {c}, Pending(d) PROVE HasNewest(d)'
  <2>1. call[d].slot \in Slots /\ SlotOf(d).verified[1] = SessionOf(d)
      BY <1>6, RefreshingCall DEF Pending
  <2>2. SessionOf(d) # SessionOf(c)
      BY <1>1, <1>6 DEF Newest, Alone
  <2>3. call[d].slot # w
      BY <1>1, <2>1, <2>2 DEF SlotOf, w
  <2> QED
      BY <1>1, <1>2, <1>5, <2>1, <2>3 DEF Newest, HasNewest, SlotOf
<1>7. ASSUME NEW d \in Calls \ {c} PROVE Redeemable(d)'
  <2> SUFFICES ASSUME call[d].stage = "redeeming", call[d].prev.refresh[2] = newest[SessionOf(d)]
               PROVE  used'[call[d].slot] /\ held'[call[d].slot].verified[2] = newest[SessionOf(d)]
      BY <1>2, <1>5 DEF Redeemable, SlotOf
  <2>1. Refreshing(d)
      BY DEF SessionInv, CallsBound, Refreshing
  <2>2. call[d].slot \in Slots /\ SlotOf(d).verified[1] = SessionOf(d)
      BY <2>1, RefreshingCall
  <2>3. used[call[d].slot] /\ SlotOf(d).verified[2] = newest[SessionOf(d)]
      BY DEF Newest, Redeemable
  <2>4. call[d].slot # w
      BY <1>1, <1>3, <2>2, <2>3 DEF SlotOf, w
  <2> QED
      BY <1>1, <2>2, <2>3, <2>4 DEF SlotOf
<1>8. \A d \in Calls: HasNewest(d)'
    BY <1>2, <1>5, <1>6 DEF HasNewest
<1>9. Redeemable(c)'
    BY <1>2 DEF Redeemable
<1>10. \A d, e \in Calls: Alone(d, e)'
    BY <1>2, <1>5 DEF Newest, Alone
<1> QED
    BY <1>4, <1>7, <1>8, <1>9, <1>10 DEF Newest

\* A new session's only refresh token is with its slot.
LEMMA AcquireNewest ==
    ASSUME SessionInv, Newest, NEW w \in Slots, NEW s \in Sessions, Acquire(w, s)
    PROVE  Newest'
<1>1. UNCHANGED <<used, call>>
    BY DEF Acquire
<1>2. \A v \in Slots: FreshSlot(v)'
  <2>1. FreshSlot(w)'
      BY Acquired DEF FreshSlot, Has
  <2>2. ASSUME NEW v \in Slots \ {w} PROVE FreshSlot(v)'
      BY <1>1, Acquired, HeldToken DEF Newest, FreshSlot, Has
  <2> QED
      BY <2>1, <2>2
<1>3. ASSUME NEW c \in Calls, Refreshing(c) PROVE HasNewest(c)' /\ Redeemable(c)'
  <2>1. /\ call[c].slot \in Slots \ {w} /\ SessionOf(c) \in Sessions \ {s}
        /\ HasNewest(c) /\ Redeemable(c)
      BY <1>3, RefreshingCall, Acquired DEF Newest
  <2>2. held'[call[c].slot] = held[call[c].slot] /\ newest'[SessionOf(c)] = newest[SessionOf(c)]
      BY <2>1, Acquired
  <2> QED
      BY <1>1, <2>1, <2>2 DEF HasNewest, Redeemable, Pending, Refreshing, SessionOf, SlotOf
<1>4. \A c \in Calls: ~Refreshing(c) => HasNewest(c)' /\ Redeemable(c)'
    BY <1>1 DEF SessionInv, CallsBound, HasNewest, Redeemable, Pending, Refreshing
<1>5. \A c, d \in Calls: Alone(c, d)'
    BY <1>1 DEF Newest, Alone, Pending, Refreshing, SessionOf
<1> QED
    BY <1>2, <1>3, <1>4, <1>5 DEF Newest

\* Where tokens rotate, the newest one stays with a fresh slot or the pending call.
LEMMA NewestStep ==
    ASSUME SessionInv, [Next]_vars
    PROVE  NewestIsSomewhere'
<1>1. ASSUME NEW c \in Calls, CallEffect(c) PROVE NewestIsSomewhere'
  <2>1. rotates' = rotates
      BY <1>1, CallFrames DEF Framed
  <2>2. ASSUME rotates PROVE Newest'
    <3>1. Newest
        BY <2>2 DEF SessionInv, NewestIsSomewhere
    <3> QED
        BY <1>1, <2>2, <3>1, SentNewest, ElsewhereNewest, RedeemedNewest, LandedNewest, RenewedNewest
        DEF CallEffect
  <2> QED
      BY <2>1, <2>2 DEF NewestIsSomewhere
<1>2. ASSUME NEW w \in Slots, NEW s \in Sessions, Acquire(w, s) PROVE NewestIsSomewhere'
  <2>1. rotates' = rotates
      BY <1>2, AcquireFrames DEF Framed
  <2> QED
      BY <1>2, <2>1, AcquireNewest DEF SessionInv, NewestIsSomewhere
<1>3. CASE Still
    BY <1>3 DEF Still, SessionInv, NewestIsSomewhere, Newest, FreshSlot, HasNewest, Redeemable, Alone,
                Has, Pending, Refreshing, SessionOf, SlotOf
<1> QED
    BY <1>1, <1>2, <1>3, Effects
-----------------------------------------------------------------------------
(* The theorems *)

\* Before the first login nothing is held, sent or under way.
LEMMA InitialSession ==
    ASSUME Init
    PROVE  SessionInv
<1>1. TypeOK
    BY SessionAssumption DEF Init, TypeOK, CallStates
<1>2. /\ \A c \in Calls: call[c].stage = "idle"
      /\ \A w \in Slots: held[w] = None
      /\ sent = {}
    BY DEF Init, Idle
<1>3. BoundToSession /\ SentByOwner /\ AnswersAreAboutSubject
    BY <1>2 DEF BoundToSession, SentByOwner, AnswersAreAboutSubject
<1>4. CallsBound /\ SlotsApart
    BY <1>2 DEF CallsBound, SlotsApart, Refreshing, Pending, Has
<1>5. NewestIsSomewhere
    BY <1>2 DEF NewestIsSomewhere, Newest, FreshSlot, HasNewest, Redeemable, Alone, Pending, Refreshing, Has
<1> QED
    BY <1>1, <1>3, <1>4, <1>5 DEF SessionInv

\* Slots, sessions and the calls under way stay matched, whatever is refreshed meanwhile.
THEOREM SessionInvariant == Spec => []SessionInv
<1>1. ASSUME SessionInv, [Next]_vars PROVE SessionInv'
    BY <1>1, TypeStep, BoundStep, SentStep, AnswersStep, CallsStep, ApartStep, NewestStep DEF SessionInv
<1> QED
    BY <1>1, InitialSession, PTL DEF Spec

\* The state has its type.
THEOREM TypeCorrect == Spec => []TypeOK
<1>1. SessionInv => TypeOK
    BY DEF SessionInv
<1> QED
    BY <1>1, SessionInvariant, PTL

\* The refresh token a caller holds is of a session of the verified subject and client.
THEOREM AlwaysBoundToSession == Spec => []BoundToSession
<1>1. SessionInv => BoundToSession
    BY DEF SessionInv
<1> QED
    BY <1>1, SessionInvariant, PTL

\* A refresh token is only sent by the client, and for the subject, that it was verified for.
THEOREM AlwaysSentByOwner == Spec => []SentByOwner
<1>1. SessionInv => SentByOwner
    BY DEF SessionInv
<1> QED
    BY <1>1, SessionInvariant, PTL

\* A call succeeds only with an answer about the subject of its session.
THEOREM AlwaysAboutSubject == Spec => []AnswersAreAboutSubject
<1>1. SessionInv => AnswersAreAboutSubject
    BY DEF SessionInv
<1> QED
    BY <1>1, SessionInvariant, PTL

\* Tokens that no refresh has been sent for can be refreshed, until the session is revoked.
THEOREM AlwaysRefreshable == Spec => []FreshIsRefreshable
<1>1. SessionInv => FreshIsRefreshable
    BY DEF SessionInv, NewestIsSomewhere, Newest, FreshSlot, Has, FreshIsRefreshable
<1> QED
    BY <1>1, SessionInvariant, PTL
=============================================================================
