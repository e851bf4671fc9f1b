----------------------------- MODULE Challenges -----------------------------
(***************************************************************************)
(* What a waiting challenge takes for an answer (driver.rs, Expect), what   *)
(* the password page makes of its answers (factor.rs), and how PAM asks the *)
(* user for them (pam_himmelcloak, conversation.rs).  A challenge offers    *)
(* devices, credentials, methods or fields by name; an answer has a text, a *)
(* choice, and the named values of a required action.                       *)
(***************************************************************************)
EXTENDS Naturals, FiniteSets, SequencesExt

NoChoice == "none"

Offers == {"OneTimeCode", "WebAuthn", "ChooseMethod", "RequiredAction"}

\* Challenge::input: how the caller should collect the answer.
Input(challenge) ==
    CASE challenge.kind \in {"Password", "OneTimeCode", "RecoveryCode"} -> "Hidden"
      [] challenge.kind \in {"Username", "ChooseMethod"} -> "Visible"
      [] challenge.kind = "RequiredAction" -> "Form"
      [] challenge.kind \in {"WebAuthn", "Info"} -> "None"

-----------------------------------------------------------------------------
(* Expect *)

Answers(answer, name) == {i \in DOMAIN answer.given: answer.given[i].name = name}

AnsweredOnce(fields, answer) == \A f \in ToSet(fields): Cardinality(Answers(answer, f)) = 1

\* Mutant: values for what was not asked are not looked for.
FieldsAnsweredLoosely(fields, answer) == AnsweredOnce(fields, answer)

FieldsAnswered(fields, answer) ==
    Len(answer.given) = Len(fields) /\ AnsweredOnce(fields, answer)

\* Expect::of and check.
Check(challenge, answer) ==
    /\ answer.kind = IF challenge.kind = "Info" THEN "Acknowledge" ELSE challenge.kind
    /\ challenge.kind = "OneTimeCode" =>
           IF challenge.offered = <<>> THEN answer.chosen = NoChoice
                                       ELSE answer.chosen \in ToSet(challenge.offered)
    /\ challenge.kind = "WebAuthn" =>
           challenge.offered = <<>> \/ answer.chosen \in ToSet(challenge.offered)
    /\ challenge.kind = "ChooseMethod" => answer.chosen \in ToSet(challenge.offered)
    /\ challenge.kind = "RequiredAction" => FieldsAnswered(challenge.offered, answer)

-----------------------------------------------------------------------------
(* PasswordFactor, the one factor of Builtin *)

ForPage(page) == page = "UsernamePassword"

PageAsks(hinted) == IF hinted THEN <<"Password">> ELSE <<"Username", "Password">>

FieldOf(answer) == IF answer.kind = "Username" THEN "username" ELSE "password"

\* None for an answer of another kind.
PageFields(answers) ==
    IF \A i \in DOMAIN answers: answers[i].kind \in {"Username", "Password"}
    THEN {[i \in DOMAIN answers |-> [name |-> FieldOf(answers[i]), value |-> answers[i].text]]}
    ELSE {}

-----------------------------------------------------------------------------
(* conversation.rs: a message asks for a part of the answer, or tells something *)

Message(style, part) == [style |-> style, part |-> part]
Tell == <<Message("Information", "")>>

FieldMessages(challenge) ==
    [i \in DOMAIN challenge.offered |->
        Message(IF challenge.offered[i] \in challenge.secret THEN "HiddenInput" ELSE "VisibleInput",
                challenge.offered[i])]

\* Mutant: any device at hand is taken without asking.
ChoosesFirst(challenge) == FALSE

\* Mutant: a choice is asked for when there is only one device too.
ChoosesAlways(challenge) == challenge.offered # <<>>

ChoosesDevice(challenge) == Len(challenge.offered) > 1

Messages(challenge) ==
    CASE challenge.kind = "Username" -> <<Message("VisibleInput", "text")>>
      [] challenge.kind \in {"Password", "RecoveryCode"} -> <<Message("HiddenInput", "text")>>
      [] challenge.kind = "OneTimeCode" ->
             (IF ChoosesDevice(challenge) THEN <<Message("VisibleInput", "chosen")>> ELSE <<>>)
                 \o <<Message("HiddenInput", "text")>>
      [] challenge.kind = "ChooseMethod" -> <<Message("VisibleInput", "chosen")>>
      [] challenge.kind = "RequiredAction" ->
             (IF challenge.told THEN Tell ELSE <<>>) \o FieldMessages(challenge)
      [] challenge.kind \in {"Info", "WebAuthn"} -> Tell

NextAction(challenge) ==
    CASE challenge.kind = "WebAuthn" -> "WebAuthnAdapter"
      [] challenge.kind = "Info" \/ (challenge.kind = "RequiredAction" /\ challenge.offered = <<>>)
             -> "Acknowledge"
      [] OTHER -> "CollectInput"

\* Names that Keycloak sent are in a message: those of devices only if one is to be chosen.
ShowsNames(challenge) == challenge.kind = "OneTimeCode" => ChoosesDevice(challenge)

\* plan and checked: no method to choose from, or a NUL in what Keycloak sent, is refused.
Plans(challenge) ==
    IF \/ challenge.kind = "ChooseMethod" /\ challenge.offered = <<>>
       \/ challenge.nul /\ ShowsNames(challenge)
    THEN {}
    ELSE {[messages |-> Messages(challenge), next |-> NextAction(challenge)]}
=============================================================================
