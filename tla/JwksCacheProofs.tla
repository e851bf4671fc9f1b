--------------------------- MODULE JwksCacheProofs ---------------------------
(***************************************************************************)
(* For every set of verifications, keys, key sets and tokens, and however   *)
(* often the realm rotates: what is accepted was signed by a key the realm  *)
(* published, the shared set never becomes empty, and a key the realm keeps *)
(* verifies its tokens whatever the other verifications fetch and store.    *)
(***************************************************************************)
EXTENDS JwksCache, TLAPS

\* A rotation adds one version and leaves those before it as they were.
LEMMA RotationKeepsVersions ==
    ASSUME NEW S, NEW s \in Seq(S), NEW e \in S
    PROVE  /\ Append(s, e) \in Seq(S)
           /\ Len(Append(s, e)) = Len(s) + 1
           /\ \A i \in 1..Len(s): Append(s, e)[i] = s[i]
           /\ Append(s, e)[Len(s) + 1] = e
  OBVIOUS

-----------------------------------------------------------------------------
(* The inductive invariant *)

\* What is about to be stored is an answer, and like the stored set it holds a key.
AnswersHoldKeys ==
    /\ published[cached] # {}
    /\ \A c \in Calls: call[c] = "served" =>
           answer[c] # 0 /\ published[answer[c]] # {}

\* The token's own key was in every set with keys published so far.
Lasting(c) ==
    \A v \in 1..Len(published): published[v] # {} =>
        \E k \in published[v]: SignatureHolds(k, token[c]) /\ Eligible(k, token[c])

\* A verification by a lasting key never fetches, and ends with the key found.
LastingNeverFetches ==
    \A c \in Calls: Lasting(c) =>
        /\ call[c] \in {"idle", "checking", "done"}
        /\ (call[c] = "done" /\ Named(token[c]) /\ Legible(token[c]) /\ token[c].claims = "hold")
           => result[c] \in {"accepted", "crypto"}

CacheInv == TypeOK /\ AnswersHoldKeys /\ AcceptedWasSigned /\ LastingNeverFetches

\* The client starts with the first key set it fetched, and with no verification under way.
LEMMA InitCache == Init => CacheInv
<1> SUFFICES ASSUME Init PROVE CacheInv
  OBVIOUS
<1>1. PICK keys \in KeySets \ {{}}: published = <<keys>>
  BY DEF Init
<1>2. published \in Seq(KeySets) /\ Len(published) = 1 /\ published[1] # {}
  BY <1>1
<1>3. 1 \in Versions /\ 1..Len(published) = {1} /\ 0..Len(published) = {0, 1}
  BY <1>2, JwksCacheAssumption DEF Versions
<1>4. TypeOK
  BY <1>2, <1>3 DEF Init, TypeOK, Results
<1>5. AnswersHoldKeys
  BY <1>2 DEF Init, AnswersHoldKeys
<1>6. AcceptedWasSigned /\ LastingNeverFetches
  BY DEF Init, AcceptedWasSigned, LastingNeverFetches
<1> QED
  BY <1>4, <1>5, <1>6 DEF CacheInv

-----------------------------------------------------------------------------
(* Each step *)

\* No step leaves the types: a rotation only makes room for one more version, and what is
\* stored is a version that was published.
LEMMA StepTypes == CacheInv /\ [Next]_vars => TypeOK'
<1> SUFFICES ASSUME CacheInv, [Next]_vars PROVE TypeOK'
  OBVIOUS
<1> USE DEF TypeOK, CacheInv
<1>1. Len(published) \in Nat /\ Len(published) \in 1..Len(published)
      /\ Len(published) \in 0..Len(published)
  BY JwksCacheAssumption DEF Versions
<1>2. ASSUME NEW c \in Calls, Step(c) PROVE TypeOK'
  <2>1. CASE Refuse(c)
    BY <2>1 DEF Refuse, End, Set, Results
  <2>2. CASE LookUp(c)
    BY <1>1, <2>2 DEF LookUp, Set
  <2>3. CASE Served(c)
    BY <1>1, <2>3 DEF Served, Set
  <2>4. CASE FetchFails(c)
    BY <2>4 DEF FetchFails, End, Set, Results
  <2>5. CASE DropCall(c)
    BY <2>5 DEF DropCall, End, Set, Results
  <2>6. CASE Store(c)
    <3>1. answer[c] \in 1..Len(published)
      BY <1>1, <2>6 DEF Store, AnswersHoldKeys
    <3>2. raced' \in [Calls -> BOOLEAN]
      BY <2>6, Zenon DEF Store, Running
    <3> QED
      BY <2>6, <3>1, <3>2 DEF Store, Set
  <2>7. CASE Check(c)
    <3>1. Checked(published[cached], token[c]) \in Results
      BY DEF Checked, Results
    <3> QED
      BY <2>7, <3>1 DEF Check, End, Set
  <2>8. CASE CryptoFails(c)
    BY <2>8 DEF CryptoFails, End, Set, Results
  <2> QED
    BY <1>2, <2>1, <2>2, <2>3, <2>4, <2>5, <2>6, <2>7, <2>8 DEF Step, Fetched
<1>3. CASE Rotate
  <2>1. PICK keys \in KeySets: published' = Append(published, keys)
    BY <1>3 DEF Rotate
  <2>2. published' \in Seq(KeySets) /\ Len(published') = Len(published) + 1
    BY <2>1, RotationKeepsVersions
  <2>3. Len(published') \in Versions
    BY <1>1, <1>3, <2>2, JwksCacheAssumption DEF Rotate, Versions
  <2>4. /\ 1..Len(published) \subseteq 1..Len(published')
        /\ 0..Len(published) \subseteq 0..Len(published')
        /\ Len(published) + 1 \in 1..Len(published')
    BY <1>1, <2>2
  <2>5. during' \in [Calls -> SUBSET (1..Len(published'))]
    BY <1>3, <2>4 DEF Rotate
  <2> QED
    BY <1>3, <2>2, <2>3, <2>4, <2>5 DEF Rotate
<1>4. CASE Done \/ UNCHANGED vars
  BY <1>4 DEF Done, vars
<1> QED
  BY <1>2, <1>3, <1>4 DEF Next

\* Only an answer with keys is served, and only such an answer is stored.
LEMMA StepAnswers == CacheInv /\ [Next]_vars => AnswersHoldKeys'
<1> SUFFICES ASSUME CacheInv, [Next]_vars PROVE AnswersHoldKeys'
  OBVIOUS
<1> USE DEF TypeOK, CacheInv
<1>1. ASSUME NEW c \in Calls, Step(c) PROVE AnswersHoldKeys'
  <2>1. CASE Refuse(c) \/ LookUp(c) \/ FetchFails(c) \/ DropCall(c) \/ Check(c) \/ CryptoFails(c)
    BY <2>1 DEF AnswersHoldKeys, Refuse, LookUp, FetchFails, DropCall, Check, CryptoFails, End, Set
  <2>2. CASE Served(c)
    BY <2>2, JwksCacheAssumption DEF AnswersHoldKeys, Served, Set, Versions
  <2>3. CASE Store(c)
    BY <2>3 DEF AnswersHoldKeys, Store, Set
  <2> QED
    BY <1>1, <2>1, <2>2, <2>3 DEF Step, Fetched
<1>2. CASE Rotate
  <2>1. PICK keys \in KeySets: published' = Append(published, keys)
    BY <1>2 DEF Rotate
  <2>2. \A v \in 1..Len(published): published'[v] = published[v]
    BY <2>1, RotationKeepsVersions
  <2>3. \A c \in Calls: answer[c] # 0 => answer[c] \in 1..Len(published)
    BY JwksCacheAssumption DEF Versions
  <2> QED
    BY <1>2, <2>2, <2>3 DEF AnswersHoldKeys, Rotate
<1>3. CASE Done \/ UNCHANGED vars
  BY <1>3 DEF Done, vars, AnswersHoldKeys
<1> QED
  BY <1>1, <1>2, <1>3 DEF Next

\* A token is accepted against a set the realm published, and published sets stay as they were.
LEMMA StepSigned == CacheInv /\ [Next]_vars => AcceptedWasSigned'
<1> SUFFICES ASSUME CacheInv, [Next]_vars PROVE AcceptedWasSigned'
  OBVIOUS
<1> USE DEF TypeOK, CacheInv
<1>1. ASSUME NEW c \in Calls, Step(c) PROVE AcceptedWasSigned'
  <2>1. CASE Refuse(c) \/ LookUp(c) \/ Served(c) \/ FetchFails(c) \/ DropCall(c) \/ Store(c)
             \/ CryptoFails(c)
    BY <2>1 DEF AcceptedWasSigned, Refuse, LookUp, Served, FetchFails, DropCall, Store,
                CryptoFails, End, Set
  <2>2. CASE Check(c)
    <3>1. Checked(published[cached], token[c]) = "accepted" =>
             /\ token[c].claims = "hold"
             /\ \E k \in published[cached]: k = token[c].signer /\ Eligible(k, token[c])
      BY DEF Checked, SignatureHolds
    <3> QED
      BY <2>2, <3>1 DEF AcceptedWasSigned, Check, End, Set
  <2> QED
    BY <1>1, <2>1, <2>2 DEF Step, Fetched
<1>2. CASE Rotate
  <2>1. PICK keys \in KeySets: published' = Append(published, keys)
    BY <1>2 DEF Rotate
  <2>2. \A v \in 1..Len(published): v \in 1..Len(published') /\ published'[v] = published[v]
    BY <2>1, RotationKeepsVersions, JwksCacheAssumption DEF Versions
  <2>3. token' = token /\ result' = result
    BY <1>2 DEF Rotate
  <2>4. ASSUME NEW c \in Calls, result[c] = "accepted"
        PROVE  /\ token'[c].claims = "hold"
               /\ \E v \in 1..Len(published'): \E k \in published'[v]:
                      k = token'[c].signer /\ Eligible(k, token'[c])
    <3>1. PICK v \in 1..Len(published):
              \E k \in published[v]: k = token[c].signer /\ Eligible(k, token[c])
      BY <2>4 DEF AcceptedWasSigned
    <3> QED
      BY <2>2, <2>3, <2>4, <3>1 DEF AcceptedWasSigned
  <2> QED
    BY <2>3, <2>4 DEF AcceptedWasSigned, Eligible
<1>3. CASE Done \/ UNCHANGED vars
  <2>1. result' = result /\ token' = token /\ published' = published
    BY <1>3 DEF Done, vars
  <2> QED
    BY <2>1 DEF AcceptedWasSigned, Eligible
<1> QED
  BY <1>1, <1>2, <1>3 DEF Next

\* A lasting key is in the shared set whichever version that is, so its verification neither
\* fetches nor ends without the key; a rotation that retires the key only frees it of this.
LEMMA StepLasting == CacheInv /\ [Next]_vars => LastingNeverFetches'
<1> SUFFICES ASSUME CacheInv, [Next]_vars PROVE LastingNeverFetches'
  OBVIOUS
<1> USE DEF TypeOK, CacheInv
<1>1. ASSUME NEW c \in Calls, Step(c) PROVE LastingNeverFetches'
  <2>1. published' = published /\ token' = token
    BY <1>1 DEF Step, Fetched, Refuse, LookUp, Served, FetchFails, DropCall, Store, Check,
                CryptoFails
  <2>2. \A d \in Calls: Lasting(d)' <=> Lasting(d)
    BY <2>1 DEF Lasting, SignatureHolds, Eligible
  <2>3. ASSUME Lasting(c)
        PROVE  \E k \in published[cached]: SignatureHolds(k, token[c]) /\ Eligible(k, token[c])
    BY <2>3 DEF Lasting, AnswersHoldKeys
  <2>4. CASE Refuse(c) \/ CryptoFails(c)
    BY <2>1, <2>2, <2>4 DEF LastingNeverFetches, Refuse, CryptoFails, End, Set
  <2>5. CASE LookUp(c)
    <3>1. Lasting(c) => Knows(published[cached], token[c])
      BY <2>3 DEF Knows
    <3> QED
      BY <2>1, <2>2, <2>5, <3>1 DEF LastingNeverFetches, LookUp, Set
  <2>6. CASE Served(c) \/ FetchFails(c) \/ DropCall(c) \/ Store(c)
    <3>1. ~Lasting(c)
      BY <2>6 DEF LastingNeverFetches, Served, FetchFails, DropCall, Store
    <3> QED
      BY <2>1, <2>2, <2>6, <3>1 DEF LastingNeverFetches, Served, FetchFails, DropCall, Store,
                                    End, Set
  <2>7. CASE Check(c)
    <3>1. Lasting(c) /\ Legible(token[c]) /\ token[c].claims = "hold" =>
             Checked(published[cached], token[c]) = "accepted"
      BY <2>3 DEF Checked
    <3> QED
      BY <2>1, <2>2, <2>7, <3>1 DEF LastingNeverFetches, Check, End, Set
  <2> QED
    BY <1>1, <2>4, <2>5, <2>6, <2>7 DEF Step, Fetched
<1>2. CASE Rotate
  <2>1. PICK keys \in KeySets: published' = Append(published, keys)
    BY <1>2 DEF Rotate
  <2>2. \A v \in 1..Len(published): v \in 1..Len(published') /\ published'[v] = published[v]
    BY <2>1, RotationKeepsVersions, JwksCacheAssumption DEF Versions
  <2>3. token' = token /\ call' = call /\ result' = result
    BY <1>2 DEF Rotate
  <2>4. \A c \in Calls: Lasting(c)' => Lasting(c)
    BY <2>2, <2>3 DEF Lasting, SignatureHolds, Eligible
  <2> QED
    BY <2>3, <2>4 DEF LastingNeverFetches
<1>3. CASE Done \/ UNCHANGED vars
  <2>1. call' = call /\ result' = result /\ token' = token /\ published' = published
    BY <1>3 DEF Done, vars
  <2>2. \A c \in Calls: Lasting(c)' <=> Lasting(c)
    BY <2>1 DEF Lasting, SignatureHolds, Eligible
  <2> QED
    BY <2>1, <2>2 DEF LastingNeverFetches
<1> QED
  BY <1>1, <1>2, <1>3 DEF Next

-----------------------------------------------------------------------------
(* One verification alone *)

\* What a verification relies on that no other one raced: the set it is about to store was
\* current while it ran, and the set it checks against was too, or had its key at the look-up.
Lone(c) ==
    /\ call[c] = "idle" => result[c] = "none"
    /\ Running(c) => Len(published) \in during[c]
    /\ call[c] = "served" => answer[c] \in during[c]
    /\ (call[c] = "checking" /\ ~raced[c]) =>
           Knows(published[cached], token[c]) \/ cached \in during[c]
    /\ (result[c] \in {"unfit", "unknown"} /\ ~raced[c]) =>
           \E v \in during[c]: ~Knows(published[v], token[c])

LoneInv == \A c \in Calls: Lone(c)

\* A verification's own steps: an answer is current when it is served, and what is not in the
\* set checked against was not in one of those it ran with.
LEMMA OwnStepLone ==
    ASSUME NEW c \in Calls, CacheInv, Lone(c), Step(c)
    PROVE  Lone(c)'
<1> USE DEF TypeOK, CacheInv
<1>1. published' = published /\ token' = token
  BY DEF Step, Fetched, Refuse, LookUp, Served, FetchFails, DropCall, Store, Check, CryptoFails
<1>2. \A v: Knows(published'[v], token'[c]) <=> Knows(published[v], token[c])
  BY <1>1
<1>3. CASE Refuse(c) \/ FetchFails(c) \/ DropCall(c) \/ CryptoFails(c)
  <2>1. call'[c] = "done" /\ result'[c] \notin {"unfit", "unknown"}
    BY <1>3 DEF Refuse, FetchFails, DropCall, CryptoFails, End, Set
  <2> QED
    BY <2>1 DEF Lone, Running
<1>4. CASE LookUp(c)
  <2>1. /\ call'[c] \in {"checking", "fetching"}
        /\ call'[c] = "checking" => Knows(published[cached], token[c])
        /\ during'[c] = {Len(published)}
        /\ cached' = cached /\ result' = result /\ raced' = raced
    BY <1>4 DEF LookUp, Set
  <2>2. result[c] = "none"
    BY <1>4 DEF LookUp, Lone
  <2> QED
    BY <1>1, <1>2, <2>1, <2>2 DEF Lone, Running
<1>5. CASE Served(c)
  <2>1. /\ call[c] = "fetching" /\ call'[c] = "served" /\ answer'[c] = Len(published)
        /\ during' = during /\ cached' = cached /\ result' = result /\ raced' = raced
    BY <1>5 DEF Served, Set
  <2> QED
    BY <1>1, <1>2, <2>1 DEF Lone, Running
<1>6. CASE Store(c)
  <2>1. /\ call[c] = "served" /\ call'[c] = "checking" /\ cached' = answer[c]
        /\ during' = during /\ result' = result /\ raced'[c] = raced[c]
    BY <1>6 DEF Store, Set
  <2> QED
    BY <1>1, <1>2, <2>1 DEF Lone, Running
<1>7. CASE Check(c)
  <2>1. /\ call[c] = "checking" /\ call'[c] = "done"
        /\ result'[c] = Checked(published[cached], token[c])
        /\ during' = during /\ cached' = cached /\ raced' = raced
    BY <1>7 DEF Check, End, Set
  <2>2. Checked(published[cached], token[c]) \in {"unfit", "unknown"} =>
            ~Knows(published[cached], token[c])
    BY DEF Checked, Knows
  <2> QED
    BY <1>1, <1>2, <2>1, <2>2 DEF Lone, Running
<1> QED
  BY <1>3, <1>4, <1>5, <1>6, <1>7 DEF Step, Fetched

\* The steps of another verification: the only one that matters to this one is its storing a
\* set, which marks this one as raced.
LEMMA OtherStepLone ==
    ASSUME NEW c \in Calls, NEW d \in Calls \ {c}, CacheInv, Lone(d), Step(c)
    PROVE  Lone(d)'
<1> USE DEF TypeOK, CacheInv
<1>1. /\ published' = published /\ token' = token
      /\ call'[d] = call[d] /\ answer'[d] = answer[d] /\ result'[d] = result[d]
      /\ during'[d] = during[d]
  BY DEF Step, Fetched, Refuse, LookUp, Served, FetchFails, DropCall, Store, Check, CryptoFails,
         End, Set
<1>2. \/ cached' = cached /\ raced' = raced
      \/ raced'[d] = (raced[d] \/ Running(d))
  BY DEF Step, Fetched, Refuse, LookUp, Served, FetchFails, DropCall, Store, Check, CryptoFails,
         End
<1>3. \A v: Knows(published'[v], token'[d]) <=> Knows(published[v], token[d])
  BY <1>1
<1> QED
  BY <1>1, <1>2, <1>3 DEF Lone, Running

\* A rotation changes neither the stored set nor those a verification ran with so far.
LEMMA RotateLone ==
    ASSUME NEW c \in Calls, CacheInv, Lone(c), Rotate
    PROVE  Lone(c)'
<1> USE DEF TypeOK, CacheInv
<1>1. PICK keys \in KeySets: published' = Append(published, keys)
  BY DEF Rotate
<1>2. /\ Len(published') = Len(published) + 1
      /\ \A v \in 1..Len(published): published'[v] = published[v]
  BY <1>1, RotationKeepsVersions
<1>3. /\ cached' = cached /\ token' = token /\ call' = call /\ answer' = answer
      /\ result' = result /\ raced' = raced
  BY DEF Rotate
<1>4. during[c] \subseteq during'[c] /\ (Running(c) => Len(published) + 1 \in during'[c])
  BY DEF Rotate
<1>5. \A v \in 1..Len(published): Knows(published'[v], token[c]) <=> Knows(published[v], token[c])
  BY <1>2
<1>6. during[c] \subseteq 1..Len(published) /\ cached \in 1..Len(published)
  OBVIOUS
<1>7. Knows(published'[cached'], token'[c]) <=> Knows(published[cached], token[c])
  BY <1>3, <1>5, <1>6
<1>8. ASSUME NEW v \in during[c], ~Knows(published[v], token[c])
      PROVE  \E w \in during'[c]: ~Knows(published'[w], token'[c])
  BY <1>3, <1>4, <1>5, <1>6, <1>8
<1> QED
  BY <1>2, <1>3, <1>4, <1>7, <1>8 DEF Lone, Running

\* Whatever step is taken, every verification keeps it.
LEMMA StepLone == CacheInv /\ LoneInv /\ [Next]_vars => LoneInv'
<1> SUFFICES ASSUME CacheInv, LoneInv, [Next]_vars, NEW d \in Calls PROVE Lone(d)'
  BY DEF LoneInv
<1>1. Lone(d)
  BY DEF LoneInv
<1>2. ASSUME NEW c \in Calls, Step(c) PROVE Lone(d)'
  BY <1>1, <1>2, OwnStepLone, OtherStepLone
<1>3. CASE Rotate
  BY <1>1, <1>3, RotateLone
<1>4. CASE Done \/ UNCHANGED vars
  BY <1>1, <1>4 DEF Done, vars, Lone, Running, Knows, Eligible
<1> QED
  BY <1>2, <1>3, <1>4 DEF Next

-----------------------------------------------------------------------------
(* Theorems *)

\* The inductive invariant holds of every behaviour.
THEOREM CacheInvariant == Spec => []CacheInv
<1>1. CacheInv /\ [Next]_vars => CacheInv'
  BY StepTypes, StepAnswers, StepSigned, StepLasting DEF CacheInv
<1> QED
  BY InitCache, <1>1, PTL DEF Spec

\* Every variable keeps its type.
THEOREM CacheTypes == Spec => []TypeOK
<1>1. CacheInv => TypeOK
  BY DEF CacheInv
<1> QED
  BY CacheInvariant, <1>1, PTL

\* verify_id_token: what is accepted was signed, by a key of a set the realm published.
THEOREM AcceptedTokensSigned == Spec => []AcceptedWasSigned
<1>1. CacheInv => AcceptedWasSigned
  BY DEF CacheInv
<1> QED
  BY CacheInvariant, <1>1, PTL

\* fetch_jwks: the shared set is never one without keys.
THEOREM SharedSetHasKeys == Spec => []KeysStayUsable
<1>1. CacheInv => KeysStayUsable
  BY DEF CacheInv, AnswersHoldKeys, KeysStayUsable
<1> QED
  BY CacheInvariant, <1>1, PTL

\* A key that is in every set with keys verifies every token it signed, whatever fails or races.
THEOREM LastingKeysVerify == Spec => []LastingKeyVerifies
<1>1. CacheInv => LastingKeyVerifies
  BY DEF CacheInv, LastingNeverFetches, Lasting, LastingKeyVerifies
<1> QED
  BY CacheInvariant, <1>1, PTL

\* A token of a key that was published all the time its verification ran is not refused for
\* want of the key, unless another verification stored a set meanwhile.
THEOREM LoneCallsFindKey == Spec => []LoneCallFindsKey
<1>1. Init => LoneInv
  BY DEF Init, LoneInv, Lone, Running
<1>2. LoneInv => LoneCallFindsKey
  BY DEF LoneInv, Lone, LoneCallFindsKey
<1> QED
  BY CacheInvariant, StepLone, <1>1, <1>2, PTL DEF Spec
=============================================================================
