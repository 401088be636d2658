----------------------- MODULE EvidenceClient_proofs -----------------------
(***************************************************************************)
(* Theorems about EvidenceClient, for any requests, authorities, plans and *)
(* bounds.                                                                 *)
(***************************************************************************)
EXTENDS EvidenceClient, FiniteSetTheorems, TLAPS

-----------------------------------------------------------------------------
(* Types *)

\* What a plan is, and times are, as the steps need it.
LEMMA Constants ==
    /\ \A r \in Requests : /\ Plan[r] \in Seq(Authorities) /\ Len(Plan[r]) > 0
                           /\ Asks[r] \subseteq Kinds
                           /\ \A i \in Routes(r) : Plan[r][i] \in Authorities
    /\ Lifetime \in Nat /\ Margin \in Nat /\ Timeout \in Nat /\ KeyTimeout \in Nat
    /\ CacheTime \in Nat /\ MaxTime \in Nat
    /\ Timeout < Margin /\ Margin < Lifetime
    /\ MaxRotations \in [Authorities -> Nat]
    /\ Nobody \notin Requests
<1>1. ASSUME NEW r \in Requests
      PROVE  /\ Plan[r] \in Seq(Authorities) /\ Len(Plan[r]) > 0
             /\ Asks[r] \subseteq Kinds
             /\ \A i \in Routes(r) : Plan[r][i] \in Authorities
  BY PlanAssumption DEF Kinds, Routes
<1>2. QED
  BY <1>1, TimeAssumption, NobodyAssumption

\* A request that asks an authority, or verifies what it has asserted.
Located ==
    \A r \in Requests :
        /\ pc[r] \in {"idle", "token", "mint"} => results[r] = <<>>
        /\ pc[r] \in {"evidence", "keys", "fetch"} => Len(results[r]) < Len(Plan[r])
        /\ pc[r] \in {"keys", "fetch"} => kind[r] = "evidence" /\ answer[r] \in Assertion
        /\ pc[r] # "done" => outcome[r] = "none"
        /\ kind[r] = "evidence" => \A i \in DOMAIN results[r] : results[r][i] # "shown"

\* The authority a request is at is one.
LEMMA AtAuthority ==
    ASSUME TypeOK, Located, NEW r \in Requests, pc[r] \in {"evidence", "keys", "fetch"}
    PROVE  /\ At(r) \in Authorities
           /\ Len(results[r]) + 1 \in Routes(r)
<1>1. results[r] \in Seq(Verdicts) /\ Plan[r] \in Seq(Authorities)
  BY Constants DEF TypeOK
<1>2. Len(results[r]) \in Nat /\ Len(Plan[r]) \in Nat
  BY <1>1
<1>3. Len(results[r]) < Len(Plan[r])
  BY DEF Located
<1>4. QED
  BY SMTT(20), <1>2, <1>3, Constants DEF At, Routes

\* What the end of an exchange with an authority does to the request: it is asked
\* on, with one verdict more, or it is answered.
LEMMA Conclusion ==
    ASSUME TypeOK, Located, NEW r \in Requests, NEW from, NEW verdict \in Verdicts,
           Conclude(r, from, verdict), from \in {"evidence", "keys", "fetch"}
    PROVE  /\ pc[r] = from
           /\ UNCHANGED <<now, program, rotations, token, holder, kind>>
           /\ \E p \in {"evidence", "done"} : pc' = [pc EXCEPT ![r] = p]
           /\ \E x \in Seq(Verdicts) : results' = [results EXCEPT ![r] = x]
           /\ \E o \in {"none", "ok"} \cup Failures : outcome' = [outcome EXCEPT ![r] = o]
           /\ \E t \in Times : started' = [started EXCEPT ![r] = t]
           /\ \E t \in Times : since' = [since EXCEPT ![r] = t]
           /\ \E t \in 0 .. MaxTime + Lifetime : held' = [held EXCEPT ![r] = t]
           /\ reply' = [reply EXCEPT ![r] = Nothing]
           /\ answer' = [answer EXCEPT ![r] = Nothing]
           /\ pc'[r] = "evidence" => /\ results'[r] = Append(results[r], verdict)
                                     /\ Len(results'[r]) < Len(Plan[r])
                                     /\ outcome'[r] = "none"
           /\ pc'[r] = "done" =>
                \/ /\ results'[r] = Append(results[r], verdict)
                   /\ outcome'[r] = "ok"
                   /\ \A i \in DOMAIN results'[r] : results'[r][i] \notin Failures
                   /\ kind[r] = "evidence" => Len(results'[r]) >= Len(Plan[r])
                \/ results'[r] = <<>> /\ outcome'[r] \in Failures
<1> DEFINE all == Append(results[r], verdict)
<1> USE Constants
<1>1. /\ all \in Seq(Verdicts) /\ <<>> \in Seq(Verdicts) /\ Len(all) = Len(results[r]) + 1
      /\ results \in [Requests -> Seq(Verdicts)]
      /\ outcome \in [Requests -> Outcomes]
      /\ pc \in [Requests -> Locations]
      /\ now \in Times /\ 0 \in Times /\ 0 \in 0 .. MaxTime + Lifetime
      /\ since \in [Requests -> Times] /\ started \in [Requests -> Times]
      /\ held \in [Requests -> 0 .. MaxTime + Lifetime]
  <2>1. /\ results \in [Requests -> Seq(Verdicts)] /\ pc \in [Requests -> Locations]
        /\ outcome \in [Requests -> Outcomes]
        /\ now \in Times /\ since \in [Requests -> Times] /\ started \in [Requests -> Times]
        /\ held \in [Requests -> 0 .. MaxTime + Lifetime]
    BY DEF TypeOK
  <2>2. results[r] \in Seq(Verdicts)
    BY <2>1
  <2>3. all \in Seq(Verdicts) /\ <<>> \in Seq(Verdicts) /\ Len(all) = Len(results[r]) + 1
    BY <2>2
  <2>4. 0 \in Times /\ 0 \in 0 .. MaxTime + Lifetime
    BY DEF Times
  <2>5. QED
    BY <2>1, <2>3, <2>4
<1>2. pc[r] = from /\ outcome[r] = "none"
  BY <1>1 DEF Conclude, Begin, Aggregate, End, Goto, Located
<1>3. UNCHANGED <<now, program, rotations, token, holder, kind>>
  BY DEF Conclude
<1>4. CASE /\ Begin(r, from, "evidence")
           /\ results' = [results EXCEPT ![r] = all]
           /\ answer' = [answer EXCEPT ![r] = Nothing]
           /\ UNCHANGED <<since, held, outcome>>
           /\ Len(all) < Len(Plan[r])
  <2>1. /\ pc' = [pc EXCEPT ![r] = "evidence"] /\ outcome' = [outcome EXCEPT ![r] = "none"]
        /\ started' = [started EXCEPT ![r] = now] /\ reply' = [reply EXCEPT ![r] = Nothing]
        /\ since' = [since EXCEPT ![r] = since[r]] /\ held' = [held EXCEPT ![r] = held[r]]
    BY <1>1, <1>2, <1>4 DEF Begin, Goto
  <2>2. pc'[r] = "evidence" /\ results'[r] = all /\ outcome'[r] = "none"
    BY <1>1, <1>4, <2>1
  <2>3. since[r] \in Times /\ held[r] \in 0 .. MaxTime + Lifetime
    BY <1>1
  <2>4. QED
    BY <1>1, <1>2, <1>3, <1>4, <2>1, <2>2, <2>3
<1>5. CASE Failed(all) = {} /\ End(r, from, "ok", all)
           /\ ~(kind[r] = "evidence" /\ Len(all) < Len(Plan[r]))
  <2>1. pc'[r] = "done" /\ results'[r] = all /\ outcome'[r] = "ok"
    BY <1>1, <1>5 DEF End, Goto
  <2>2. \A i \in DOMAIN all : all[i] \notin Failures
    BY <1>5 DEF Failed
  <2>3. kind[r] = "evidence" => Len(all) >= Len(Plan[r])
    BY <1>1, <1>5
  <2>4. QED
    BY <1>1, <1>2, <1>3, <1>5, <2>1, <2>2, <2>3 DEF End, Goto
<1>6. ASSUME NEW i \in Failed(all), End(r, from, all[i], <<>>)
      PROVE  \E o \in Failures : End(r, from, o, <<>>)
  BY <1>6 DEF Failed
<1>7. ASSUME NEW o \in Failures, End(r, from, o, <<>>)
      PROVE  /\ pc' = [pc EXCEPT ![r] = "done"] /\ pc'[r] = "done"
             /\ results'[r] = <<>> /\ outcome'[r] \in Failures
             /\ results' = [results EXCEPT ![r] = <<>>]
             /\ outcome' = [outcome EXCEPT ![r] = o]
             /\ started' = [started EXCEPT ![r] = 0] /\ since' = [since EXCEPT ![r] = 0]
             /\ held' = [held EXCEPT ![r] = 0]
             /\ reply' = [reply EXCEPT ![r] = Nothing]
             /\ answer' = [answer EXCEPT ![r] = Nothing]
  BY <1>1, <1>7 DEF End, Goto
<1>8. CASE \E o \in Failures : End(r, from, o, <<>>)
  BY <1>1, <1>2, <1>3, <1>7, <1>8
<1>9. QED
  <2>1. \/ /\ Begin(r, from, "evidence")
           /\ results' = [results EXCEPT ![r] = all]
           /\ answer' = [answer EXCEPT ![r] = Nothing]
           /\ UNCHANGED <<since, held, outcome>>
           /\ Len(all) < Len(Plan[r])
        \/ /\ Aggregate(r, from, all)
           /\ kind[r] = "evidence" /\ Len(all) < Len(Plan[r]) => verdict \in Failures
    BY DEF Conclude
  <2>2. ASSUME verdict \in Failures PROVE Len(all) \in Failed(all)
    BY <1>1, <2>2 DEF Failed
  <2>3. CASE /\ Aggregate(r, from, all)
             /\ kind[r] = "evidence" /\ Len(all) < Len(Plan[r]) => verdict \in Failures
    BY <1>5, <1>6, <1>8, <2>2, <2>3 DEF Aggregate
  <2>4. QED
    BY <1>4, <2>1, <2>3

\* The five ways in which an exchange with an authority ends; only an answer with
\* keys changes the keys that are cached.
Stores(r) ==
    /\ pc[r] = "fetch" /\ reply[r].what = "keys"
    /\ jwks' = [jwks EXCEPT ![At(r)] = [key |-> reply[r].key, until |-> now + CacheTime]]

Verified(r, from) == from \in {"keys", "fetch"} /\ MadeFor(r)

Ending(r) ==
    \E from \in {"evidence", "keys", "fetch"}, verdict \in Verdicts :
        /\ Conclude(r, from, verdict)
        /\ verdict = "shown" => kind[r] # "evidence"
        /\ verdict = "accepted" => Verified(r, from)
        /\ UNCHANGED jwks \/ Stores(r)

LEMMA Endings ==
    ASSUME NEW r \in Requests,
           \/ AuthorityDiscovers(r) \/ AuthorityRefuses(r)
           \/ UseCachedKeys(r) \/ KeysAnswer(r) \/ KeysFail(r)
    PROVE  Ending(r)
<1> USE DEF Verdicts, Failures, Ending, Verified
<1>1. CASE AuthorityDiscovers(r)
  BY <1>1 DEF AuthorityDiscovers
<1>2. CASE AuthorityRefuses(r)
  BY <1>2 DEF AuthorityRefuses
<1>3. CASE UseCachedKeys(r)
  BY <1>3 DEF UseCachedKeys, Verify
<1>4. CASE KeysAnswer(r)
  BY <1>4 DEF KeysAnswer, Verify, Stores
<1>5. CASE KeysFail(r)
  BY <1>5 DEF KeysFail
<1>6. QED
  BY <1>1, <1>2, <1>3, <1>4, <1>5

\* The three ways in which a request ends before it has a result: without a token,
\* which releases the lock, or dropped.
Breaking(r) ==
    \E from \in {"mint", "evidence"}, how \in {"no_token", "dropped"} :
        /\ End(r, from, how, <<>>)
        /\ holder' = IF from = "mint" THEN Nobody ELSE holder
        /\ UNCHANGED <<now, program, rotations, caches, kind>>

LEMMA Breakings ==
    ASSUME NEW r \in Requests, MintFails(r) \/ MintGarbles(r) \/ AuthorityGarbles(r)
    PROVE  Breaking(r)
<1>1. CASE MintFails(r)
  BY <1>1 DEF MintFails, Breaking
<1>2. CASE MintGarbles(r)
  BY <1>2 DEF MintGarbles, Dropped, Breaking
<1>3. CASE AuthorityGarbles(r)
  BY <1>3 DEF AuthorityGarbles, Dropped, Breaking
<1>4. QED
  BY <1>1, <1>2, <1>3

\* A step starts a request, gets it a token, asks for it, ends an exchange of it,
\* ends it, or changes a key or the time.
LEMMA Steps ==
    ASSUME [Next]_vars
    PROVE  \/ \E r \in Requests :
                \/ Start(r) \/ TakeToken(r) \/ AskMint(r) \/ MintAnswers(r) \/ Breaking(r)
                \/ AuthorityAsserts(r) \/ FetchKeys(r) \/ MintIssues(r) \/ PublishesKeys(r)
                \/ Ending(r)
           \/ \E a \in Authorities : Rotate(a)
           \/ Tick
           \/ UNCHANGED vars
BY Endings, Breakings DEF Next, Work, World

\* What an authority may reply with, and a cache hold, is of its type.
LEMMA Values ==
    ASSUME TypeOK
    PROVE  /\ \A t \in 0 .. MaxTime + Lifetime : [what |-> "token", expires |-> t] \in Replies
           /\ \A k \in Keys : [what |-> "keys", key |-> k] \in Replies
           /\ Nothing \in Replies
           /\ now \in Nat /\ now <= MaxTime /\ now \in Times
           /\ now + Lifetime \in 0 .. MaxTime + Lifetime
           /\ \A r \in Requests :
                 /\ reply[r].what = "token" => reply[r].expires \in 0 .. MaxTime + Lifetime
                 /\ reply[r].what = "keys" => reply[r].key \in Keys
<1>1. now \in Nat /\ now <= MaxTime /\ now \in Times
  BY Constants DEF TypeOK, Times
<1>2. now + Lifetime \in 0 .. MaxTime + Lifetime
  BY <1>1, Constants
<1>3. /\ \A t \in 0 .. MaxTime + Lifetime : [what |-> "token", expires |-> t] \in Replies
      /\ \A k \in Keys : [what |-> "keys", key |-> k] \in Replies
      /\ Nothing \in Replies
  BY DEF Replies, Nothing
<1>4. ASSUME NEW r \in Requests
      PROVE  /\ reply[r].what = "token" => reply[r].expires \in 0 .. MaxTime + Lifetime
             /\ reply[r].what = "keys" => reply[r].key \in Keys
  <2>1. reply[r] \in Replies
    BY DEF TypeOK
  <2>2. QED
    BY <2>1 DEF Replies
<1>5. QED
  BY <1>1, <1>2, <1>3, <1>4

LEMMA InitTypeOK == Init => TypeOK /\ Located
<1> SUFFICES ASSUME Init PROVE TypeOK /\ Located
  OBVIOUS
<1> USE Constants DEF Init
<1>1. /\ 0 \in Times /\ 0 \in 0 .. MaxTime + Lifetime /\ 0 \in 0 .. MaxTime + CacheTime
      /\ <<>> \in Seq(Times) /\ <<>> \in Seq(Verdicts)
  BY DEF Times
<1>2. \A a \in Authorities : 0 \in Keys
  BY DEF Keys
<1>3. /\ token \in Token /\ jwks \in [Authorities -> KeySet]
      /\ \A a \in Authorities : Key(a) \in Keys
  BY <1>1, <1>2 DEF Token, NoToken, KeySet, NoKeys, Key
<1>4. /\ reply \in [Requests -> Replies]
      /\ answer \in [Requests -> Assertion \cup {Nothing}]
  BY DEF Replies, Nothing
<1>5. TypeOK
  BY <1>1, <1>3, <1>4 DEF TypeOK, Kinds, Locations, Outcomes
<1>6. QED
  BY <1>5 DEF Located

LEMMA NextTypeOK == TypeOK /\ Located /\ [Next]_vars => TypeOK'
<1> SUFFICES ASSUME TypeOK, Located, [Next]_vars PROVE TypeOK'
  OBVIOUS
<1> USE Constants, Values
<1>1. ASSUME NEW r \in Requests, Start(r) PROVE TypeOK'
  BY SMTT(20), <1>1 DEF TypeOK, Start, Goto, caches, Kinds, Locations, Key
<1>2. ASSUME NEW r \in Requests, TakeToken(r) PROVE TypeOK'
  <2>1. token.expires \in 0 .. MaxTime + Lifetime /\ 0 \in Times
    BY DEF TypeOK, Token, Times
  <2>2. QED
    BY <1>2, <2>1 DEF TypeOK, TakeToken, Equipped, Begin, Goto, Locations, Key, Free
<1>3. ASSUME NEW r \in Requests, AskMint(r) PROVE TypeOK'
  BY <1>3 DEF TypeOK, AskMint, Begin, Goto, caches, Locations, Key, Free
<1>4. ASSUME NEW r \in Requests, MintAnswers(r) PROVE TypeOK'
  <2>1. token' \in Token /\ 0 \in Times
    BY <1>4 DEF MintAnswers, Token, Times
  <2>2. QED
    BY <1>4, <2>1 DEF TypeOK, MintAnswers, Equipped, Begin, Goto, Locations, Key
<1>5. ASSUME NEW r \in Requests, Breaking(r) PROVE TypeOK'
  <2>1. 0 \in Times /\ 0 \in 0 .. MaxTime + Lifetime /\ <<>> \in Seq(Verdicts)
    BY DEF Times
  <2>2. PICK from \in {"mint", "evidence"}, how \in {"no_token", "dropped"} :
          /\ End(r, from, how, <<>>)
          /\ holder' = IF from = "mint" THEN Nobody ELSE holder
          /\ UNCHANGED <<now, program, rotations, caches, kind>>
    BY <1>5 DEF Breaking
  <2>3. how \in Outcomes /\ "done" \in Locations
    BY DEF Outcomes, Locations
  <2>4. \A s \in Requests : holder' = s <=> pc'[s] = "mint"
    BY <2>2 DEF TypeOK, End, Goto
  <2>5. QED
    BY <2>1, <2>2, <2>3, <2>4 DEF TypeOK, End, Goto, caches, Key
<1>6. ASSUME NEW r \in Requests, AuthorityAsserts(r) PROVE TypeOK'
  <2>1. PICK s \in Requests : \E i \in Routes(s) :
          answer' = [answer EXCEPT ![r] =
                        [what |-> "assertion", of |-> s, route |-> i, key |-> Key(At(r))]]
    BY <1>6 DEF AuthorityAsserts
  <2>2. Key(At(r)) \in Keys
    BY <1>6, AtAuthority DEF AuthorityAsserts, Goto, TypeOK
  <2>3. \A i \in Routes(s) :
          [what |-> "assertion", of |-> s, route |-> i, key |-> Key(At(r))] \in Assertion
    BY <2>2 DEF Assertion
  <2>4. answer' \in [Requests -> Assertion \cup {Nothing}]
    BY <2>1, <2>3 DEF TypeOK
  <2>5. pc' = [pc EXCEPT ![r] = "keys"] /\ pc[r] = "evidence"
    BY <1>6 DEF AuthorityAsserts, Goto
  <2>6. QED
    BY <1>6, <2>4, <2>5 DEF TypeOK, AuthorityAsserts, caches, Locations, Key
<1>7. ASSUME NEW r \in Requests, FetchKeys(r) PROVE TypeOK'
  BY <1>7 DEF TypeOK, FetchKeys, Begin, Goto, caches, Locations, Key
<1>8. ASSUME NEW r \in Requests, MintIssues(r) PROVE TypeOK'
  BY <1>8 DEF TypeOK, MintIssues, Send, caches, Key
<1>9. ASSUME NEW r \in Requests, PublishesKeys(r) PROVE TypeOK'
  <2>1. Key(At(r)) \in Keys
    BY <1>9, AtAuthority DEF PublishesKeys, Send, TypeOK
  <2>2. QED
    BY <1>9, <2>1 DEF TypeOK, PublishesKeys, Send, caches, Key
<1>10. ASSUME NEW r \in Requests, Ending(r) PROVE TypeOK'
  <2>1. PICK from \in {"evidence", "keys", "fetch"}, verdict \in Verdicts :
          Conclude(r, from, verdict) /\ (UNCHANGED jwks \/ Stores(r))
    BY <1>10 DEF Ending
  <2>2. /\ pc[r] = from
        /\ UNCHANGED <<now, program, rotations, token, holder, kind>>
        /\ \E p \in {"evidence", "done"} : pc' = [pc EXCEPT ![r] = p]
        /\ \E x \in Seq(Verdicts) : results' = [results EXCEPT ![r] = x]
        /\ \E o \in {"none", "ok"} \cup Failures : outcome' = [outcome EXCEPT ![r] = o]
        /\ \E t \in Times : started' = [started EXCEPT ![r] = t]
        /\ \E t \in Times : since' = [since EXCEPT ![r] = t]
        /\ \E t \in 0 .. MaxTime + Lifetime : held' = [held EXCEPT ![r] = t]
        /\ reply' = [reply EXCEPT ![r] = Nothing]
        /\ answer' = [answer EXCEPT ![r] = Nothing]
    BY <2>1, Conclusion
  <2>3. jwks' \in [Authorities -> KeySet]
    <3>1. CASE UNCHANGED jwks
      BY <3>1 DEF TypeOK
    <3>2. CASE Stores(r)
      <4>1. now + CacheTime \in 0 .. MaxTime + CacheTime
        OBVIOUS
      <4>2. [key |-> reply[r].key, until |-> now + CacheTime] \in KeySet
        BY <3>2, <4>1 DEF KeySet, Stores
      <4>3. QED
        BY <3>2, <4>2 DEF TypeOK, Stores
    <3>3. QED
      BY <2>1, <3>1, <3>2
  <2>4. \A s \in Requests : holder' = s <=> pc'[s] = "mint"
    BY <2>2 DEF TypeOK
  <2>5. /\ \A a \in Authorities : Key(a)' \in Keys
        /\ now' \in Times /\ program' \in {"runner", "federator"}
        /\ rotations' \in [Authorities -> Seq(Times)] /\ token' \in Token
        /\ holder' \in Requests \cup {Nobody} /\ kind' \in [Requests -> Kinds]
    BY <2>2 DEF TypeOK, Key
  <2>6. /\ pc' \in [Requests -> Locations] /\ since' \in [Requests -> Times]
        /\ started' \in [Requests -> Times]
        /\ held' \in [Requests -> 0 .. MaxTime + Lifetime]
    BY SMTT(20), <2>2 DEF TypeOK, Locations
  <2>7. reply' \in [Requests -> Replies]
    BY <2>2 DEF TypeOK
  <2>8. answer' \in [Requests -> Assertion \cup {Nothing}]
    BY <2>2 DEF TypeOK
  <2>9. results' \in [Requests -> Seq(Verdicts)]
    BY <2>2 DEF TypeOK
  <2>10. outcome' \in [Requests -> Outcomes]
    BY <2>2 DEF TypeOK, Verdicts, Outcomes
  <2>11. QED
    BY <2>3, <2>4, <2>5, <2>6, <2>7, <2>8, <2>9, <2>10 DEF TypeOK
<1>11. ASSUME NEW a \in Authorities, Rotate(a) PROVE TypeOK'
  <2>1. rotations' \in [Authorities -> Seq(Times)]
    BY <1>11 DEF Rotate, TypeOK
  <2>2. \A b \in Authorities : Key(b)' \in Keys
    <3>1. /\ rotations[a] \in Seq(Times) /\ Len(rotations[a]) < MaxRotations[a]
          /\ rotations'[a] = Append(rotations[a], now)
          /\ \A b \in Authorities \ {a} : rotations'[b] = rotations[b]
      BY <1>11 DEF Rotate, TypeOK, Key
    <3>2. Len(rotations'[a]) \in 0 .. MaxRotations[a]
      BY <3>1
    <3>3. QED
      BY <3>1, <3>2 DEF Keys, Key, TypeOK
  <2>3. QED
    BY <1>11, <2>1, <2>2 DEF Rotate, TypeOK, caches, threads
<1>12. CASE Tick
  <2>1. now + 1 \in Times
    BY <1>12 DEF Tick, Times
  <2>2. QED
    BY <1>12, <2>1 DEF Tick, TypeOK, caches, threads, Key
<1>13. CASE UNCHANGED vars
  BY <1>13 DEF TypeOK, vars, caches, threads, Key
<1>14. QED
  BY Steps, <1>1, <1>2, <1>3, <1>4, <1>5, <1>6, <1>7, <1>8, <1>9, <1>10, <1>11, <1>12,
     <1>13

LEMMA NextLocated == TypeOK /\ Located /\ [Next]_vars => Located'
<1> SUFFICES ASSUME TypeOK, Located, [Next]_vars PROVE Located'
  OBVIOUS
<1> USE Constants
<1>t. /\ pc \in [Requests -> Locations] /\ kind \in [Requests -> Kinds]
      /\ results \in [Requests -> Seq(Verdicts)]
      /\ outcome \in [Requests -> Outcomes]
      /\ answer \in [Requests -> Assertion \cup {Nothing}]
  BY DEF TypeOK
<1>1. ASSUME NEW r \in Requests, Start(r) PROVE Located'
  BY <1>1, <1>t DEF Located, Start, Goto
<1>2. ASSUME NEW r \in Requests, TakeToken(r) PROVE Located'
  BY <1>2, <1>t DEF Located, TakeToken, Equipped, Begin, Goto
<1>3. ASSUME NEW r \in Requests, AskMint(r) PROVE Located'
  BY <1>3, <1>t DEF Located, AskMint, Begin, Goto
<1>4. ASSUME NEW r \in Requests, MintAnswers(r) PROVE Located'
  BY <1>4, <1>t DEF Located, MintAnswers, Equipped, Begin, Goto
<1>5. ASSUME NEW r \in Requests, Breaking(r) PROVE Located'
  BY <1>5, <1>t DEF Located, Breaking, End, Goto
<1>6. ASSUME NEW r \in Requests, AuthorityAsserts(r) PROVE Located'
  <2>1. TypeOK'
    BY NextTypeOK
  <2>2. answer'[r] # Nothing
    BY <1>6, <1>t DEF AuthorityAsserts, Nothing
  <2>3. answer'[r] \in Assertion
    BY <2>1, <2>2 DEF TypeOK
  <2>4. QED
    BY <1>6, <1>t, <2>3 DEF Located, AuthorityAsserts, Goto
<1>7. ASSUME NEW r \in Requests, FetchKeys(r) PROVE Located'
  BY <1>7, <1>t DEF Located, FetchKeys, Begin, Goto
<1>8. ASSUME NEW r \in Requests, MintIssues(r) \/ PublishesKeys(r) PROVE Located'
  BY <1>8, <1>t DEF Located, MintIssues, PublishesKeys, Send
<1>9. ASSUME NEW r \in Requests, Ending(r) PROVE Located'
  <2>1. PICK from \in {"evidence", "keys", "fetch"}, verdict \in Verdicts :
          Conclude(r, from, verdict) /\ (verdict = "shown" => kind[r] # "evidence")
    BY <1>9 DEF Ending
  <2>2. /\ pc[r] = from /\ kind' = kind
        /\ \E p \in {"evidence", "done"} : pc' = [pc EXCEPT ![r] = p]
        /\ \E x \in Seq(Verdicts) : results' = [results EXCEPT ![r] = x]
        /\ \E o \in {"none", "ok"} \cup Failures : outcome' = [outcome EXCEPT ![r] = o]
        /\ answer' = [answer EXCEPT ![r] = Nothing]
        /\ pc'[r] = "evidence" => /\ results'[r] = Append(results[r], verdict)
                                  /\ Len(results'[r]) < Len(Plan[r])
                                  /\ outcome'[r] = "none"
        /\ results'[r] = Append(results[r], verdict) \/ results'[r] = <<>>
    BY <2>1, <1>t, Conclusion
  <2>3. \A s \in Requests \ {r} : /\ pc'[s] = pc[s] /\ results'[s] = results[s]
                                  /\ outcome'[s] = outcome[s] /\ answer'[s] = answer[s]
    BY <2>2, <1>t
  <2>4. pc'[r] \in {"evidence", "done"}
    BY <2>2, <1>t
  <2>5. kind[r] = "evidence" => \A i \in DOMAIN results'[r] : results'[r][i] # "shown"
    <3>1. results[r] \in Seq(Verdicts)
      BY <1>t
    <3>2. kind[r] = "evidence" => \A i \in DOMAIN results[r] : results[r][i] # "shown"
      BY DEF Located
    <3>3. /\ \A i \in DOMAIN Append(results[r], verdict) :
                \/ i \in DOMAIN results[r] /\ Append(results[r], verdict)[i] = results[r][i]
                \/ Append(results[r], verdict)[i] = verdict
          /\ DOMAIN <<>> = {}
      BY <3>1
    <3>4. QED
      BY <2>1, <2>2, <3>2, <3>3
  <2>6. /\ pc'[r] = "evidence" => Len(results'[r]) < Len(Plan[r])
        /\ pc'[r] # "done" => outcome'[r] = "none"
    BY <2>2, <2>4
  <2>7. QED
    BY <2>2, <2>3, <2>4, <2>5, <2>6 DEF Located
<1>10. CASE (\E a \in Authorities : Rotate(a)) \/ Tick \/ UNCHANGED vars
  BY <1>10 DEF Located, Rotate, Tick, vars, threads
<1>11. QED
  BY Steps, <1>1, <1>2, <1>3, <1>4, <1>5, <1>6, <1>7, <1>8, <1>9, <1>10

\* Caches, exchanges and verdicts keep to their types, and a request that asks an
\* authority has one left to ask.
THEOREM TypesKept == Spec => [](TypeOK /\ Located)
<1>1. TypeOK /\ Located /\ [Next]_vars => (TypeOK /\ Located)'
  BY NextTypeOK, NextLocated
<1>2. QED
  BY <1>1, InitTypeOK, PTL DEF Spec

-----------------------------------------------------------------------------
(* The token *)

\* A token lasts at Mint, by its holder's reckoning or a time limit less.
TokenSound ==
    /\ token.until <= token.expires + Timeout
    /\ \A r \in Requests : pc[r] = "mint" =>
          /\ started[r] <= now /\ now <= started[r] + Timeout
          /\ reply[r].what = "token" => reply[r].expires >= started[r] + Lifetime

LEMMA NextTokenSound == TypeOK /\ Located /\ TokenSound /\ [Next]_vars => TokenSound'
<1> SUFFICES ASSUME TypeOK, Located, TokenSound, [Next]_vars PROVE TokenSound'
  OBVIOUS
<1> USE Constants
<1>t. /\ pc \in [Requests -> Locations] /\ started \in [Requests -> Times]
      /\ reply \in [Requests -> Replies] /\ token \in Token
      /\ now \in Nat /\ Times \subseteq Nat
      /\ \A r \in Requests :
            started[r] \in Nat /\ (reply[r].what = "token" => reply[r].expires \in Nat)
  <2>1. Times \subseteq Nat
    BY DEF Times
  <2>2. ASSUME NEW r \in Requests
        PROVE  started[r] \in Nat /\ (reply[r].what = "token" => reply[r].expires \in Nat)
    <3>1. started[r] \in Times
      BY DEF TypeOK
    <3>2. reply[r].what = "token" => reply[r].expires \in 0 .. MaxTime + Lifetime
      BY Values
    <3>3. started[r] \in Nat
      BY <2>1, <3>1
    <3>4. QED
      BY <3>2, <3>3
  <2>3. QED
    BY <2>1, <2>2, Values DEF TypeOK
<1>1. ASSUME NEW r \in Requests, Start(r) PROVE TokenSound'
  BY <1>1, <1>t DEF TokenSound, Start, Goto, caches
<1>2. ASSUME NEW r \in Requests, TakeToken(r) PROVE TokenSound'
  BY <1>2, <1>t DEF TokenSound, TakeToken, Equipped, Begin, Goto
<1>3. ASSUME NEW r \in Requests, AskMint(r) PROVE TokenSound'
  BY <1>3, <1>t DEF TokenSound, AskMint, Begin, Goto, caches, Nothing
<1>4. ASSUME NEW r \in Requests, MintAnswers(r) PROVE TokenSound'
  BY <1>4, <1>t DEF TokenSound, MintAnswers, Equipped, Begin, Goto
<1>5. ASSUME NEW r \in Requests, Breaking(r) PROVE TokenSound'
  BY <1>5, <1>t DEF TokenSound, Breaking, End, Goto, caches
<1>6. ASSUME NEW r \in Requests, AuthorityAsserts(r) PROVE TokenSound'
  BY <1>6, <1>t DEF TokenSound, AuthorityAsserts, Goto, caches
<1>7. ASSUME NEW r \in Requests, FetchKeys(r) PROVE TokenSound'
  BY <1>7, <1>t DEF TokenSound, FetchKeys, Begin, Goto, caches
<1>8. ASSUME NEW r \in Requests, MintIssues(r) PROVE TokenSound'
  <2>1. started[r] <= now
    BY <1>8 DEF MintIssues, Send, TokenSound
  <2>2. QED
    BY <1>8, <2>1, <1>t DEF TokenSound, MintIssues, Send, caches
<1>9. ASSUME NEW r \in Requests, PublishesKeys(r) PROVE TokenSound'
  BY <1>9, <1>t DEF TokenSound, PublishesKeys, Send, caches
<1>10. ASSUME NEW r \in Requests, Ending(r) PROVE TokenSound'
  <2>1. /\ UNCHANGED <<now, token>>
        /\ \E p \in {"evidence", "done"} : pc' = [pc EXCEPT ![r] = p]
        /\ \E u \in Times : started' = [started EXCEPT ![r] = u]
        /\ reply' = [reply EXCEPT ![r] = Nothing]
    BY <1>10, Conclusion DEF Ending
  <2>2. QED
    BY <2>1, <1>t DEF TokenSound
<1>11. CASE Tick
  BY <1>11, <1>t DEF TokenSound, Tick, Limit, caches, threads
<1>12. CASE (\E a \in Authorities : Rotate(a)) \/ UNCHANGED vars
  BY <1>12 DEF TokenSound, Rotate, vars, caches, threads
<1>13. QED
  BY Steps, <1>1, <1>2, <1>3, <1>4, <1>5, <1>6, <1>7, <1>8, <1>9, <1>10, <1>11, <1>12

\* Whoever takes a token from the cache or from Mint can use it for longer than
\* what is left of the margin.
THEOREM TokensLast == Spec => TokenAlive
<1> DEFINE Alive == \A r \in Requests : pc[r] \in {"token", "mint"} /\ pc'[r] = "evidence" =>
                        held'[r] > now + Margin - Timeout
<1>1. ASSUME TypeOK, Located, TokenSound, [Next]_vars PROVE [Alive]_vars
  <2> SUFFICES ASSUME NEW r \in Requests, pc[r] \in {"token", "mint"}, pc'[r] = "evidence"
               PROVE  held'[r] > now + Margin - Timeout
    OBVIOUS
  <2> USE <1>1, Constants
  <2>t. /\ pc \in [Requests -> Locations] /\ held \in [Requests -> 0 .. MaxTime + Lifetime]
        /\ token.until \in Nat /\ token.expires \in Nat /\ now \in Nat
        /\ started[r] \in Nat
        /\ reply[r].what = "token" => reply[r].expires \in Nat
    <3>1. /\ pc \in [Requests -> Locations] /\ held \in [Requests -> 0 .. MaxTime + Lifetime]
          /\ token \in Token /\ started[r] \in Times
      BY DEF TypeOK
    <3>2. token.until \in Nat /\ token.expires \in Nat
      BY <3>1 DEF Token
    <3>3. started[r] \in Nat /\ now \in Nat
      BY <3>1, Values DEF Times
    <3>4. reply[r].what = "token" => reply[r].expires \in Nat
      BY Values
    <3>5. QED
      BY <3>1, <3>2, <3>3, <3>4
  <2>1. ASSUME NEW s \in Requests, Start(s) \/ AskMint(s) \/ Breaking(s)
                                     \/ AuthorityAsserts(s) \/ FetchKeys(s)
        PROVE  FALSE
    BY <2>1, <2>t DEF Start, AskMint, Breaking, End, AuthorityAsserts, FetchKeys, Begin, Goto
  <2>2. ASSUME NEW s \in Requests, TakeToken(s) PROVE held'[r] > now + Margin - Timeout
    <3>1. s = r /\ held'[r] = token.expires /\ token.until > now + Margin
      BY <2>2, <2>t DEF TakeToken, Equipped, Begin, Goto, Fresh
    <3>2. token.until <= token.expires + Timeout
      BY DEF TokenSound
    <3>3. QED
      BY <2>t, <3>1, <3>2
  <2>3. ASSUME NEW s \in Requests, MintAnswers(s) PROVE held'[r] > now + Margin - Timeout
    <3>1. s = r /\ held'[r] = reply[r].expires /\ pc[r] = "mint" /\ reply[r].what = "token"
      BY <2>3, <2>t DEF MintAnswers, Equipped, Begin, Goto
    <3>2. now <= started[r] + Timeout /\ reply[r].expires >= started[r] + Lifetime
      BY <3>1 DEF TokenSound
    <3>3. QED
      BY <2>t, <3>1, <3>2
  <2>4. ASSUME NEW s \in Requests, Ending(s) PROVE FALSE
    <3>1. pc[s] \in {"evidence", "keys", "fetch"}
          /\ \E p \in {"evidence", "done"} : pc' = [pc EXCEPT ![s] = p]
      BY <2>4, Conclusion DEF Ending
    <3>2. QED
      BY <2>t, <3>1
  <2>5. CASE \/ \E s \in Requests : MintIssues(s) \/ PublishesKeys(s)
             \/ \E a \in Authorities : Rotate(a)
             \/ Tick \/ UNCHANGED vars
    BY <2>5 DEF MintIssues, PublishesKeys, Send, Rotate, Tick, vars, threads
  <2>6. QED
    BY Steps, <2>1, <2>2, <2>3, <2>4, <2>5
<1>2. Init => TokenSound
  BY Constants DEF Init, TokenSound, NoToken
<1>3. TypeOK /\ Located /\ TokenSound /\ [Next]_vars => TokenSound'
  BY NextTokenSound
<1>4. QED
  BY <1>1, <1>2, <1>3, TypesKept, PTL DEF Spec, TokenAlive

-----------------------------------------------------------------------------
(* The wait for the token *)

Waits(r) == pc[r] \in {"token", "mint"}

\* The requests that have got past the lock: none of them comes back to it.
Past == {r \in Requests : pc[r] \notin {"idle", "token", "mint"}}

\* A request that waits for the lock has waited one time limit for each request
\* that has got past it, and for what the one that holds it has taken.
WaitSound ==
    \A r \in Requests : Waits(r) =>
        /\ since[r] <= now
        /\ Free => now - since[r] <= Timeout * Cardinality(Past)
        /\ \A h \in Requests : pc[h] = "mint" =>
              started[h] - since[r] <= Timeout * Cardinality(Past)

\* One request more is past the lock, or those that were.
LEMMA PastCount ==
    /\ IsFiniteSet(Past) /\ Cardinality(Past) \in Nat
    /\ Timeout * Cardinality(Past) \in Nat
    /\ \A r \in Requests \ Past :
          /\ Cardinality(Past \cup {r}) \in Nat
          /\ Timeout * Cardinality(Past \cup {r})
                = Timeout * Cardinality(Past) + Timeout
          /\ Cardinality(Past) + 1 <= Cardinality(Requests)
          /\ Timeout * Cardinality(Past) + Timeout
                <= Timeout * Cardinality(Requests)
<1>1. /\ \A t, c \in Nat : t * c \in Nat /\ t * (c + 1) = t * c + t
      /\ \A t, a, b \in Nat : a <= b => t * a <= t * b
  OBVIOUS
<1>2. IsFiniteSet(Past) /\ Cardinality(Past) \in Nat
  BY RequestsAssumption, FS_Subset, FS_CardinalityType DEF Past
<1>3. ASSUME NEW r \in Requests \ Past
      PROVE  /\ Cardinality(Past \cup {r}) = Cardinality(Past) + 1
             /\ Cardinality(Past) + 1 <= Cardinality(Requests)
  <2>1. Cardinality(Past \cup {r}) = Cardinality(Past) + 1
    BY <1>2, FS_AddElement
  <2>2. Past \cup {r} \in SUBSET Requests
    BY DEF Past
  <2>. QED BY <2>1, <2>2, RequestsAssumption, FS_Subset
<1>4. Cardinality(Requests) \in Nat
  BY RequestsAssumption, FS_CardinalityType
<1>. QED
  <2>1. ASSUME NEW r \in Requests \ Past
        PROVE  /\ Timeout * (Cardinality(Past) + 1)
                     = Timeout * Cardinality(Past) + Timeout
               /\ Timeout * (Cardinality(Past) + 1)
                     <= Timeout * Cardinality(Requests)
    <3>1. Cardinality(Past) + 1 \in Nat
      BY <1>2
    <3>. QED BY <1>1, <1>2, <1>3, <1>4, <3>1, Constants
  <2>2. Timeout * Cardinality(Past) \in Nat
    BY <1>1, <1>2, Constants
  <2>. QED BY <1>2, <1>3, <2>1, <2>2

\* A step by which no request gets to the lock or past it.
LEMMA WaitKept ==
    ASSUME WaitSound, UNCHANGED <<now, since, holder>>,
           \A r \in Requests :
              /\ pc'[r] \in {"idle", "token", "mint"} => pc'[r] = pc[r]
              /\ pc[r] \in {"idle", "token", "mint"} => pc'[r] = pc[r]
              /\ pc[r] = "mint" => started'[r] = started[r]
    PROVE  WaitSound'
<1>1. Past' = Past
  BY DEF Past
<1>. QED BY <1>1 DEF WaitSound, Waits, Free

LEMMA NextWaitSound ==
    TypeOK /\ Located /\ TokenSound /\ WaitSound /\ [Next]_vars => WaitSound'
<1> SUFFICES ASSUME TypeOK, Located, TokenSound, WaitSound, [Next]_vars
             PROVE  WaitSound'
  OBVIOUS
<1>t. /\ pc \in [Requests -> Locations] /\ started \in [Requests -> Times]
      /\ since \in [Requests -> Times] /\ now \in Nat /\ Times \subseteq Nat
      /\ holder \in Requests \cup {Nobody}
      /\ \A r \in Requests : holder = r <=> pc[r] = "mint"
      /\ Nobody \notin Requests /\ Timeout \in Nat
      /\ \A r \in Requests : pc[r] = "mint" =>
            started[r] <= now /\ now <= started[r] + Timeout
  BY SMTT(20), Constants, Values DEF TypeOK, Times, TokenSound
<1>n. \A r \in Requests : started[r] \in Nat /\ since[r] \in Nat
  BY <1>t
<1>1. ASSUME NEW r \in Requests, Start(r) PROVE WaitSound'
  <2>1. /\ pc' = [pc EXCEPT ![r] = "token"] /\ since' = [since EXCEPT ![r] = now]
        /\ pc[r] = "idle" /\ UNCHANGED <<now, holder, started>>
    BY <1>1 DEF Start, Goto
  <2>2. Past' = Past
    BY <1>t, <2>1 DEF Past
  <2>3. 0 <= Timeout * Cardinality(Past) /\ Timeout * Cardinality(Past) \in Nat
    BY PastCount
  <2>4. ASSUME NEW q \in Requests, Waits(q)'
        PROVE  /\ since'[q] <= now
               /\ Free => now - since'[q] <= Timeout * Cardinality(Past)
               /\ \A h \in Requests : pc'[h] = "mint" =>
                     started[h] - since'[q] <= Timeout * Cardinality(Past)
    <3>1. CASE q = r
      <4>1. since'[q] = now
        BY <1>t, <2>1, <3>1
      <4>2. ASSUME NEW h \in Requests, pc'[h] = "mint"
            PROVE  started[h] - now <= 0 /\ started[h] \in Nat
        BY <1>t, <1>n, <2>1, <4>2
      <4>. QED BY <1>t, <2>3, <4>1, <4>2
    <3>2. CASE q # r
      BY <1>t, <2>1, <2>4, <3>2 DEF WaitSound, Waits
    <3>. QED BY <3>1, <3>2
  <2>. QED BY <2>1, <2>2, <2>4 DEF WaitSound, Free
<1>2. ASSUME NEW r \in Requests,
             TakeToken(r) \/ MintAnswers(r) \/ (Breaking(r) /\ pc[r] = "mint")
      PROVE  WaitSound'
  <2>1. /\ pc[r] \in {"token", "mint"}
        /\ pc[r] = "token" => Free
        /\ \E p \in {"evidence", "done"} : pc' = [pc EXCEPT ![r] = p]
        /\ since' = [since EXCEPT ![r] = 0]
        /\ UNCHANGED now /\ holder' = Nobody
    BY <1>2 DEF TakeToken, MintAnswers, Breaking, Equipped, Begin, End, Goto, Free
  <2>2. Past' = Past \cup {r} /\ r \in Requests \ Past
    BY <1>t, <2>1 DEF Past
  <2>3. ASSUME NEW q \in Requests, Waits(q)'
        PROVE  /\ since'[q] <= now
               /\ now - since'[q] <= Timeout * Cardinality(Past) + Timeout
    <3>1. q # r /\ Waits(q) /\ since'[q] = since[q] /\ since[q] \in Nat
      BY <1>t, <2>1, <2>3 DEF Waits
    <3>2. CASE pc[r] = "token"
      BY <1>t, <2>1, <3>1, <3>2, PastCount DEF WaitSound
    <3>3. CASE pc[r] = "mint"
      <4>1. /\ started[r] - since[q] <= Timeout * Cardinality(Past)
            /\ now <= started[r] + Timeout /\ started[r] \in Nat
        BY <1>t, <3>1, <3>3 DEF WaitSound
      <4>2. Timeout * Cardinality(Past) \in Nat
        BY PastCount
      <4>3. since'[q] <= now
        BY <3>1 DEF WaitSound
      <4>. QED BY <1>t, <3>1, <4>1, <4>2, <4>3
    <3>. QED BY <2>1, <3>2, <3>3
  <2>4. \A h \in Requests : pc'[h] # "mint"
    <3>1. \A h \in Requests \ {r} : pc[h] # "mint"
      BY <1>t, <2>1 DEF Free
    <3>. QED BY <1>t, <2>1, <3>1
  <2>. QED BY <2>1, <2>2, <2>3, <2>4, PastCount DEF WaitSound
<1>3. ASSUME NEW r \in Requests, AskMint(r) PROVE WaitSound'
  <2>1. /\ pc' = [pc EXCEPT ![r] = "mint"] /\ started' = [started EXCEPT ![r] = now]
        /\ pc[r] = "token" /\ Free /\ holder' = r /\ UNCHANGED <<now, since>>
    BY <1>3 DEF AskMint, Begin, Goto
  <2>2. Past' = Past
    BY <1>t, <2>1 DEF Past
  <2>3. \A h \in Requests : pc'[h] = "mint" => started'[h] = now
    BY <1>t, <2>1 DEF Free
  <2>4. ~Free'
    BY <1>t, <2>1 DEF Free
  <2>5. \A q \in Requests : Waits(q)' => Waits(q)
    BY <1>t, <2>1 DEF Waits
  <2>. QED BY <2>1, <2>2, <2>3, <2>4, <2>5 DEF WaitSound
<1>4. ASSUME NEW r \in Requests, AuthorityAsserts(r) \/ FetchKeys(r)
      PROVE  WaitSound'
  <2>1. /\ pc[r] \in {"evidence", "keys"}
        /\ \E p \in {"keys", "fetch"} : pc' = [pc EXCEPT ![r] = p]
        /\ \E t \in Nat : started' = [started EXCEPT ![r] = t] \/ started' = started
        /\ UNCHANGED <<now, since, holder>>
    BY <1>4, <1>t DEF AuthorityAsserts, FetchKeys, Begin, Goto
  <2>. QED BY <1>t, <2>1, WaitKept
<1>5. ASSUME NEW r \in Requests, Ending(r) \/ (Breaking(r) /\ pc[r] # "mint")
      PROVE  WaitSound'
  <2>1. /\ pc[r] \in {"evidence", "keys", "fetch"}
        /\ \E p \in {"evidence", "done"} : pc' = [pc EXCEPT ![r] = p]
        /\ \E u \in Times : started' = [started EXCEPT ![r] = u]
        /\ UNCHANGED <<now, holder>>
        /\ \E u \in Times : since' = [since EXCEPT ![r] = u]
    <3>1. CASE Ending(r)
      BY <3>1, Conclusion DEF Ending
    <3>2. CASE Breaking(r) /\ pc[r] # "mint"
      <4>1. 0 \in Times
        BY Constants DEF Times
      <4>2. QED
        BY <3>2, <4>1 DEF Breaking, End, Goto
    <3>3. QED
      BY <1>5, <3>1, <3>2
  <2>2. Past' = Past
    BY <1>t, <2>1 DEF Past
  <2>. QED BY <1>t, <2>1, <2>2 DEF WaitSound, Waits, Free
<1>6. CASE Tick
  <2>1. /\ now' = now + 1 /\ UNCHANGED <<pc, since, started, holder>>
        /\ \A r \in Requests : pc[r] = "token" => ~Free
    BY <1>6 DEF Tick, threads
  <2>2. Past' = Past
    BY <2>1 DEF Past
  <2>3. ASSUME NEW r \in Requests, Waits(r)
        PROVE  ~Free /\ since[r] <= now' /\ since[r] \in Nat
    <3>1. ~Free
      BY <1>t, <2>1, <2>3 DEF Waits, Free
    <3>2. since[r] <= now
      BY <2>3 DEF WaitSound
    <3>. QED BY <1>t, <1>n, <2>1, <3>1, <3>2
  <2>. QED BY <2>1, <2>2, <2>3 DEF WaitSound, Waits, Free
<1>7. CASE \/ \E r \in Requests : MintIssues(r) \/ PublishesKeys(r)
           \/ \E a \in Authorities : Rotate(a)
           \/ UNCHANGED vars
  <2>1. UNCHANGED <<now, since, holder, pc, started>>
    BY <1>7 DEF MintIssues, PublishesKeys, Send, Rotate, vars, threads
  <2>. QED BY <2>1, WaitKept
<1>. QED
  BY Steps, <1>1, <1>2, <1>3, <1>4, <1>5, <1>6, <1>7

\* While Mint does not answer, no request waits for the token for longer than one
\* time limit for each request there is.
THEOREM WaitsAreBounded == Spec => []TokenWaitBounded
<1>1. Init => WaitSound
  BY DEF Init, WaitSound, Waits
<1>2. ASSUME TypeOK, TokenSound, WaitSound PROVE TokenWaitBounded
  <2> SUFFICES ASSUME NEW r \in Requests, Waits(r)
               PROVE  now - since[r] <= Timeout * Cardinality(Requests)
    BY DEF TokenWaitBounded, Waits
  <2>1. /\ since[r] \in Nat /\ now \in Nat /\ Timeout \in Nat
        /\ holder \in Requests \cup {Nobody}
        /\ \A h \in Requests : holder = h => pc[h] = "mint" /\ started[h] \in Nat
    BY <1>2, Constants, Values DEF TypeOK, Times
  <2>2. r \in Requests \ Past
    BY DEF Waits, Past
  <2>3. now - since[r] <= Timeout * Cardinality(Past) + Timeout
    <3>1. CASE Free
      BY <1>2, <2>1, <3>1, PastCount DEF WaitSound
    <3>2. CASE ~Free
      <4>1. PICK h \in Requests : pc[h] = "mint" /\ started[h] \in Nat
        BY <2>1, <3>2 DEF Free
      <4>2. /\ started[h] - since[r] <= Timeout * Cardinality(Past)
            /\ now <= started[h] + Timeout
        BY <1>2, <4>1 DEF WaitSound, TokenSound
      <4>. QED BY <2>1, <4>1, <4>2, PastCount
    <3>. QED BY <3>1, <3>2
  <2>4. Cardinality(Requests) \in Nat
    BY RequestsAssumption, FS_CardinalityType
  <2>5. Timeout * Cardinality(Requests) \in Nat
    BY <2>1, <2>4
  <2>6. /\ Timeout * Cardinality(Past) \in Nat
        /\ Timeout * Cardinality(Past) + Timeout <= Timeout * Cardinality(Requests)
    BY <2>2, PastCount
  <2>. QED BY <2>1, <2>3, <2>5, <2>6
<1>3. Init => TokenSound
  BY Constants DEF Init, TokenSound, NoToken
<1>4. TypeOK /\ Located /\ TokenSound /\ [Next]_vars => TokenSound'
  BY NextTokenSound
<1>5. TypeOK /\ Located /\ TokenSound /\ WaitSound /\ [Next]_vars => WaitSound'
  BY NextWaitSound
<1>. QED
  BY <1>1, <1>2, <1>3, <1>4, <1>5, TypesKept, PTL DEF Spec

-----------------------------------------------------------------------------
(* The keys *)

\* The authority signs with this key, or did so at t.
SignedSince(a, key, t) == Key(a) > key => rotations[a][key + 1] >= t

\* How old keys can be, on their way and in the cache.
KeysSound ==
    /\ \A a \in Authorities :
          /\ jwks[a].until <= now + CacheTime
          /\ SignedSince(a, jwks[a].key, jwks[a].until - KeysAge)
    /\ \A r \in Requests :
          /\ pc[r] = "keys" => SignedSince(At(r), answer[r].key, now)
          /\ pc[r] = "fetch" =>
                /\ started[r] <= now /\ now <= started[r] + KeyTimeout
                /\ SignedSince(At(r), answer[r].key, started[r])
                /\ reply[r].what = "keys" => SignedSince(At(r), reply[r].key, started[r])

\* A rotation does not make a key older than it is now.
LEMMA RotationKeeps ==
    ASSUME TypeOK, NEW b \in Authorities, Rotate(b), NEW a \in Authorities, NEW key \in Nat,
           NEW t \in Int, t <= now, SignedSince(a, key, t)
    PROVE  SignedSince(a, key, t)'
<1>1. /\ rotations \in [Authorities -> Seq(Times)]
      /\ rotations' = [rotations EXCEPT ![b] = Append(@, now)] /\ now \in Times
      /\ now' = now
  BY DEF TypeOK, Rotate
<1>2. CASE a # b
  BY <1>1, <1>2 DEF SignedSince, Key
<1>3. CASE a = b
  <2>1. rotations[a] \in Seq(Times) /\ rotations'[a] = Append(rotations[a], now)
    BY <1>1, <1>3
  <2>2. /\ Len(rotations'[a]) = Len(rotations[a]) + 1 /\ Len(rotations[a]) \in Nat
        /\ rotations'[a][Len(rotations[a]) + 1] = now
        /\ \A i \in 1 .. Len(rotations[a]) : rotations'[a][i] = rotations[a][i]
    BY <1>1, <2>1
  <2>3. CASE key < Len(rotations[a])
    BY SMTT(20), <2>2, <2>3 DEF SignedSince, Key
  <2>4. CASE key = Len(rotations[a])
    BY <2>2, <2>4, <1>1, Constants DEF SignedSince, Key, Times
  <2>5. CASE key > Len(rotations[a])
    BY <2>2, <2>5 DEF SignedSince, Key
  <2>6. QED
    BY <2>2, <2>3, <2>4, <2>5
<1>4. QED
  BY <1>2, <1>3

LEMMA NextKeysSound == TypeOK /\ Located /\ KeysSound /\ [Next]_vars => KeysSound'
<1> SUFFICES ASSUME TypeOK, Located, KeysSound, [Next]_vars PROVE KeysSound'
  OBVIOUS
<1> USE Constants
<1>n. now \in Nat /\ now \in Times /\ \A r \in Requests : started[r] \in Nat
  BY Values DEF TypeOK, Times
<1>t. /\ pc \in [Requests -> Locations] /\ started \in [Requests -> Times]
      /\ results \in [Requests -> Seq(Verdicts)] /\ reply \in [Requests -> Replies]
      /\ answer \in [Requests -> Assertion \cup {Nothing}]
      /\ jwks \in [Authorities -> KeySet] /\ Keys \subseteq Nat
      /\ \A r \in Requests : pc[r] \in {"evidence", "keys", "fetch"} => At(r) \in Authorities
      /\ \A a \in Authorities : Key(a) \in Nat
      /\ \A a \in Authorities : jwks[a].key \in Nat /\ jwks[a].until \in Nat
  <2>1. Keys \subseteq Nat
    BY DEF Keys
  <2>2. ASSUME NEW a \in Authorities PROVE jwks[a].key \in Nat /\ jwks[a].until \in Nat
    <3>1. jwks[a] \in KeySet
      BY DEF TypeOK
    <3>2. jwks[a].key \in Keys /\ jwks[a].until \in 0 .. MaxTime + CacheTime
      BY <3>1 DEF KeySet
    <3>3. jwks[a].key \in Nat
      BY <2>1, <3>2
    <3>4. jwks[a].until \in Nat
      BY <3>2
    <3>5. QED
      BY <3>3, <3>4
  <2>3. \A a \in Authorities : Key(a) \in Nat
    BY <2>1 DEF TypeOK
  <2>4. \A r \in Requests : pc[r] \in {"evidence", "keys", "fetch"} => At(r) \in Authorities
    BY AtAuthority
  <2>5. QED
    BY <2>1, <2>2, <2>3, <2>4 DEF TypeOK
<1>k. ASSUME NEW r \in Requests
      PROVE  /\ pc[r] \in {"keys", "fetch"} => answer[r].key \in Nat
             /\ reply[r].what = "keys" => reply[r].key \in Nat
  <2>1. pc[r] \in {"keys", "fetch"} => answer[r] \in Assertion
    BY DEF Located
  <2>2. pc[r] \in {"keys", "fetch"} => answer[r].key \in Keys
    BY <2>1 DEF Assertion
  <2>3. QED
    BY <2>2, <1>t, Values
\* What a step that rotates nothing and passes no time leaves of the keys in use.
<1>s. ASSUME NEW r \in Requests, UNCHANGED <<now, rotations, jwks>>,
             \A s \in Requests \ {r} :
                /\ pc'[s] = pc[s] /\ started'[s] = started[s] /\ reply'[s] = reply[s]
                /\ answer'[s] = answer[s] /\ results'[s] = results[s],
             pc'[r] \notin {"keys", "fetch"}
      PROVE  KeysSound'
  BY <1>s DEF KeysSound, SignedSince, Key, At
<1>1. ASSUME NEW r \in Requests, Start(r) PROVE KeysSound'
  BY <1>1, <1>s, <1>t DEF Start, Goto, caches
<1>2. ASSUME NEW r \in Requests, TakeToken(r) PROVE KeysSound'
  BY <1>2, <1>s, <1>t DEF TakeToken, Equipped, Begin, Goto
<1>3. ASSUME NEW r \in Requests, AskMint(r) PROVE KeysSound'
  BY <1>3, <1>s, <1>t DEF AskMint, Begin, Goto, caches
<1>4. ASSUME NEW r \in Requests, MintAnswers(r) PROVE KeysSound'
  BY <1>4, <1>s, <1>t DEF MintAnswers, Equipped, Begin, Goto
<1>5. ASSUME NEW r \in Requests, Breaking(r) PROVE KeysSound'
  BY <1>5, <1>s, <1>t DEF Breaking, End, Goto, caches
<1>6. ASSUME NEW r \in Requests, AuthorityAsserts(r) PROVE KeysSound'
  <2>1. /\ pc[r] = "evidence" /\ pc' = [pc EXCEPT ![r] = "keys"]
        /\ UNCHANGED <<now, rotations, jwks, started, reply, results>>
        /\ answer'[r].key = Key(At(r))
        /\ \A s \in Requests \ {r} : answer'[s] = answer[s]
    BY <1>6, <1>t DEF AuthorityAsserts, Goto, caches
  <2>2. SignedSince(At(r), answer[r].key, now)'
    BY <2>1, <1>t DEF SignedSince, Key, At
  <2>3. QED
    BY <2>1, <2>2, <1>t DEF KeysSound, SignedSince, Key, At
<1>7. ASSUME NEW r \in Requests, FetchKeys(r) PROVE KeysSound'
  <2>1. /\ pc[r] = "keys" /\ pc' = [pc EXCEPT ![r] = "fetch"]
        /\ started' = [started EXCEPT ![r] = now] /\ reply' = [reply EXCEPT ![r] = Nothing]
        /\ UNCHANGED <<now, rotations, jwks, answer, results>>
    BY <1>7 DEF FetchKeys, Begin, Goto, caches
  <2>2. SignedSince(At(r), answer[r].key, started[r])'
    BY <2>1, <1>t DEF KeysSound, SignedSince, Key, At
  <2>3. started'[r] = now /\ reply'[r].what # "keys"
    BY <2>1, <1>t DEF Nothing
  <2>4. started'[r] <= now' /\ now' <= started'[r] + KeyTimeout
    BY <2>1, <2>3, <1>n
  <2>5. \A s \in Requests \ {r} : /\ pc'[s] = pc[s] /\ started'[s] = started[s]
                                  /\ reply'[s] = reply[s]
    BY <2>1, <1>t
  <2>6. pc'[r] = "fetch"
    BY <2>1, <1>t
  <2>7. \A a \in Authorities : /\ jwks'[a].until <= now' + CacheTime
                               /\ SignedSince(a, jwks[a].key, jwks[a].until - KeysAge)'
    BY <2>1 DEF KeysSound, SignedSince, Key, KeysAge
  <2>8. ASSUME NEW s \in Requests \ {r}
        PROVE  /\ pc'[s] = "keys" => SignedSince(At(s), answer[s].key, now)'
               /\ pc'[s] = "fetch" =>
                    /\ started'[s] <= now' /\ now' <= started'[s] + KeyTimeout
                    /\ SignedSince(At(s), answer[s].key, started[s])'
                    /\ reply'[s].what = "keys" => SignedSince(At(s), reply[s].key, started[s])'
    BY <2>1, <2>5 DEF KeysSound, SignedSince, Key, At
  <2>9. QED
    BY <2>2, <2>3, <2>4, <2>6, <2>7, <2>8 DEF KeysSound
<1>8. ASSUME NEW r \in Requests, MintIssues(r) PROVE KeysSound'
  BY <1>8, <1>t DEF MintIssues, Send, caches, KeysSound, SignedSince, Key, At
<1>9. ASSUME NEW r \in Requests, PublishesKeys(r) PROVE KeysSound'
  <2>1. /\ pc[r] = "fetch" /\ reply'[r] = [what |-> "keys", key |-> Key(At(r))]
        /\ \A s \in Requests \ {r} : reply'[s] = reply[s]
        /\ UNCHANGED <<now, rotations, jwks, pc, started, answer, results>>
    BY <1>9, <1>t DEF PublishesKeys, Send, caches
  <2>2. SignedSince(At(r), reply[r].key, started[r])'
    BY <2>1, <1>t DEF SignedSince, Key, At
  <2>3. QED
    BY <2>1, <2>2, <1>t DEF KeysSound, SignedSince, Key, At
<1>10. ASSUME NEW r \in Requests, Ending(r) PROVE KeysSound'
  <2>1. PICK from \in {"evidence", "keys", "fetch"}, verdict \in Verdicts :
          Conclude(r, from, verdict) /\ (UNCHANGED jwks \/ Stores(r))
    BY <1>10 DEF Ending
  <2>2. /\ UNCHANGED <<now, rotations>>
        /\ \A s \in Requests \ {r} :
              /\ pc'[s] = pc[s] /\ started'[s] = started[s] /\ reply'[s] = reply[s]
              /\ answer'[s] = answer[s] /\ results'[s] = results[s]
        /\ pc'[r] \in {"evidence", "done"}
    BY <2>1, <1>t, Conclusion
  <2>3. CASE UNCHANGED jwks
    BY <2>2, <2>3, <1>s
  <2>4. CASE Stores(r)
    <3>1. /\ At(r) \in Authorities
          /\ \A a \in Authorities :
                IF a = At(r) THEN jwks'[a] = [key |-> reply[r].key, until |-> now + CacheTime]
                ELSE jwks'[a] = jwks[a]
      BY <2>4, <1>t DEF Stores
    <3>2. /\ SignedSince(At(r), reply[r].key, started[r])
          /\ now <= started[r] + KeyTimeout /\ reply[r].key \in Nat
      BY <2>4, <1>k DEF Stores, KeysSound
    <3>3. now + CacheTime - KeysAge <= started[r]
      BY <3>2, <1>n DEF KeysAge
    <3>4. \A x \in Int : x >= started[r] => x >= now + CacheTime - KeysAge
      BY <3>3, <1>n DEF KeysAge
    <3>5. Key(At(r)) > reply[r].key => rotations[At(r)][reply[r].key + 1] \in Int
      <4>1. rotations[At(r)] \in Seq(Times) /\ Times \subseteq Int
        BY <3>1 DEF TypeOK, Times
      <4>2. Key(At(r)) > reply[r].key => reply[r].key + 1 \in 1 .. Len(rotations[At(r)])
        BY <4>1, <3>2 DEF Key
      <4>3. Key(At(r)) > reply[r].key => rotations[At(r)][reply[r].key + 1] \in Times
        BY <4>1, <4>2
      <4>4. QED
        BY <4>1, <4>3
    <3>6. SignedSince(At(r), reply[r].key, now + CacheTime - KeysAge)
      BY <3>2, <3>4, <3>5 DEF SignedSince
    <3>7. ASSUME NEW a \in Authorities
          PROVE  /\ jwks'[a].until <= now + CacheTime
                 /\ SignedSince(a, jwks[a].key, jwks[a].until - KeysAge)'
      <4>1. CASE a = At(r)
        <5>1. jwks'[a].key = reply[r].key /\ jwks'[a].until = now + CacheTime
          BY <3>1, <4>1
        <5>2. SignedSince(a, reply[r].key, now + CacheTime - KeysAge)
          BY <3>6, <4>1
        <5>3. QED
          BY <2>2, <5>1, <5>2, <1>n DEF SignedSince, Key, KeysAge
      <4>2. CASE a # At(r)
        BY <2>2, <3>1, <4>2 DEF KeysSound, SignedSince, Key, KeysAge
      <4>3. QED
        BY <4>1, <4>2
    <3>8. QED
      BY <2>2, <3>7 DEF KeysSound, SignedSince, Key, At
  <2>5. QED
    BY <2>1, <2>3, <2>4
<1>11. ASSUME NEW b \in Authorities, Rotate(b) PROVE KeysSound'
  <2>1. UNCHANGED <<now, jwks, pc, started, reply, answer, results>>
    BY <1>11 DEF Rotate, caches, threads
  <2>2. ASSUME NEW a \in Authorities
        PROVE  SignedSince(a, jwks[a].key, jwks[a].until - KeysAge)'
    <3>1. jwks[a].until - KeysAge \in Int /\ jwks[a].until - KeysAge <= now
      BY <1>n, <1>t DEF KeysSound, KeysAge
    <3>2. SignedSince(a, jwks[a].key, jwks[a].until - KeysAge)
      BY DEF KeysSound
    <3>3. SignedSince(a, jwks[a].key, jwks[a].until - KeysAge) =>
            \A k \in Nat, t \in Int : k = jwks[a].key /\ t = jwks[a].until - KeysAge =>
              SignedSince(a, k, t)'
      BY <1>11, <1>t, <3>1, RotationKeeps
    <3>4. QED
      BY <2>1, <3>1, <3>2, <3>3, <1>t DEF SignedSince, KeysAge
  <2>3. ASSUME NEW r \in Requests
        PROVE  /\ pc[r] = "keys" => SignedSince(At(r), answer[r].key, now)'
               /\ pc[r] = "fetch" => SignedSince(At(r), answer[r].key, started[r])'
               /\ pc[r] = "fetch" /\ reply[r].what = "keys" =>
                    SignedSince(At(r), reply[r].key, started[r])'
    <3>1. \A a \in Authorities, k \in Nat, t \in Nat :
             t <= now /\ SignedSince(a, k, t) => (Key(a)' > k => rotations'[a][k + 1] >= t)
      BY <1>11, <1>n, RotationKeeps DEF SignedSince
    <3>2. CASE pc[r] = "keys"
      <4>1. SignedSince(At(r), answer[r].key, now) /\ At(r) \in Authorities
            /\ answer[r].key \in Nat
        BY <3>2, <1>t, <1>k DEF KeysSound
      <4>2. PICK a \in Authorities, k \in Nat :
              a = At(r) /\ k = answer[r].key /\ SignedSince(a, k, now)
        BY <4>1
      <4>3. now \in Nat /\ now <= now
        BY <1>n
      <4>4. Key(a)' > k => rotations'[a][k + 1] >= now
        BY <3>1, <4>2, <4>3
      <4>5. SignedSince(At(r), answer[r].key, now)'
        BY <2>1, <4>2, <4>4 DEF SignedSince, Key, At
      <4>6. QED
        BY <3>2, <4>5
    <3>3. CASE pc[r] = "fetch"
      <4>1. /\ SignedSince(At(r), answer[r].key, started[r]) /\ At(r) \in Authorities
            /\ reply[r].what = "keys" => SignedSince(At(r), reply[r].key, started[r])
            /\ reply[r].what = "keys" => reply[r].key \in Nat
            /\ answer[r].key \in Nat /\ started[r] <= now /\ started[r] \in Nat
        BY <3>3, <1>n, <1>t, <1>k DEF KeysSound
      <4>2. QED
        BY <2>1, <3>1, <3>3, <4>1 DEF SignedSince, Key, At
    <3>4. QED
      BY <2>1, <3>2, <3>3
  <2>4. QED
    BY <2>1, <2>2, <2>3 DEF KeysSound
<1>12. CASE Tick
  <2>1. /\ now' = now + 1
        /\ UNCHANGED <<rotations, jwks, pc, started, reply, answer, results>>
        /\ \A r \in Requests : /\ pc[r] # "keys"
                               /\ pc[r] = "fetch" => now < started[r] + KeyTimeout
    BY <1>12 DEF Tick, Limit, caches, threads
  <2>2. \A a \in Authorities : /\ jwks'[a].until <= now' + CacheTime
                               /\ SignedSince(a, jwks[a].key, jwks[a].until - KeysAge)'
    BY <2>1, <1>n, <1>t DEF KeysSound, SignedSince, Key, KeysAge
  <2>3. \A r \in Requests : pc[r] = "fetch" =>
          started[r] <= now + 1 /\ now + 1 <= started[r] + KeyTimeout
    BY <2>1, <1>n DEF KeysSound
  <2>4. QED
    BY <2>1, <2>2, <2>3 DEF KeysSound, SignedSince, Key, At
<1>13. CASE UNCHANGED vars
  BY <1>13 DEF vars, caches, threads, KeysSound, SignedSince, Key, At
<1>14. QED
  BY Steps, <1>1, <1>2, <1>3, <1>4, <1>5, <1>6, <1>7, <1>8, <1>9, <1>10, <1>11, <1>12,
     <1>13

LEMMA KeysSoundHolds == Spec => []KeysSound
<1>1. Init => KeysSound
  <2> SUFFICES ASSUME Init PROVE KeysSound
    OBVIOUS
  <2>1. \A a \in Authorities : Key(a) = 0 /\ jwks[a].until = 0 /\ jwks[a].key = 0
    BY DEF Init, Key, NoKeys
  <2>2. \A r \in Requests : pc[r] = "idle"
    BY DEF Init
  <2>3. now = 0
    BY DEF Init
  <2>4. QED
    BY <2>1, <2>2, <2>3, Constants DEF KeysSound, SignedSince
<1>2. TypeOK /\ Located /\ KeysSound /\ [Next]_vars => KeysSound'
  BY NextKeysSound
<1>3. QED
  BY <1>1, <1>2, TypesKept, PTL DEF Spec

\* Keys that are in use are never further behind their authority than a cache
\* period and a fetch, whichever of two fetches was stored last.
THEOREM KeysAreRecent == Spec => []KeysRecent
<1>1. TypeOK /\ KeysSound => KeysRecent
  <2> SUFFICES ASSUME TypeOK, KeysSound, NEW a \in Authorities, KeysCached(a),
                      Key(a) > jwks[a].key
               PROVE  now <= rotations[a][jwks[a].key + 1] + KeysAge
    BY DEF KeysRecent, SignedWithin
  <2>1. rotations[a] \in Seq(Times) /\ Times \subseteq Nat /\ now \in Nat
    BY Values, Constants DEF TypeOK, Times
  <2>2. jwks[a].key \in Nat /\ jwks[a].until \in Nat
    <3>1. jwks[a] \in KeySet /\ Keys \subseteq Nat
      BY DEF TypeOK, Keys
    <3>2. jwks[a].key \in Keys /\ jwks[a].until \in 0 .. MaxTime + CacheTime
      BY <3>1 DEF KeySet
    <3>3. jwks[a].key \in Nat
      BY <3>1, <3>2
    <3>4. jwks[a].until \in Nat
      BY <3>2
    <3>5. QED
      BY <3>3, <3>4
  <2>3. jwks[a].key + 1 \in 1 .. Len(rotations[a])
    BY <2>1, <2>2 DEF Key
  <2>4. rotations[a][jwks[a].key + 1] \in Nat
    <3>1. rotations[a][jwks[a].key + 1] \in Times
      BY <2>1, <2>3
    <3>2. QED
      BY <2>1, <3>1
  <2>5. rotations[a][jwks[a].key + 1] >= jwks[a].until - KeysAge /\ jwks[a].until > now
    BY DEF KeysSound, SignedSince, KeysCached
  <2>6. QED
    BY <2>1, <2>2, <2>4, <2>5, Constants DEF KeysAge
<1>2. QED
  BY <1>1, KeysSoundHolds, TypesKept, PTL

-----------------------------------------------------------------------------
(* What is shown *)

\* An assertion that is about to be verified is signed with a recent key.
LEMMA AnswerRecent ==
    ASSUME TypeOK, Located, KeysSound, NEW r \in Requests, pc[r] \in {"keys", "fetch"}
    PROVE  SignedWithin(At(r), answer[r].key, KeysAge)
<1>1. At(r) \in Authorities /\ now \in Nat /\ started[r] \in Nat
  <2>1. At(r) \in Authorities
    BY AtAuthority
  <2>2. started[r] \in Times
    BY DEF TypeOK
  <2>. QED BY <2>1, <2>2, Values DEF Times
<1>2. answer[r].key \in Nat
  <2>1. answer[r] \in Assertion /\ Keys \subseteq Nat
    BY DEF Located, Keys
  <2>2. answer[r].key \in Keys
    BY <2>1 DEF Assertion
  <2>3. QED
    BY <2>1, <2>2
<1>3. rotations[At(r)] \in Seq(Times) /\ Times \subseteq Nat
  BY <1>1, Constants DEF TypeOK, Times
<1>4. Key(At(r)) > answer[r].key => rotations[At(r)][answer[r].key + 1] \in Nat
  <2>1. Key(At(r)) > answer[r].key => answer[r].key + 1 \in 1 .. Len(rotations[At(r)])
    BY <1>2, <1>3 DEF Key
  <2>2. Key(At(r)) > answer[r].key => rotations[At(r)][answer[r].key + 1] \in Times
    BY <1>3, <2>1
  <2>3. QED
    BY <1>3, <2>2
<1>5. \E t \in Nat : now <= t + KeyTimeout /\ SignedSince(At(r), answer[r].key, t)
  BY <1>1, Constants DEF KeysSound
<1>6. QED
  BY <1>1, <1>4, <1>5, Constants DEF SignedSince, SignedWithin, KeysAge

\* Whatever else answers, and whatever keys are cached, what a request shows was
\* asserted for this very request, and it is shown whole.
THEOREM WhatIsShownIsOurs == Spec => ShownIsOurs
<1> DEFINE Ours ==
      \A r \in Requests :
          /\ (pc[r] \in {"keys", "fetch"} /\ Concludes(r, "accepted")) =>
                /\ answer[r].of = r /\ answer[r].route = Len(results[r]) + 1
                /\ SignedWithin(At(r), answer[r].key, KeysAge)
          /\ (outcome[r] = "none" /\ outcome'[r] = "ok" /\ kind[r] = "evidence") =>
                results'[r] = [i \in Routes(r) |-> "accepted"]
<1>1. ASSUME TypeOK, Located, KeysSound, [Next]_vars, NEW r \in Requests, Ending(r)
      PROVE  /\ (pc[r] \in {"keys", "fetch"} /\ Concludes(r, "accepted")) => MadeFor(r)
             /\ (outcome'[r] = "ok" /\ kind[r] = "evidence") =>
                  results'[r] = [i \in Routes(r) |-> "accepted"]
             /\ \A s \in Requests \ {r} : outcome'[s] = outcome[s] /\ results'[s] = results[s]
  <2>1. PICK from \in {"evidence", "keys", "fetch"}, verdict \in Verdicts :
          /\ Conclude(r, from, verdict)
          /\ verdict = "shown" => kind[r] # "evidence"
          /\ verdict = "accepted" => Verified(r, from)
    BY <1>1 DEF Ending
  <2>t. /\ results \in [Requests -> Seq(Verdicts)] /\ results[r] \in Seq(Verdicts)
        /\ outcome \in [Requests -> Outcomes]
        /\ pc \in [Requests -> Locations]
    BY <1>1 DEF TypeOK
  <2>2. /\ pc[r] = from
        /\ \E p \in {"evidence", "done"} : pc' = [pc EXCEPT ![r] = p]
        /\ \E x \in Seq(Verdicts) : results' = [results EXCEPT ![r] = x]
        /\ \E o \in {"none", "ok"} \cup Failures : outcome' = [outcome EXCEPT ![r] = o]
        /\ pc'[r] = "evidence" => /\ results'[r] = Append(results[r], verdict)
                                  /\ Len(results'[r]) < Len(Plan[r])
                                  /\ outcome'[r] = "none"
        /\ pc'[r] = "done" =>
             \/ /\ results'[r] = Append(results[r], verdict)
                /\ outcome'[r] = "ok"
                /\ \A i \in DOMAIN results'[r] : results'[r][i] \notin Failures
                /\ kind[r] = "evidence" => Len(results'[r]) >= Len(Plan[r])
             \/ results'[r] = <<>> /\ outcome'[r] \in Failures
    BY <1>1, <2>1, Conclusion
  <2>3. pc'[r] \in {"evidence", "done"} /\ results'[r] \in Seq(Verdicts)
        /\ outcome[r] = "none"
    BY <1>1, <2>2, <2>t DEF Located
  <2>4. /\ Len(Append(results[r], verdict)) = Len(results[r]) + 1
        /\ Append(results[r], verdict)[Len(results[r]) + 1] = verdict
        /\ Len(results[r]) \in Nat /\ Len(<<>>) = 0
        /\ Append(results[r], verdict) \in Seq(Verdicts)
        /\ \A i \in 1 .. Len(results[r]) : Append(results[r], verdict)[i] = results[r][i]
        /\ DOMAIN Append(results[r], verdict) = 1 .. Len(results[r]) + 1
    BY <2>t
  <2>5. pc[r] \in {"keys", "fetch"} /\ Concludes(r, "accepted") => verdict = "accepted"
    <3>1. CASE results'[r] = Append(results[r], verdict)
      <4>1. outcome'[r] = "ok" => verdict \notin Failures
        <5>1. outcome'[r] = "ok" => \A i \in DOMAIN results'[r] : results'[r][i] \notin Failures
          BY <2>2, <2>3 DEF Failures
        <5>2. QED
          BY <2>4, <3>1, <5>1
      <4>2. pc[r] \in {"keys", "fetch"} => verdict # "shown"
        BY <1>1, <2>1 DEF Located
      <4>3. Concludes(r, "accepted") => outcome'[r] = "ok" \/ verdict = "accepted"
        BY <2>4, <3>1 DEF Concludes
      <4>4. QED
        BY <4>1, <4>2, <4>3 DEF Verdicts
    <3>2. CASE results'[r] = <<>> /\ outcome'[r] \in Failures
      BY <2>4, <3>2 DEF Concludes, Failures
    <3>3. QED
      BY <2>2, <2>3, <3>1, <3>2
  <2>6. ASSUME outcome'[r] = "ok", kind[r] = "evidence"
        PROVE  results'[r] = [i \in Routes(r) |-> "accepted"]
    <3>1. /\ results'[r] = Append(results[r], verdict)
          /\ \A i \in DOMAIN results'[r] : results'[r][i] \notin Failures
          /\ Len(results[r]) + 1 >= Len(Plan[r])
      BY <2>2, <2>3, <2>4, <2>6 DEF Failures
    <3>2. Len(results[r]) + 1 = Len(Plan[r]) /\ Len(Plan[r]) \in Nat
      BY <1>1, <2>2, <2>4, <3>1, Constants DEF Located
    <3>3. DOMAIN results'[r] = Routes(r)
      BY <2>4, <3>1, <3>2 DEF Routes
    <3>4. ASSUME NEW i \in Routes(r) PROVE results'[r][i] = "accepted"
      <4>1. results'[r][i] \in Verdicts /\ results'[r][i] \notin Failures
        BY <2>3, <3>1, <3>3, <3>4
      <4>2. results'[r][i] # "shown"
        BY <1>1, <2>1, <2>4, <2>6, <3>1, <3>2 DEF Located, Routes
      <4>3. QED
        BY <4>1, <4>2 DEF Verdicts
    <3>5. QED
      BY <2>3, <3>3, <3>4
  <2>7. QED
    BY <2>1, <2>2, <2>3, <2>5, <2>6, <2>t DEF Verified
<1>2. ASSUME TypeOK, Located, KeysSound, [Next]_vars PROVE [Ours]_vars
  <2> SUFFICES ASSUME NEW r \in Requests
               PROVE  /\ (pc[r] \in {"keys", "fetch"} /\ Concludes(r, "accepted")) =>
                            /\ answer[r].of = r /\ answer[r].route = Len(results[r]) + 1
                            /\ SignedWithin(At(r), answer[r].key, KeysAge)
                      /\ (outcome[r] = "none" /\ outcome'[r] = "ok"
                             /\ kind[r] = "evidence") =>
                            results'[r] = [i \in Routes(r) |-> "accepted"]
    OBVIOUS
  <2>t. /\ results \in [Requests -> Seq(Verdicts)] /\ Len(results[r]) \in Nat
        /\ outcome \in [Requests -> Outcomes]
        /\ pc \in [Requests -> Locations]
    BY <1>2 DEF TypeOK
  <2>1. pc[r] \in {"keys", "fetch"} => SignedWithin(At(r), answer[r].key, KeysAge)
    BY <1>2, AnswerRecent
  <2>2. CASE Ending(r)
    BY <1>1, <1>2, <2>1, <2>2 DEF MadeFor
  <2>3. ASSUME outcome'[r] = outcome[r], results'[r] = results[r]
        PROVE  ~Concludes(r, "accepted") /\ ~(outcome[r] = "none" /\ outcome'[r] = "ok")
    BY <2>3, <2>t DEF Concludes
  <2>4. CASE \E s \in Requests \ {r} : Ending(s)
    BY <1>1, <1>2, <2>3, <2>4
  <2>5. CASE \E s \in Requests : Breaking(s)
    <3>1. PICK s \in Requests : Breaking(s)
      BY <2>5
    <3>2. pc[s] \in {"mint", "evidence"} /\ results' = [results EXCEPT ![s] = <<>>]
          /\ \E how \in {"no_token", "dropped"} : outcome' = [outcome EXCEPT ![s] = how]
      BY <3>1 DEF Breaking, End, Goto
    <3>3. outcome'[r] = "ok" => outcome[r] = "ok"
      BY <3>2, <2>t
    <3>4. pc[r] \in {"keys", "fetch"} => results'[r] = results[r] /\ outcome'[r] = outcome[r]
      BY <3>2, <2>t
    <3>5. QED
      BY <2>3, <3>3, <3>4
  <2>6. CASE \/ \E s \in Requests :
                  \/ Start(s) \/ TakeToken(s) \/ AskMint(s) \/ MintAnswers(s)
                  \/ AuthorityAsserts(s) \/ FetchKeys(s) \/ MintIssues(s)
                  \/ PublishesKeys(s)
             \/ \E a \in Authorities : Rotate(a)
             \/ Tick
             \/ UNCHANGED vars
    <3>1. UNCHANGED <<outcome, results>>
      BY <2>6 DEF Start, TakeToken, AskMint, MintAnswers, Equipped, AuthorityAsserts,
         FetchKeys, MintIssues, PublishesKeys, Send, Rotate, Tick, vars, threads
    <3>2. QED
      BY <2>3, <3>1
  <2>7. QED
    BY <1>2, Steps, <2>2, <2>4, <2>5, <2>6
<1>3. QED
  BY <1>2, KeysSoundHolds, TypesKept, PTL DEF Spec, ShownIsOurs

=============================================================================
