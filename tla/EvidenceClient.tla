-------------------------- MODULE EvidenceClient --------------------------
(***************************************************************************)
(* The Evidence client (scenarios/common.py) as the scenario runner and    *)
(* the child-benefit federator use it: every request has a thread, which   *)
(* gets an access token from Mint, asks one authority after the other for  *)
(* a signed assertion, and verifies each with the authority's keys.  The   *)
(* threads of a process share the token, behind a lock that is held while  *)
(* Mint is asked, and the keys, which are fetched outside of their lock.   *)
(*                                                                         *)
(* Time is counted in ticks.  What a thread does between two waits takes   *)
(* none; an exchange ends within its time limit.  An assertion is the      *)
(* exchange it was made for and the key it is signed with.                 *)
(***************************************************************************)
EXTENDS Integers, Sequences, FiniteSets

CONSTANTS
    Requests,          \* requests to the process, a thread each
    Authorities,
    Plan,              \* the authorities each request needs, in the code's order
    Asks,              \* the kinds of steps each request may be for
    Nobody,            \* the holder of a free lock
    Lifetime,          \* expires_in of a token
    Margin,            \* how long a cached token must be good for: 10 s
    Timeout,           \* of an exchange with Mint or with an authority: 8 s
    KeyTimeout,        \* of a fetch of keys: 5 s
    CacheTime,         \* JWKS_CACHE_SECONDS
    MaxTime,           \* bound on the clock
    MaxRotations       \* bounds on the rotations of each authority's key

ASSUME PlanAssumption ==
    \A r \in Requests : /\ Plan[r] \in Seq(Authorities) /\ Plan[r] # <<>>
                         /\ Asks[r] \subseteq {"evidence", "discovery", "plain_discovery"}
ASSUME RequestsAssumption == IsFiniteSet(Requests)
ASSUME NobodyAssumption == Nobody \notin Requests
ASSUME TimeAssumption ==
    /\ {Lifetime, Margin, Timeout, KeyTimeout, CacheTime, MaxTime} \subseteq Nat
    /\ MaxRotations \in [Authorities -> Nat]
    /\ Timeout < Margin /\ Margin < Lifetime

VARIABLES
    now,
    program,           \* the process: "runner" or "federator"
    rotations,         \* when each authority has changed its key
    token,             \* _TOKEN_CACHE
    holder,            \* who holds _TOKEN_LOCK
    jwks,              \* _JWKS_CACHE
    pc,                \* where each request is
    kind,              \* what it asks for
    since,             \* when it began to wait for a token
    started,           \* when its current exchange began
    held,              \* when the token it uses expires at Mint
    reply,             \* the answer that is under way to it
    answer,            \* the assertion it is about to verify
    results,           \* what became of its exchanges with authorities
    outcome            \* what it has shown

caches == <<token, jwks>>

threads == <<pc, kind, since, started, held, reply, answer,
             results, outcome>>

vars == <<now, program, rotations, token, holder, jwks, threads>>

-----------------------------------------------------------------------------
(* Types *)

Times == 0 .. MaxTime

Keys == UNION {0 .. MaxRotations[a] : a \in Authorities}

\* The key an authority signs with, and publishes, is its newest.
Key(a) == Len(rotations[a])

\* A token, as cached: when it expires at Mint, and when its holder thinks so.
Token == [expires : 0 .. MaxTime + Lifetime, until : 0 .. MaxTime + Lifetime]

NoToken == [expires |-> 0, until |-> 0]

\* Keys, as cached: which, and until when they are used.
KeySet == [key : Keys, until : 0 .. MaxTime + CacheTime]

NoKeys == [key |-> 0, until |-> 0]

Routes(r) == 1 .. Len(Plan[r])

Nothing == [what |-> "nothing"]

Assertion == UNION {[what : {"assertion"}, of : {r}, route : Routes(r), key : Keys] :
                       r \in Requests}

Replies ==
    [what : {"nothing"}]
        \cup [what : {"token"}, expires : 0 .. MaxTime + Lifetime]
        \cup [what : {"keys"}, key : Keys]

Failures == {"invalid", "refused"}

Verdicts == {"accepted", "shown"} \cup Failures

\* A discovery of requirements is verified as if it were an assertion by the
\* citizen and the pension scenario, and shown as it is by the farmer's.
Kinds == {"evidence", "discovery", "plain_discovery"}

Locations == {"idle", "token", "mint", "evidence", "keys", "fetch", "done"}

\* What a request has shown; one that is dropped has got no response at all.
Outcomes == {"none", "no_token", "dropped", "ok"} \cup Verdicts

\* What the caches and the threads can hold.
TypeOK ==
    /\ now \in Times
    /\ program \in {"runner", "federator"}
    /\ rotations \in [Authorities -> Seq(Times)]
    /\ \A a \in Authorities : Key(a) \in Keys
    /\ token \in Token
    /\ jwks \in [Authorities -> KeySet]
    /\ holder \in Requests \cup {Nobody}
    /\ pc \in [Requests -> Locations]
    /\ kind \in [Requests -> Kinds]
    /\ since \in [Requests -> Times]
    /\ started \in [Requests -> Times]
    /\ held \in [Requests -> 0 .. MaxTime + Lifetime]
    /\ reply \in [Requests -> Replies]
    /\ answer \in [Requests -> Assertion \cup {Nothing}]
    /\ results \in [Requests -> Seq(Verdicts)]
    /\ outcome \in [Requests -> Outcomes]
    /\ \A r \in Requests : holder = r <=> pc[r] = "mint"

Init ==
    /\ now = 0
    /\ program \in {"runner", "federator"}
    /\ rotations = [a \in Authorities |-> <<>>]
    /\ token = NoToken
    /\ holder = Nobody
    /\ jwks = [a \in Authorities |-> NoKeys]
    /\ pc = [r \in Requests |-> "idle"]
    /\ kind = [r \in Requests |-> "evidence"]
    /\ since = [r \in Requests |-> 0]
    /\ started = [r \in Requests |-> 0]
    /\ held = [r \in Requests |-> 0]
    /\ reply = [r \in Requests |-> Nothing]
    /\ answer = [r \in Requests |-> Nothing]
    /\ results = [r \in Requests |-> <<>>]
    /\ outcome = [r \in Requests |-> "none"]

-----------------------------------------------------------------------------
(* A request starts, moves on and ends *)

Goto(r, from, to) ==
    /\ pc[r] = from
    /\ pc' = [pc EXCEPT ![r] = to]

Start(r) ==
    /\ Goto(r, "idle", "token")
    /\ \E k \in Asks[r] :
          /\ program = "federator" => k = "evidence"
          /\ kind' = [kind EXCEPT ![r] = k]
    /\ since' = [since EXCEPT ![r] = now]
    /\ UNCHANGED <<now, program, rotations, caches, holder, started, held, reply,
                   answer, results, outcome>>

\* The next exchange begins: with Mint, with an authority, or for its keys.
Begin(r, from, to) ==
    /\ Goto(r, from, to)
    /\ started' = [started EXCEPT ![r] = now]
    /\ reply' = [reply EXCEPT ![r] = Nothing]

\* The request's thread ends, with an answer or without.
End(r, from, how, shown) ==
    /\ Goto(r, from, "done")
    /\ outcome' = [outcome EXCEPT ![r] = how]
    /\ results' = [results EXCEPT ![r] = shown]
    /\ since' = [since EXCEPT ![r] = 0]
    /\ started' = [started EXCEPT ![r] = 0]
    /\ held' = [held EXCEPT ![r] = 0]
    /\ reply' = [reply EXCEPT ![r] = Nothing]
    /\ answer' = [answer EXCEPT ![r] = Nothing]

\* Nobody catches what is raised, up to the handler's thread: it ends, and the
\* connection is closed without a response.
Dropped(r, from) == End(r, from, "dropped", <<>>)

Failed(all) == {i \in DOMAIN all : all[i] \in Failures}

\* _aggregate: the first failure, or everything.
Aggregate(r, from, all) ==
    \/ /\ Failed(all) = {}
       /\ End(r, from, "ok", all)
    \/ \E i \in Failed(all) :
          /\ \A j \in Failed(all) : i <= j
          /\ End(r, from, all[i], <<>>)

\* The federator stops at a failure, the runner asks all authorities anyway.
Conclude(r, from, verdict) ==
    LET all  == Append(results[r], verdict)
        more == /\ kind[r] = "evidence"
                /\ Len(all) < Len(Plan[r])
                /\ program = "runner" \/ verdict \notin Failures
        onward == /\ Begin(r, from, "evidence")
                 /\ results' = [results EXCEPT ![r] = all]
                 /\ answer' = [answer EXCEPT ![r] = Nothing]
                 /\ UNCHANGED <<since, held, outcome>>
    IN  /\ IF more THEN onward ELSE Aggregate(r, from, all)
        /\ UNCHANGED <<now, program, rotations, token, holder, kind>>

-----------------------------------------------------------------------------
(* evidence_access_token *)

Free == holder = Nobody

\* Mutant: a token is good for as long as it lasts.
FreshToExpiry == token.until > now

Fresh == token.until > now + Margin

\* The thread goes on to its first authority with a token.
Equipped(r, from, expires) ==
    /\ Begin(r, from, "evidence")
    /\ held' = [held EXCEPT ![r] = expires]
    /\ since' = [since EXCEPT ![r] = 0]
    /\ UNCHANGED <<now, program, rotations, jwks, kind, answer, results, outcome>>

TakeToken(r) ==
    /\ Free /\ Fresh
    /\ Equipped(r, "token", token.expires)
    /\ UNCHANGED <<token, holder>>

AskMint(r) ==
    /\ Free /\ ~Fresh
    /\ Begin(r, "token", "mint")
    /\ holder' = r
    /\ UNCHANGED <<now, program, rotations, caches, kind, since, held, answer,
                   results, outcome>>

MintAnswers(r) ==
    /\ pc[r] = "mint"
    /\ reply[r].what = "token"
    /\ token' = [expires |-> reply[r].expires, until |-> now + Lifetime]
    /\ holder' = Nobody
    /\ Equipped(r, "mint", reply[r].expires)

\* Mutant: Mint is asked again, under the same lock.
MintFailsRetried(r) ==
    /\ Begin(r, "mint", "mint")
    /\ UNCHANGED <<now, program, rotations, caches, holder, kind, since, held,
                   answer, results, outcome>>

\* No connection, no answer in time, no token in it, or no key to ask with.
MintFails(r) ==
    /\ holder' = Nobody
    /\ End(r, "mint", "no_token", <<>>)
    /\ UNCHANGED <<now, program, rotations, caches, kind>>

\* Mutant: the lock is not released when an exception leaves its block.
MintGarblesLocked(r) ==
    /\ Dropped(r, "mint")
    /\ UNCHANGED <<now, program, rotations, caches, kind, holder>>

\* Mint's answer is JSON, but no object, or its expires_in is no number: it is
\* taken apart outside of the try, and the lock released on the way out.
MintGarbles(r) ==
    /\ holder' = Nobody
    /\ Dropped(r, "mint")
    /\ UNCHANGED <<now, program, rotations, caches, kind>>

-----------------------------------------------------------------------------
(* http_json and normalized_evidence_result *)

\* The authority the request is at.
At(r) == Plan[r][Len(results[r]) + 1]

\* The authority asserts what it is asked for, unless the token has expired by
\* then; something before it may answer with what it asserted to another request.
AuthorityAsserts(r) ==
    /\ kind[r] = "evidence"
    /\ held[r] > now
    /\ Goto(r, "evidence", "keys")
    /\ \E s \in Requests : \E i \in Routes(s) :
          /\ Plan[s][i] = At(r)
          /\ \/ s = r /\ i = Len(results[r]) + 1
             \/ s # r /\ kind[s] = "evidence" /\ pc[s] # "idle"
          /\ answer' = [answer EXCEPT ![r] =
                [what |-> "assertion", of |-> s, route |-> i, key |-> Key(At(r))]]
    /\ UNCHANGED <<now, program, rotations, caches, holder, kind, since, started,
                   held, reply, results, outcome>>

AuthorityDiscovers(r) ==
    /\ kind[r] # "evidence"
    /\ held[r] > now
    /\ Conclude(r, "evidence", IF kind[r] = "discovery" THEN "invalid" ELSE "shown")
    /\ UNCHANGED jwks

\* No connection, no answer in time, or the authority refuses, and its refusal
\* can be read: it may always.
AuthorityRefuses(r) ==
    /\ Conclude(r, "evidence", "refused")
    /\ UNCHANGED jwks

\* A refusal's body is read in the handler of the HTTPError, where what the read
\* raises is not caught; nor is it when a discovery that is shown as it is has a
\* shape that cannot be shown.  No further authority is asked.
AuthorityGarbles(r) ==
    /\ Dropped(r, "evidence")
    /\ UNCHANGED <<now, program, rotations, caches, holder, kind>>

\* What is asserted was asked for here: requirement, purpose, subject and nonce.
MadeFor(r) == answer[r].of = r /\ answer[r].route = Len(results[r]) + 1

SignedWith(r, key) == answer[r].key = key

\* Mutant: what is signed with the authority's key is taken for the answer.
VerifyKeyOnly(r, from, key) ==
    Conclude(r, from, IF SignedWith(r, key) THEN "accepted" ELSE "invalid")

\* The key is looked up by its kid, and the payload compared with the request.
Verify(r, from, key) ==
    Conclude(r, from, IF SignedWith(r, key) /\ MadeFor(r) THEN "accepted" ELSE "invalid")

-----------------------------------------------------------------------------
(* _authority_jwks *)

\* Mutant: keys that were fetched once are kept.
KeysKept(a) == jwks[a].until > 0

KeysCached(a) == jwks[a].until > now

UseCachedKeys(r) ==
    /\ pc[r] = "keys"
    /\ KeysCached(At(r))
    /\ Verify(r, "keys", jwks[At(r)].key)
    /\ UNCHANGED jwks

FetchKeys(r) ==
    /\ pc[r] = "keys"
    /\ ~KeysCached(At(r))
    /\ Begin(r, "keys", "fetch")
    /\ UNCHANGED <<now, program, rotations, caches, holder, kind, since, held, answer,
                   results, outcome>>

\* The keys are stored and used; of two fetches the older keys may be stored last.
KeysAnswer(r) ==
    /\ pc[r] = "fetch"
    /\ reply[r].what = "keys"
    /\ jwks' = [jwks EXCEPT ![At(r)] =
          [key |-> reply[r].key, until |-> now + CacheTime]]
    /\ Verify(r, "fetch", reply[r].key)

KeysFail(r) ==
    /\ Conclude(r, "fetch", "invalid")
    /\ UNCHANGED jwks

-----------------------------------------------------------------------------
(* Mint, the authorities, and time *)

Send(r, at, what) ==
    /\ pc[r] = at
    /\ reply[r] = Nothing
    /\ reply' = [reply EXCEPT ![r] = what]
    /\ UNCHANGED <<now, program, rotations, caches, holder, pc, kind, since, started,
                   held, answer, results, outcome>>

MintIssues(r) == Send(r, "mint", [what |-> "token", expires |-> now + Lifetime])

PublishesKeys(r) == Send(r, "fetch", [what |-> "keys", key |-> Key(At(r))])

Rotate(a) ==
    /\ Key(a) < MaxRotations[a]
    /\ rotations' = [rotations EXCEPT ![a] = Append(@, now)]
    /\ UNCHANGED <<now, program, caches, holder, threads>>

Limit(r) == IF pc[r] = "fetch" THEN KeyTimeout ELSE Timeout

\* No thread waits for anything but an answer, and none that it has not got in time.
Tick ==
    /\ now < MaxTime
    /\ \A r \in Requests :
          /\ pc[r] \in {"mint", "evidence", "fetch"} => now < started[r] + Limit(r)
          /\ pc[r] # "keys"
          /\ pc[r] = "token" => ~Free
    /\ now' = now + 1
    /\ UNCHANGED <<program, rotations, caches, holder, threads>>

-----------------------------------------------------------------------------
Work(r) ==
    \/ TakeToken(r) \/ AskMint(r)
    \/ MintAnswers(r) \/ MintFails(r) \/ MintGarbles(r)
    \/ AuthorityAsserts(r) \/ AuthorityDiscovers(r)
    \/ AuthorityRefuses(r) \/ AuthorityGarbles(r)
    \/ UseCachedKeys(r) \/ FetchKeys(r) \/ KeysAnswer(r) \/ KeysFail(r)

World(r) == MintIssues(r) \/ PublishesKeys(r)

Next ==
    \/ \E r \in Requests : Start(r) \/ Work(r) \/ World(r)
    \/ \E a \in Authorities : Rotate(a)
    \/ Tick

\* A thread that can go on does; every exchange has a time limit.
Spec == Init /\ [][Next]_vars /\ \A r \in Requests : WF_vars(Work(r))

-----------------------------------------------------------------------------
(* Properties *)

\* A request begins with a token that is good for longer than what an exchange
\* with Mint can take off the margin, whether the token was cached or is new.
TokenAlive ==
    [][\A r \in Requests : pc[r] \in {"token", "mint"} /\ pc'[r] = "evidence" =>
          held'[r] > now + Margin - Timeout]_vars

\* While Mint does not answer, the requests that wait for the lock ask it one
\* after the other: none waits for longer than one time limit for each of them.
TokenWaitBounded ==
    \A r \in Requests : pc[r] \in {"token", "mint"} =>
        now - since[r] <= Timeout * Cardinality(Requests)

\* How long an authority may have withdrawn a key that is still believed.
KeysAge == CacheTime + KeyTimeout

\* Whether an authority still signs with a key, or did so until `age` ago.
SignedWithin(a, key, age) ==
    Key(a) > key => now <= rotations[a][key + 1] + age

\* Keys that are in use, and so what is refused for its kid, are never further
\* behind the authority than that, whichever of two fetches was stored last.
KeysRecent ==
    \A a \in Authorities : KeysCached(a) => SignedWithin(a, jwks[a].key, KeysAge)

\* A step concludes an exchange of r with this verdict.
Concludes(r, verdict) ==
    \/ /\ outcome[r] = "none"
       /\ outcome'[r] = IF verdict = "accepted" THEN "ok" ELSE verdict
       /\ \A i \in 1 .. Len(results[r]) : results[r][i] \notin Failures
    \/ Len(results'[r]) > Len(results[r]) /\ results'[r][Len(results'[r])] = verdict

\* What a request shows is whole and its own: one assertion by each authority,
\* made for this very request, and signed with a key that is as recent.
ShownIsOurs ==
    [][\A r \in Requests :
          /\ (pc[r] \in {"keys", "fetch"} /\ Concludes(r, "accepted")) =>
                /\ answer[r].of = r /\ answer[r].route = Len(results[r]) + 1
                /\ SignedWithin(At(r), answer[r].key, KeysAge)
          /\ (outcome[r] = "none" /\ outcome'[r] = "ok" /\ kind[r] = "evidence") =>
                results'[r] = [i \in Routes(r) |-> "accepted"]]_vars

\* The thread of every request comes to an end, also when Mint or an authority
\* is not there, and also after another request's thread was ended by an exception
\* while it held the token's lock.  It ends with a response unless it is dropped.
RequestsEnd == \A r \in Requests : pc[r] = "token" ~> pc[r] = "done"
=============================================================================
