---------------------------- MODULE ProofStream ----------------------------
(***************************************************************************)
(* The portal's proof feed, from an evaluation to the mirror of the page.  *)
(* The server keeps sessions, and a feed of traces for each of the         *)
(* sessions that were lately used; a stream sends what is new in its       *)
(* session's feed; the page shows what its stream has sent.  The tabs are  *)
(* those of one browser: they share the session cookie, and each of them   *)
(* has a page, a stream and a mirror of its own.                           *)
(*                                                                         *)
(* Sessions are numbered as they are created.  Evaluations are numbered    *)
(* too, which the program does not do: it has the sequence of the provider *)
(* only, which begins anew with the server.                                *)
(***************************************************************************)
EXTENDS Naturals, FiniteSets, SequencesExt

CONSTANTS
    Tabs,
    Limit,             \* how many feeds are kept
    MaxSessions,
    MaxTraces,
    MaxRestarts

ASSUME LimitAssumption == Limit \in Nat \ {0}
ASSUME BoundsAssumption == MaxSessions \in Nat /\ MaxTraces \in Nat /\ MaxRestarts \in Nat

VARIABLES
    created,           \* how many sessions there have been
    live,              \* the sessions that are neither expired nor lost
    cookie,            \* the browser's session, or 0
    pending,           \* the sessions with an evaluation that is awaited
    seq,               \* the provider's sequence
    done,              \* how many evaluations there have been
    recent,            \* the sessions with a feed, the least recently used first
    feeds,             \* the traces of each session, if it has a feed
    conn,              \* each tab's event source
    sid,               \* the session of its stream, while it is open
    lastSent,          \* how much of the feed that stream has sent
    mirror,            \* the traces its page shows
    seen,              \* the sessions its page has had a stream of
    evicted,           \* the sessions a feed of which was dropped for the limit
    restarts           \* how often the server was restarted

server == <<created, live, cookie>>
provider == <<pending, seq, done>>
store == <<recent, feeds, evicted>>
pages == <<conn, sid, lastSent, mirror, seen>>

vars == <<server, provider, store, pages, restarts>>

-----------------------------------------------------------------------------
(* Types *)

Sessions == 1 .. MaxSessions

Trace == [id : 1 .. MaxTraces, eval : 1 .. MaxTraces, of : Sessions]

TypeOK ==
    /\ created \in 0 .. MaxSessions /\ live \subseteq 1 .. created
    /\ cookie \in 0 .. created
    /\ pending \subseteq 1 .. created
    /\ done \in 0 .. MaxTraces /\ seq \in 0 .. done
    /\ recent \in Seq(Sessions) /\ Len(recent) <= Limit /\ IsInjective(recent)
    /\ feeds \in [Sessions -> Seq(Trace)]
    /\ \A s \in Sessions : s \notin ToSet(recent) => feeds[s] = <<>>
    /\ conn \in [Tabs -> {"none", "connecting", "open"}]
    /\ sid \in [Tabs -> 0 .. created]
    /\ lastSent \in [Tabs -> 0 .. MaxTraces]
    /\ mirror \in [Tabs -> Seq(Trace)]
    /\ seen \in [Tabs -> SUBSET Sessions]
    /\ evicted \subseteq Sessions
    /\ restarts \in 0 .. MaxRestarts
    /\ \A t \in Tabs : sid[t] # 0 <=> conn[t] = "open"
    /\ \A t \in Tabs : conn[t] # "open" => lastSent[t] = 0

Init ==
    /\ created = 0 /\ live = {} /\ cookie = 0
    /\ pending = {} /\ seq = 0 /\ done = 0
    /\ recent = <<>> /\ feeds = [s \in Sessions |-> <<>>] /\ evicted = {}
    /\ conn = [t \in Tabs |-> "none"]
    /\ sid = [t \in Tabs |-> 0]
    /\ lastSent = [t \in Tabs |-> 0]
    /\ mirror = [t \in Tabs |-> <<>>]
    /\ seen = [t \in Tabs |-> {}]
    /\ restarts = 0

-----------------------------------------------------------------------------
(* The feeds of the sessions *)

Streamed(s) == \E t \in Tabs : sid[t] = s

\* A feed is abandoned when nobody has used it for half an hour, and so are those
\* that were used before it: how many there may be.  An open stream uses its feed
\* four times a second.
Abandoned == {n \in 0 .. Len(recent) : \A i \in 1 .. n : ~Streamed(recent[i])}

\* The least recently used feed makes room.
Within(r) == IF Len(r) > Limit THEN Tail(r) ELSE r

Without(r, s) ==
    IF s \in ToSet(r) THEN RemoveAt(r, CHOOSE i \in DOMAIN r : r[i] = s) ELSE r

\* The feed of s is used, and grows by `traces`; others may have been abandoned by
\* then, as may have been s's own.
ForSession(s, traces) ==
    \E n \in Abandoned :
        LET gone == ToSet(SubSeq(recent, 1, n))
            kept == SubSeq(recent, n + 1, Len(recent))
        IN  /\ recent' = Within(Append(Without(kept, s), s))
            /\ evicted' = evicted \cup (ToSet(kept) \ ToSet(recent'))
            /\ feeds' = [r \in Sessions |->
                  IF r \notin ToSet(recent') THEN <<>>
                  ELSE IF r = s THEN (IF s \in gone THEN <<>> ELSE feeds[s]) \o traces
                  ELSE feeds[r]]

-----------------------------------------------------------------------------
(* The page *)

\* Mutant: a trace is added whether the page shows it already or not.
AppliedAgain(shown, trace) == Append(shown, trace)

\* A trace replaces the one of its id, or else is added.
Applied(shown, trace) ==
    IF \E i \in DOMAIN shown : shown[i].id = trace.id
    THEN [i \in DOMAIN shown |-> IF shown[i].id = trace.id THEN trace ELSE shown[i]]
    ELSE Append(shown, trace)

\* The traces are applied as they come in.
AllApplied(shown, traces) ==
    LET after[n \in 0 .. Len(traces)] ==
            IF n = 0 THEN shown ELSE Applied(after[n - 1], traces[n])
    IN  after[Len(traces)]

\* The page is loaded: it has nothing of an earlier one.
Fresh(t, c) ==
    /\ conn' = [conn EXCEPT ![t] = c]
    /\ sid' = [sid EXCEPT ![t] = 0]
    /\ lastSent' = [lastSent EXCEPT ![t] = 0]
    /\ mirror' = [mirror EXCEPT ![t] = <<>>]
    /\ seen' = [seen EXCEPT ![t] = {}]

Load(t) ==
    /\ Fresh(t, IF cookie \in live THEN "connecting" ELSE "none")
    /\ UNCHANGED <<server, provider, store, restarts>>

\* A tab signs in, which takes its page to the services.
SignIn(t) ==
    /\ created < MaxSessions
    /\ created' = created + 1
    /\ live' = live \cup {created'}
    /\ cookie' = created'
    /\ Fresh(t, "connecting")
    /\ UNCHANGED <<provider, store, restarts>>

-----------------------------------------------------------------------------
(* The stream *)

\* Mutant: the first trace after those that were sent is taken for sent.
UnsentOffByOne(t, feed) == SubSeq(feed, lastSent[t] + 2, Len(feed))

\* What the stream of t has not sent; nothing, when the feed is shorter than that.
Unsent(t, feed) == SubSeq(feed, lastSent[t] + 1, Len(feed))

\* The timer of an open stream.
Flush(t) ==
    /\ conn[t] = "open"
    /\ UNCHANGED <<server, provider, conn, sid, seen, restarts>>
    /\ ForSession(sid[t], <<>>)
    /\ LET feed == feeds'[sid[t]]
       IN  /\ mirror' = [mirror EXCEPT ![t] = AllApplied(@, Unsent(t, feed))]
           /\ lastSent' = [lastSent EXCEPT ![t] = Len(feed)]

\* Mutant: a stream begins with what is new.
OpensAtEnd(t) ==
    /\ cookie \in live
    /\ ForSession(cookie, <<>>)
    /\ conn' = [conn EXCEPT ![t] = "open"]
    /\ sid' = [sid EXCEPT ![t] = cookie]
    /\ seen' = [seen EXCEPT ![t] = @ \cup {cookie}]
    /\ lastSent' = [lastSent EXCEPT ![t] = Len(feeds'[cookie])]
    /\ UNCHANGED mirror

\* The stream of the session that the browser is signed in to, all of it.
Opens(t) ==
    /\ cookie \in live
    /\ ForSession(cookie, <<>>)
    /\ conn' = [conn EXCEPT ![t] = "open"]
    /\ sid' = [sid EXCEPT ![t] = cookie]
    /\ seen' = [seen EXCEPT ![t] = @ \cup {cookie}]
    /\ mirror' = [mirror EXCEPT ![t] = AllApplied(@, feeds'[cookie])]
    /\ lastSent' = [lastSent EXCEPT ![t] = Len(feeds'[cookie])]

\* Without a session the request is refused, and the event source gives up.
Connect(t) ==
    /\ conn[t] = "connecting"
    /\ \/ Opens(t)
       \/ /\ cookie \notin live
          /\ conn' = [conn EXCEPT ![t] = "none"]
          /\ UNCHANGED <<store, sid, lastSent, mirror, seen>>
    /\ UNCHANGED <<server, provider, restarts>>

\* The connection is lost; the event source connects again by itself.
Break(t) ==
    /\ conn[t] = "open"
    /\ conn' = [conn EXCEPT ![t] = "connecting"]
    /\ sid' = [sid EXCEPT ![t] = 0]
    /\ lastSent' = [lastSent EXCEPT ![t] = 0]
    /\ UNCHANGED <<server, provider, store, mirror, seen, restarts>>

-----------------------------------------------------------------------------
(* Evaluations *)

\* The session is read, and the evaluation awaited.
Evaluate ==
    /\ cookie \in live
    /\ pending' = pending \cup {cookie}
    /\ UNCHANGED <<server, seq, done, store, pages, restarts>>

\* Mutant: traces are numbered within their session.
AnswerNumberedApart(s) ==
    /\ s \in pending
    /\ done < MaxTraces
    /\ pending' = pending \ {s}
    /\ seq' = seq + 1
    /\ done' = done + 1
    /\ ForSession(s, <<[id |-> Len(feeds[s]) + 1, eval |-> done', of |-> s]>>)
    /\ UNCHANGED <<server, pages, restarts>>

\* The answer's trace goes to the session that was read, which may have ended.
Answer(s) ==
    /\ s \in pending
    /\ done < MaxTraces
    /\ pending' = pending \ {s}
    /\ seq' = seq + 1
    /\ done' = done + 1
    /\ ForSession(s, <<[id |-> seq', eval |-> done', of |-> s]>>)
    /\ UNCHANGED <<server, pages, restarts>>

Fail(s) ==
    /\ s \in pending
    /\ pending' = pending \ {s}
    /\ UNCHANGED <<server, seq, done, store, pages, restarts>>

-----------------------------------------------------------------------------
\* An hour has passed since s signed in; its stream is not told.
Expire(s) ==
    /\ s \in live
    /\ live' = live \ {s}
    /\ UNCHANGED <<created, cookie, provider, store, pages, restarts>>

\* The server is restarted: all that it has is in memory.
Restart ==
    /\ restarts < MaxRestarts
    /\ restarts' = restarts + 1
    /\ live' = {} /\ pending' = {} /\ seq' = 0
    /\ recent' = <<>> /\ feeds' = [s \in Sessions |-> <<>>]
    /\ conn' = [t \in Tabs |-> IF conn[t] = "open" THEN "connecting" ELSE conn[t]]
    /\ sid' = [t \in Tabs |-> 0]
    /\ lastSent' = [t \in Tabs |-> 0]
    /\ UNCHANGED <<created, cookie, done, evicted, mirror, seen>>

Next ==
    \/ \E t \in Tabs : Load(t) \/ SignIn(t) \/ Connect(t) \/ Flush(t) \/ Break(t)
    \/ \E s \in Sessions : Answer(s) \/ Fail(s) \/ Expire(s)
    \/ Evaluate \/ Restart

\* The timers of the streams go off.
Spec == Init /\ [][Next]_vars /\ \A t \in Tabs : WF_vars(Flush(t))

-----------------------------------------------------------------------------
(* Properties *)

Kept(t) == conn[t] = "open" /\ sid[t] \notin evicted

\* A page that has had one session's stream only, however often that was broken,
\* its feed abandoned or dropped, and whatever the other tabs have signed in to,
\* shows traces of that session, each once; and in the order they were made, unless
\* the feed was dropped for the limit, after which a stream may pass over traces
\* that the next one sends late.
SteadyMirror ==
    \A t \in Tabs : Cardinality(seen[t]) <= 1 =>
        /\ \A i \in DOMAIN mirror[t] : mirror[t][i].of \in seen[t]
        /\ \A i, j \in DOMAIN mirror[t] : i < j =>
              /\ mirror[t][i].eval # mirror[t][j].eval
              /\ seen[t] \cap evicted = {} => mirror[t][i].eval < mirror[t][j].eval

\* A stream whose feed was never dropped for the limit has passed over nothing: all
\* that it takes for sent is on the page.
NothingSkipped ==
    \A t \in Tabs : Kept(t) =>
        /\ lastSent[t] <= Len(feeds[sid[t]])
        /\ \A i \in 1 .. lastSent[t] : feeds[sid[t]][i] \in ToSet(mirror[t])

\* Until the server is restarted a page only grows: no trace on it gives way to
\* another one, whichever sessions' streams the page has.
MirrorOnlyGrows ==
    [][\A t \in Tabs :
          \/ restarts' > 0
          \/ mirror'[t] = <<>>
          \/ IsPrefix(mirror[t], mirror'[t])]_vars

\* A stream catches up with its feed, again and again: the page comes to show every
\* trace of it, unless the stream ends or the feed is dropped for the limit.
CatchesUp ==
    \A t \in Tabs :
        Kept(t) ~> (~Kept(t) \/ ToSet(feeds[sid[t]]) \subseteq ToSet(mirror[t]))
=============================================================================
