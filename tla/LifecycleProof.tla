-------------------------- MODULE LifecycleProof --------------------------
(***************************************************************************)
(* The live lifecycle proof (scripts/live-lifecycle-proof.py) against a    *)
(* running local stack.  A run changes the MoSD row through the source     *)
(* publisher, publishes a changed SRO extract, binds and restarts the SRO  *)
(* gateway onto it, shows that bad extracts are refused, and puts          *)
(* everything back.  Any operation may fail, before or after it took       *)
(* effect, and the run may be killed at any step; another run can follow.  *)
(*                                                                         *)
(* The publisher's containers are those of SourcePublisher, one at a time: *)
(* `docker compose run` returns when its container has ended.              *)
(***************************************************************************)
EXTENDS SourcePublisher

CONSTANT MaxRuns       \* bound on the number of runs

ASSUME MaxRunsAssumption == MaxRuns \in Nat

VARIABLES
    extracts,          \* the SRO extracts that were published
    binding,           \* the extract the SRO runtime.yaml names
    serving,           \* the extract the SRO gateway has open
    run,               \* number of the current run
    pc,                \* where it is
    captured,          \* original_binding
    active,            \* active_runtime of prove_replacement_refusals
    candidates,        \* invalid_paths, the bad extracts it has to remove
    round,             \* what its loop is at
    published,         \* the changed extract, once published
    fixture,           \* whether the MoSD fixture was captured
    rebound,           \* sro_may_need_restore
    failed,            \* primary_error
    cleanupFailed,     \* cleanup_errors
    outcome            \* how the last run ended

sroVars == <<extracts, binding, serving>>

notes == <<captured, active, candidates, round, published, fixture, rebound,
           cleanupFailed>>

vars == <<publisherVars, sroVars, notes, run, pc, failed, outcome>>

-----------------------------------------------------------------------------
Kinds == {"good", "changed", "stale", "invalid"}

Extract == [run : 0 .. MaxRuns, kind : Kinds]

NoExtract == [run |-> 0, kind |-> "none"]

Deployed == [run |-> 0, kind |-> "good"]

Of(kind) == [run |-> run, kind |-> kind]

\* validate_extract, and what a gateway accepts as its source.
Acceptable(e) == e \in extracts /\ e.kind \in {"good", "changed"}

Refusals == {"publish_bad", "bind_bad", "restart_bad", "refused", "rebind_active",
             "restart_active"}

Waiting == {"begin_wait", "undo_wait", "set_wait", "restore_wait"}

Locations ==
    {"idle", "preconditions", "begin", "undo", "capture", "observe_before", "set",
     "observe_mosd", "publish", "observe_unbound", "bind", "observe_bound",
     "restart", "observe_active", "enter_refusals", "put_back", "restart_back",
     "drop_bad", "restore", "restore_sro", "restart_sro", "discard", "final"}
        \cup Refusals \cup Waiting

\* runtime.yaml, in particular, always names some extract, captured or published.
TypeOK ==
    /\ PublisherTypeOK
    /\ extracts \subseteq Extract
    /\ {binding, serving} \subseteq Extract
    /\ run \in 0 .. MaxRuns
    /\ pc \in Locations
    /\ {captured, active, published} \subseteq Extract \cup {NoExtract}
    /\ candidates \subseteq Extract
    /\ round \in {"stale", "invalid"}
    /\ {fixture, rebound, failed, cleanupFailed} \subseteq BOOLEAN
    /\ outcome \in {"none", "pass", "fail", "killed"}

Init ==
    /\ PublisherInit
    /\ extracts = {Deployed}
    /\ binding = Deployed
    /\ serving = Deployed
    /\ run = 0
    /\ pc = "idle"
    /\ captured = NoExtract
    /\ active = NoExtract
    /\ candidates = {}
    /\ round = "stale"
    /\ published = NoExtract
    /\ fixture = FALSE
    /\ rebound = FALSE
    /\ failed = FALSE
    /\ cleanupFailed = FALSE
    /\ outcome = "none"

-----------------------------------------------------------------------------
(* How a run moves on *)

Quiet == \A c \in Containers : step[c] = "idle"

\* Where an exception takes the run: to the inner finally, or to the outer one.
Handler(from) == IF from \in Refusals THEN "put_back" ELSE "restore"

Proceed(from, to) ==
    /\ pc = from
    /\ pc' = to
    /\ UNCHANGED <<run, failed, outcome>>

Raise(from) ==
    /\ pc = from
    /\ pc' = Handler(from)
    /\ failed' = TRUE
    /\ UNCHANGED <<run, outcome>>

\* An operation of the body that has `effect`, or leaves `frame` as it is: it
\* succeeds, or it fails without the effect or after it.
Try(from, to, effect, frame) ==
    \/ effect /\ Proceed(from, to)
    \/ (effect \/ frame) /\ Raise(from)

\* An operation that only looks: it fails when it does not find `condition`,
\* and may fail anyhow.
Check(from, to, condition) ==
    /\ (condition /\ Proceed(from, to)) \/ Raise(from)
    /\ UNCHANGED <<publisherVars, sroVars, notes>>

Call(from, verb, wait) ==
    /\ \E c \in Containers : Launch(c, verb)
    /\ Proceed(from, wait)
    /\ UNCHANGED <<sroVars, notes>>

\* Whether the last container may have been reported to end well, or badly.
WentWell == Quiet /\ \E c \in Containers : result[c] = "ok"

-----------------------------------------------------------------------------
(* The body *)

\* The stack is brought up, or up again.
Up ==
    /\ pc = "idle"
    /\ \E c \in Containers : Launch(c, "ensure-seeded")
    /\ UNCHANGED <<sroVars, notes, run, pc, failed, outcome>>

Start ==
    /\ pc = "idle"
    /\ Quiet
    /\ run < MaxRuns
    /\ run' = run + 1
    /\ pc' = "preconditions"
    /\ captured' = NoExtract
    /\ active' = NoExtract
    /\ candidates' = {}
    /\ round' = "stale"
    /\ published' = NoExtract
    /\ fixture' = FALSE
    /\ rebound' = FALSE
    /\ failed' = FALSE
    /\ cleanupFailed' = FALSE
    /\ outcome' = "none"
    /\ UNCHANGED <<publisherVars, sroVars>>

\* The bound extract is valid, and the Relay of the source is running.
Preconditions ==
    Check("preconditions", "begin", Acceptable(binding) /\ database # "absent")

Begin == Call("begin", "begin-proof", "begin_wait")

BeginReturns ==
    /\ Quiet
    /\ \/ /\ WentWell
          /\ fixture' = TRUE
          /\ Proceed("begin_wait", "capture")
       \/ /\ UNCHANGED fixture
          /\ Proceed("begin_wait", "undo")
    /\ UNCHANGED <<publisherVars, sroVars, captured, active, candidates, round,
                   published, rebound, cleanupFailed>>

\* capture_mosd_fixture restores once before it gives up.
Undo == Call("undo", "restore-proof", "undo_wait")

UndoReturns ==
    /\ Quiet
    /\ Raise("undo_wait")
    /\ UNCHANGED <<publisherVars, sroVars, notes>>

Capture ==
    /\ \/ captured' = binding /\ Proceed("capture", "observe_before")
       \/ UNCHANGED captured /\ Raise("capture")
    /\ UNCHANGED <<publisherVars, sroVars, active, candidates, round, published,
                   fixture, rebound, cleanupFailed>>

ObserveBefore ==
    Check("observe_before", "set", database = "original" /\ serving.kind = "good")

Set == Call("set", "set-proof-state", "set_wait")

SetReturns ==
    /\ Quiet
    /\ \/ WentWell /\ Proceed("set_wait", "observe_mosd")
       \/ Raise("set_wait")
    /\ UNCHANGED <<publisherVars, sroVars, notes>>

\* Relay reads the live row, without a restart.
ObserveMosd == Check("observe_mosd", "publish", database = "changed")

\* The extract is staged, changed, linked under a name nobody has used, and
\* validated in place; `published` is only known when all that succeeded.
Publish ==
    /\ \/ /\ extracts' = extracts \cup {Of("changed")}
          /\ published' = Of("changed")
          /\ Proceed("publish", "observe_unbound")
       \/ /\ extracts' \in {extracts, extracts \cup {Of("changed")}}
          /\ UNCHANGED published
          /\ Raise("publish")
    /\ UNCHANGED <<publisherVars, binding, serving, captured, active, candidates,
                   round, fixture, rebound, cleanupFailed>>

\* The gateway goes on serving the extract it has open, here and once the runtime
\* names the changed one.
ObserveUnbound == Check("observe_unbound", "bind", serving.kind = "good")

\* runtime.yaml is replaced in one step; that it may need a restore is noted
\* before.
Bind ==
    /\ rebound' = TRUE
    /\ Try("bind", "observe_bound", binding' = published, UNCHANGED binding)
    /\ UNCHANGED <<publisherVars, extracts, serving, captured, active, candidates,
                   round, published, fixture, cleanupFailed>>

ObserveBound == Check("observe_bound", "restart", serving.kind = "good")

\* A restarted gateway has what runtime.yaml names then; readiness is awaited.
Restarted(from, to) ==
    /\ Try(from, to, serving' = binding, UNCHANGED serving)
    /\ UNCHANGED <<publisherVars, extracts, binding, notes>>

Restart == Restarted("restart", "observe_active")

ObserveActive == Check("observe_active", "enter_refusals", serving.kind = "changed")

-----------------------------------------------------------------------------
(* prove_replacement_refusals *)

EnterRefusals ==
    /\ active' = binding
    /\ Proceed("enter_refusals", "publish_bad") \/ Raise("enter_refusals")
    /\ UNCHANGED <<publisherVars, sroVars, captured, candidates, round, published,
                   fixture, rebound, cleanupFailed>>

PublishBad ==
    /\ \/ /\ extracts' = extracts \cup {Of(round)}
          /\ candidates' = candidates \cup {Of(round)}
          /\ Proceed("publish_bad", "bind_bad")
       \/ /\ UNCHANGED <<extracts, candidates>>
          /\ Raise("publish_bad")
    /\ UNCHANGED <<publisherVars, binding, serving, captured, active, round,
                   published, fixture, rebound, cleanupFailed>>

BindBad ==
    /\ Try("bind_bad", "restart_bad", binding' = Of(round), UNCHANGED binding)
    /\ UNCHANGED <<publisherVars, extracts, serving, notes>>

RestartBad == Restarted("restart_bad", "refused")

Refused == Check("refused", "rebind_active", serving.kind \in {"stale", "invalid"})

RebindActive ==
    /\ Try("rebind_active", "restart_active", binding' = active, UNCHANGED binding)
    /\ UNCHANGED <<publisherVars, extracts, serving, notes>>

\* From the stale extract to the invalid one, and out of the loop.
RestartActive ==
    /\ Try("restart_active", IF round = "stale" THEN "publish_bad" ELSE "put_back",
           serving' = binding, UNCHANGED serving)
    /\ round' = "invalid"
    /\ UNCHANGED <<publisherVars, extracts, binding, captured, active, candidates,
                   published, fixture, rebound, cleanupFailed>>

\* The inner finally: the binding, a restart that may fail, and the bad extracts.
PutBack ==
    /\ Try("put_back", "restart_back", binding' = active, UNCHANGED binding)
    /\ UNCHANGED <<publisherVars, extracts, serving, notes>>

RestartBack ==
    /\ serving' \in {serving, binding}
    /\ Proceed("restart_back", "drop_bad")
    /\ UNCHANGED <<publisherVars, extracts, binding, notes>>

DropBad ==
    /\ Try("drop_bad", "restore", extracts' = extracts \ candidates,
           UNCHANGED extracts)
    /\ UNCHANGED <<publisherVars, binding, serving, notes>>

-----------------------------------------------------------------------------
(* The finally of run_proof: each part is tried whatever became of the others *)

Cleaning(from, to, ok) ==
    /\ Proceed(from, to)
    /\ cleanupFailed' = (cleanupFailed \/ ~ok)

Restore ==
    \/ fixture /\ Call("restore", "restore-proof", "restore_wait")
    \/ /\ ~fixture
       /\ Proceed("restore", "restore_sro")
       /\ UNCHANGED <<publisherVars, sroVars, notes>>

RestoreReturns ==
    /\ Quiet
    /\ \E ok \in {WentWell, FALSE} : Cleaning("restore_wait", "restore_sro", ok)
    /\ UNCHANGED <<publisherVars, sroVars, captured, active, candidates, round,
                   published, fixture, rebound>>

\* Mutant: the binding is restored, and the gateway left as it is.
RestoreSroOnly ==
    /\ \/ captured = NoExtract /\ UNCHANGED binding
       \/ captured # NoExtract /\ binding' = captured
    /\ Cleaning("restore_sro", "discard", TRUE)
    /\ UNCHANGED <<publisherVars, extracts, serving, captured, active, candidates,
                   round, published, fixture, rebound>>

\* Without a captured binding there is nothing to restore, and no restart.
RestoreSro ==
    /\ \/ /\ captured = NoExtract
          /\ UNCHANGED binding
          /\ Cleaning("restore_sro", "discard", TRUE)
       \/ /\ captured # NoExtract
          /\ binding' = captured
          /\ Cleaning("restore_sro", IF rebound THEN "restart_sro" ELSE "discard",
                      TRUE)
       \/ /\ captured # NoExtract
          /\ binding' \in {binding, captured}
          /\ Cleaning("restore_sro", "final", FALSE)
    /\ UNCHANGED <<publisherVars, extracts, serving, captured, active, candidates,
                   round, published, fixture, rebound>>

\* Mutant: the changed extract is discarded whether or not the gateway came back.
RestartSroDiscards ==
    /\ \/ serving' = binding /\ Cleaning("restart_sro", "discard", TRUE)
       \/ serving' \in {serving, binding} /\ Cleaning("restart_sro", "discard", FALSE)
    /\ UNCHANGED <<publisherVars, extracts, binding, captured, active, candidates,
                   round, published, fixture, rebound>>

RestartSro ==
    /\ \/ serving' = binding /\ Cleaning("restart_sro", "discard", TRUE)
       \/ serving' \in {serving, binding} /\ Cleaning("restart_sro", "final", FALSE)
    /\ UNCHANGED <<publisherVars, extracts, binding, captured, active, candidates,
                   round, published, fixture, rebound>>

\* The changed extract is removed, unless runtime.yaml still names it.
Discard ==
    /\ \/ /\ published = NoExtract
          /\ UNCHANGED extracts
          /\ Cleaning("discard", "final", TRUE)
       \/ /\ published # NoExtract
          /\ binding # published
          /\ extracts' = extracts \ {published}
          /\ Cleaning("discard", "final", TRUE)
       \/ /\ published # NoExtract
          /\ UNCHANGED extracts
          /\ Cleaning("discard", "final", FALSE)
    /\ UNCHANGED <<publisherVars, binding, serving, captured, active, candidates,
                   round, published, fixture, rebound>>

\* Mutant: the restored state is not observed again.
FinalUnobserved ==
    /\ pc = "final"
    /\ pc' = "idle"
    /\ outcome' = IF failed THEN "fail" ELSE "pass"
    /\ UNCHANGED <<publisherVars, sroVars, notes, run, failed>>

\* A run passes when nothing failed and both services are observed as before.
Final ==
    /\ pc = "final"
    /\ pc' = "idle"
    /\ \/ /\ ~failed /\ ~cleanupFailed
          /\ database = "original" /\ serving.kind = "good"
          /\ outcome' = "pass"
       \/ outcome' = "fail"
    /\ UNCHANGED <<publisherVars, sroVars, notes, run, failed>>

-----------------------------------------------------------------------------
(* The rest of the world *)

Publisher ==
    /\ \E c \in Containers : Work(c) \/ Die(c)
    /\ UNCHANGED <<sroVars, notes, run, pc, failed, outcome>>

\* The run is killed; a publisher container it has started goes on.
Kill ==
    /\ pc # "idle"
    /\ pc' = "idle"
    /\ outcome' = "killed"
    /\ UNCHANGED <<publisherVars, sroVars, notes, run, failed>>

Body ==
    \/ Preconditions \/ Begin \/ BeginReturns \/ Undo \/ UndoReturns \/ Capture
    \/ ObserveBefore \/ Set \/ SetReturns \/ ObserveMosd \/ Publish
    \/ ObserveUnbound \/ Bind \/ ObserveBound \/ Restart \/ ObserveActive

ProveRefusals ==
    \/ EnterRefusals \/ PublishBad \/ BindBad \/ RestartBad \/ Refused
    \/ RebindActive \/ RestartActive \/ PutBack \/ RestartBack \/ DropBad

Cleanup ==
    \/ Restore \/ RestoreReturns \/ RestoreSro \/ RestartSro \/ Discard \/ Final

Next ==
    \/ Up \/ Start \/ Body \/ ProveRefusals \/ Cleanup
    \/ Publisher \/ Kill

Spec == Init /\ [][Next]_vars

-----------------------------------------------------------------------------
(* Properties *)

\* The SRO gateway can be restarted at any moment, also after a run that was
\* killed or could not clean up: runtime.yaml names an extract that is there,
\* and one that may be serving is not taken away under the gateway.
BoundExtractKept ==
    /\ binding \in extracts
    /\ serving.kind \in {"good", "changed"} => serving \in extracts

\* Wherever a run fails, what it had captured is back when its cleanup reports
\* no error of its own.
FailureRestores ==
    (pc = "idle" /\ outcome \in {"pass", "fail"} /\ ~cleanupFailed) =>
        /\ fixture => database = "original" /\ backup = "none"
        /\ captured # NoExtract => binding = captured
        /\ rebound => serving = captured

\* A run that passes leaves the stack as a deployment does: the row, and the
\* original extract bound and served; nothing that it published remains.
PassLeavesDeployed ==
    (pc = "idle" /\ outcome = "pass") =>
        /\ database = "original" /\ (Quiet => backup = "none")
        /\ binding.kind = "good" /\ serving = binding
        /\ \A e \in extracts : e.run # run
=============================================================================
