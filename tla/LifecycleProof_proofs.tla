----------------------- MODULE LifecycleProof_proofs -----------------------
(***************************************************************************)
(* Theorems about LifecycleProof, for any number of runs, whatever fails   *)
(* or is killed in them, as long as the publisher's containers run one at  *)
(* a time.                                                                 *)
(***************************************************************************)
EXTENDS LifecycleProof, SourcePublisher_proofs

USE DEF Refusals, Waiting, Locations, Handler

-----------------------------------------------------------------------------
(* The composition: a run starts the publisher's containers and no more    *)

\* A step of a run is a step of the publisher, or leaves it alone.
LEMMA PublisherMoves == [Next]_vars => [PublisherNext]_publisherVars
<1> SUFFICES ASSUME [Next]_vars PROVE [PublisherNext]_publisherVars
  OBVIOUS
<1> USE DEF Verbs
<1>1. CASE Up
  BY <1>1 DEF Up, PublisherNext
<1>2. CASE Begin \/ Undo \/ Set \/ Restore
  BY <1>2 DEF Begin, Undo, Set, Restore, Call, PublisherNext
<1>3. CASE Publisher
  BY <1>3 DEF Publisher, PublisherNext
<1>4. CASE \/ Start \/ Preconditions \/ BeginReturns \/ UndoReturns \/ Capture
           \/ ObserveBefore \/ SetReturns \/ ObserveMosd \/ Publish
           \/ ObserveUnbound \/ Bind \/ ObserveBound \/ Restart \/ ObserveActive
           \/ ProveRefusals \/ RestoreReturns \/ RestoreSro \/ RestartSro
           \/ Discard \/ Final \/ Kill \/ UNCHANGED vars
  BY <1>4
  DEF Start, Preconditions, BeginReturns, UndoReturns, Capture, ObserveBefore,
      SetReturns, ObserveMosd, Publish, ObserveUnbound, Bind, ObserveBound,
      Restart, ObserveActive, ProveRefusals, EnterRefusals, PublishBad, BindBad,
      RestartBad, Refused, RebindActive, RestartActive, PutBack, RestartBack,
      DropBad, RestoreReturns, RestoreSro, RestartSro, Discard, Final, Kill,
      Check, Restarted, vars
<1>. QED BY <1>1, <1>2, <1>3, <1>4 DEF Next, Body, Cleanup

\* A run of the proof, seen at the source, is a run of the publisher.
THEOREM RunUsesPublisher == Spec => PublisherSpec
<1>1. Init => PublisherInit
  BY DEF Init
<1>. QED BY <1>1, PublisherMoves, PTL DEF Spec, PublisherSpec

-----------------------------------------------------------------------------
(* The inductive invariant                                                 *)

Early == {"preconditions", "begin", "begin_wait", "undo", "undo_wait", "capture",
          "observe_before", "set", "set_wait", "observe_mosd", "publish"}

InRefusals == Refusals \cup {"put_back", "restart_back", "drop_bad"}

AfterBind == {"observe_bound", "restart", "observe_active", "enter_refusals"}
                 \cup InRefusals

AfterPublish == {"observe_unbound", "bind"} \cup AfterBind

AfterCapture == {"observe_before", "set", "set_wait", "observe_mosd", "publish"}
                    \cup AfterPublish

Ending == {"restore", "restore_wait", "restore_sro", "restart_sro", "discard"}

\* A run that has gone through its cleanup.
Done == pc = "final" \/ (pc = "idle" /\ outcome \in {"pass", "fail"})

\* Which extracts there are: those of this run are the ones it has on record, and
\* what it has captured is older than itself.
ExtractsKnown ==
    /\ \A e \in extracts : e.run <= run
    /\ pc \in Early => \A e \in extracts : e.run < run
    /\ serving.run <= run
    /\ (pc # "idle" /\ ~rebound) => serving.run < run
    /\ \A e \in candidates : e.run = run /\ e.kind \in {"stale", "invalid"}
    /\ (pc # "idle" \/ outcome # "none") =>
          \A e \in extracts : e.run = run => e \in candidates \/ e = Of("changed")
    /\ captured # NoExtract =>
          /\ captured \in extracts /\ captured.run < run
          /\ captured.kind \in {"good", "changed"}
    /\ published # NoExtract =>
          /\ published = Of("changed")
          /\ captured # NoExtract
          /\ pc \notin {"final", "idle"} => published \in extracts

\* What the steps of a run that lie behind it have brought about.
Whereabouts ==
    /\ rebound => captured # NoExtract
    /\ pc \in Early => published = NoExtract
    /\ pc \in Early \cup {"observe_unbound", "bind"} => ~rebound
    /\ pc \in {"begin", "begin_wait", "capture"} =>
          binding.kind \in {"good", "changed"}
    /\ pc \in AfterCapture => captured # NoExtract
    /\ pc \in AfterCapture \cup {"capture"} => fixture
    /\ pc \in AfterPublish => published # NoExtract
    /\ pc \in AfterBind => rebound
    /\ pc \in AfterBind \ InRefusals => binding = published
    /\ pc \in InRefusals => active = published
    /\ pc = "bind_bad" => Of(round) \in extracts
    /\ pc \in {"restart_back", "drop_bad"} => binding = active
    /\ pc = "restart_sro" => captured # NoExtract /\ binding = captured
    /\ pc = "discard" =>
          /\ captured # NoExtract => binding = captured
          /\ rebound => serving = captured

\* The steps restore-proof takes, ahead of its end.
Restoring == {"restore_check", "restore_read", "restore_commit", "restore_unlink"}

\* Where the publisher's containers are, and what a restore that ended well means.
RowKept ==
    /\ pc \notin Waiting \cup {"idle"} => Quiet
    /\ pc = "restore_wait" => \A c \in Containers :
          /\ step[c] \in {"idle"} \cup Restoring
          /\ result[c] = "ok" => Quiet /\ database = "original" /\ backup = "none"
    /\ (pc \in {"restore_sro", "restart_sro", "discard"} \/ Done) =>
          /\ \A c \in Containers : step[c] \in {"idle", "seed_check", "seed_link"}
          /\ (fixture /\ ~cleanupFailed) =>
                database = "original" /\ backup = "none"

\* What a cleanup without an error has put right, and what it relies on when the
\* run itself had none.
PutRight ==
    /\ ((pc \in {"restart_sro", "discard"} \/ Done) /\ ~cleanupFailed
        /\ captured # NoExtract) => binding = captured
    /\ ((pc = "discard" \/ Done) /\ ~cleanupFailed /\ rebound) => serving = captured
    /\ ((pc \in Ending \/ Done) /\ ~failed) =>
          /\ fixture /\ published # NoExtract /\ rebound
          /\ candidates \cap extracts = {}
    /\ (Done /\ ~failed /\ ~cleanupFailed) => published \notin extracts
    /\ (pc = "idle" /\ outcome = "pass") =>
          ~failed /\ ~cleanupFailed /\ database = "original" /\ serving.kind = "good"

RunInv ==
    /\ TypeOK
    /\ PublisherInv
    /\ BoundExtractKept
    /\ ExtractsKnown
    /\ Whereabouts
    /\ RowKept
    /\ PutRight

\* An extract a run makes is one of its own, and none that could be missing.
LEMMA OfType ==
    ASSUME TypeOK, NEW kind \in Kinds
    PROVE  /\ Of(kind) \in Extract
           /\ Of(kind).run = run /\ Of(kind).kind = kind
BY DEF TypeOK, Of, Extract

LEMMA NoExtractApart == NoExtract \notin Extract
BY DEF NoExtract, Extract, Kinds

\* What is kept of the SRO volume, and the notes of a run, have their types.
LEMMA RunType ==
    ASSUME RunInv, [Next]_vars
    PROVE  TypeOK'
<1>0. /\ TypeOK /\ PublisherTypeOK' /\ ExtractsKnown /\ Whereabouts
      /\ Of("changed") \in Extract /\ Of(round) \in Extract
  BY PublisherMoves, TypeStep, OfType DEF RunInv, TypeOK, Kinds
<1> USE <1>0 DEF TypeOK
<1>1. CASE Up \/ Publisher \/ Kill \/ UNCHANGED vars
  BY <1>1 DEF Up, Publisher, Kill, sroVars, notes, vars
<1>2. CASE Start
  <2>1. run' \in 0 .. MaxRuns
    BY <1>2, MaxRunsAssumption DEF Start
  <2>. QED BY <1>2, <2>1 DEF Start, sroVars
<1>3. CASE \/ Preconditions \/ Begin \/ Undo \/ UndoReturns \/ ObserveBefore \/ Set
           \/ SetReturns \/ ObserveMosd \/ ObserveUnbound \/ ObserveBound
           \/ ObserveActive \/ Refused \/ BeginReturns
  <2>1. /\ UNCHANGED <<sroVars, run, outcome>>
        /\ UNCHANGED <<captured, active, candidates, round, published, rebound,
                       cleanupFailed>>
        /\ fixture' \in {fixture, TRUE} /\ failed' \in {failed, TRUE}
    BY <1>3
    DEF Preconditions, Begin, BeginReturns, Undo, UndoReturns, ObserveBefore,
        Set, SetReturns, ObserveMosd, ObserveUnbound, ObserveBound,
        ObserveActive, Refused, Check, Call, Proceed, Raise, notes
  <2>2. pc' \in Locations
    BY <1>3
    DEF Preconditions, Begin, BeginReturns, Undo, UndoReturns, ObserveBefore,
        Set, SetReturns, ObserveMosd, ObserveUnbound, ObserveBound,
        ObserveActive, Refused, Check, Call, Proceed, Raise
  <2>. QED BY <2>1, <2>2 DEF sroVars
<1>4. CASE Capture \/ EnterRefusals
  BY <1>4 DEF Capture, EnterRefusals, Proceed, Raise, sroVars
<1>5. CASE Publish \/ PublishBad
  BY <1>5 DEF Publish, PublishBad, Proceed, Raise
<1>6. CASE Bind
  BY <1>6 DEF Bind, Try, Proceed, Raise, Whereabouts, AfterPublish
<1>7. CASE Restart \/ RestartBad \/ RestartActive \/ RestartBack
  BY <1>7 DEF Restart, RestartBad, RestartActive, RestartBack, Restarted, Try,
              Proceed, Raise, notes
<1>8. CASE BindBad
  BY <1>8 DEF BindBad, Try, Proceed, Raise, notes
<1>9. CASE RebindActive \/ PutBack \/ DropBad
  <2>1. pc \in InRefusals /\ active \in Extract
    BY <1>9 DEF RebindActive, PutBack, DropBad, Try, Proceed, Raise, Whereabouts,
                InRefusals, AfterBind, AfterPublish
  <2>2. /\ pc' \in Locations /\ failed' \in {failed, TRUE}
        /\ UNCHANGED <<serving, notes, run, outcome>>
        /\ binding' \in {binding, active}
        /\ extracts' \in {extracts, extracts \ candidates}
    BY <1>9 DEF RebindActive, PutBack, DropBad, Try, Proceed, Raise
  <2>. QED BY <2>1, <2>2 DEF notes
<1>10. CASE Restore \/ RestoreReturns
  BY <1>10 DEF Restore, RestoreReturns, Call, Cleaning, Proceed, WentWell, sroVars,
               notes
<1>11. CASE RestoreSro \/ RestartSro \/ Discard
  BY <1>11 DEF RestoreSro, RestartSro, Discard, Cleaning, Proceed
<1>12. CASE Final
  BY <1>12 DEF Final, sroVars, notes
<1>. QED
  BY <1>1, <1>2, <1>3, <1>4, <1>5, <1>6, <1>7, <1>8, <1>9, <1>10, <1>11, <1>12
  DEF Next, Body, ProveRefusals, Cleanup

-----------------------------------------------------------------------------
(* The extracts                                                            *)

\* Steps that change no extract and no note, and go on where they were, to the
\* cleanup, or to an end.
LEMMA Looking ==
    ASSUME \/ Up \/ Publisher \/ Kill \/ Preconditions \/ Begin \/ Undo
           \/ UndoReturns \/ ObserveBefore \/ Set \/ SetReturns \/ ObserveMosd
           \/ ObserveUnbound \/ ObserveBound \/ ObserveActive \/ Refused
           \/ Restore \/ Final \/ UNCHANGED vars
    PROVE  /\ UNCHANGED <<sroVars, notes, run>>
           /\ \/ UNCHANGED <<pc, failed, outcome>>
              \/ /\ pc # "idle" /\ pc' = "idle"
              \/ /\ UNCHANGED outcome /\ failed' # failed => failed'
                 /\ \/ pc = "preconditions" /\ pc' \in {"begin", "restore"}
                    \/ pc = "begin" /\ pc' = "begin_wait"
                    \/ pc = "undo" /\ pc' = "undo_wait"
                    \/ pc = "undo_wait" /\ pc' = "restore"
                    \/ pc = "observe_before" /\ pc' \in {"set", "restore"}
                    \/ pc = "set" /\ pc' = "set_wait"
                    \/ pc = "set_wait" /\ pc' \in {"observe_mosd", "restore"}
                    \/ pc = "observe_mosd" /\ pc' \in {"publish", "restore"}
                    \/ pc = "observe_unbound" /\ pc' \in {"bind", "restore"}
                    \/ pc = "observe_bound" /\ pc' \in {"restart", "restore"}
                    \/ pc = "observe_active" /\ pc' \in {"enter_refusals", "restore"}
                    \/ pc = "refused" /\ pc' \in {"rebind_active", "put_back"}
                    \/ pc = "restore" /\ pc' = "restore_wait"
                    \/ pc = "restore" /\ pc' = "restore_sro" /\ ~fixture
BY DEF Up, Publisher, Kill, Preconditions, Begin, Undo, UndoReturns,
       ObserveBefore, Set, SetReturns, ObserveMosd, ObserveUnbound, ObserveBound,
       ObserveActive, Refused, Restore, Final, Check, Call, Proceed, Raise, vars

\* Every step keeps what is known of the extracts.
LEMMA ExtractsStayKnown ==
    ASSUME RunInv, [Next]_vars
    PROVE  ExtractsKnown'
<1>0. /\ TypeOK /\ ExtractsKnown /\ Whereabouts /\ BoundExtractKept
      /\ run \in Nat /\ \A e \in Extract : e.run \in Nat
      /\ extracts \subseteq Extract /\ serving \in Extract
      /\ NoExtract \notin Extract
      /\ Of("changed") \in Extract /\ Of("changed").run = run
      /\ Of("changed").kind = "changed"
      /\ Of(round) \in Extract /\ Of(round).run = run
      /\ Of(round).kind \in {"stale", "invalid"}
  BY OfType, NoExtractApart, MaxRunsAssumption DEF RunInv, TypeOK, Kinds, Extract
<1>1. CASE \/ Up \/ Publisher \/ Kill \/ Preconditions \/ Begin \/ Undo
           \/ UndoReturns \/ ObserveBefore \/ Set \/ SetReturns \/ ObserveMosd
           \/ ObserveUnbound \/ ObserveBound \/ ObserveActive \/ Refused
           \/ Restore \/ Final \/ UNCHANGED vars
  <2>1. UNCHANGED <<sroVars, notes, run, Of("changed")>>
    BY <1>1, Looking DEF Of
  <2>2. /\ pc' \in Early => pc \in Early
        /\ pc' # "idle" => (pc # "idle" \/ UNCHANGED <<pc, outcome>>)
        /\ pc = "idle" => UNCHANGED <<pc, outcome>>
        /\ pc' \notin {"final", "idle"} => pc \notin {"final", "idle"}
    BY <1>1, Looking DEF Early
  <2>. QED BY <1>0, <2>1, <2>2 DEF ExtractsKnown, sroVars, notes
<1>2. CASE Start
  BY <1>0, <1>2 DEF Start, ExtractsKnown, sroVars
<1>3. CASE BeginReturns \/ Capture
  BY <1>0, <1>3
  DEF BeginReturns, Capture, Proceed, Raise, ExtractsKnown, Whereabouts, sroVars,
      Early, BoundExtractKept, Of
<1>4. CASE Publish
  BY <1>0, <1>4
  DEF Publish, Proceed, Raise, ExtractsKnown, Whereabouts, AfterCapture, Early, Of
<1>5. CASE Bind
  BY <1>0, <1>5 DEF Bind, Try, Proceed, Raise, ExtractsKnown, Early, Of
<1>6. CASE Restart \/ RestartBad \/ RestartActive \/ RestartBack
  <2>1. pc \in AfterBind /\ binding \in Extract /\ binding.run <= run
    BY <1>0, <1>6
    DEF Restart, RestartBad, RestartActive, RestartBack, Restarted, Try, Proceed,
        Raise, AfterBind, InRefusals, TypeOK, BoundExtractKept, ExtractsKnown
  <2>. QED BY <1>0, <1>6, <2>1
           DEF Restart, RestartBad, RestartActive, RestartBack, Restarted, Try,
               Proceed, Raise, ExtractsKnown, Whereabouts, notes, Early, Of
<1>7. CASE EnterRefusals \/ BindBad \/ RebindActive \/ PutBack
  BY <1>0, <1>7
  DEF EnterRefusals, BindBad, RebindActive, PutBack, Try, Proceed, Raise,
      ExtractsKnown, sroVars, notes, Early, Of
<1>8. CASE PublishBad
  BY <1>0, <1>8 DEF PublishBad, Proceed, Raise, ExtractsKnown, Early, Of
<1>9. CASE DropBad
  BY <1>0, <1>9 DEF DropBad, Try, Proceed, Raise, ExtractsKnown, notes, Early, Of
<1>10. CASE RestoreReturns \/ RestoreSro
  BY <1>0, <1>10
  DEF RestoreReturns, RestoreSro, Cleaning, Proceed, ExtractsKnown, sroVars,
      Early, Of
<1>11. CASE RestartSro
  <2>1. binding.run < run /\ binding.run <= run
    BY <1>0, <1>11
    DEF RestartSro, Cleaning, Proceed, Whereabouts, ExtractsKnown, TypeOK
  <2>. QED BY <1>0, <1>11, <2>1
           DEF RestartSro, Cleaning, Proceed, ExtractsKnown, Early, Of
<1>12. CASE Discard
  BY <1>0, <1>12 DEF Discard, Cleaning, Proceed, ExtractsKnown, Early, Of
<1>. QED
  BY <1>1, <1>2, <1>3, <1>4, <1>5, <1>6, <1>7, <1>8, <1>9, <1>10, <1>11, <1>12
  DEF Next, Body, ProveRefusals, Cleanup

\* Every step keeps the extract runtime.yaml names, and one that is served.
LEMMA BoundStays ==
    ASSUME RunInv, [Next]_vars
    PROVE  BoundExtractKept'
<1>0. /\ TypeOK /\ ExtractsKnown /\ Whereabouts /\ BoundExtractKept
      /\ Of("changed").kind = "changed" /\ Of(round).kind \in {"stale", "invalid"}
  BY OfType DEF RunInv, TypeOK, Kinds
<1>1. CASE UNCHANGED sroVars
  BY <1>0, <1>1 DEF BoundExtractKept, sroVars
<1>2. CASE Publish \/ PublishBad
  BY <1>0, <1>2 DEF Publish, PublishBad, BoundExtractKept
<1>3. CASE Bind \/ BindBad \/ RebindActive \/ PutBack
  <2>1. binding' \in extracts
    BY <1>0, <1>3
    DEF Bind, BindBad, RebindActive, PutBack, Try, Proceed, Raise,
        BoundExtractKept, Whereabouts, ExtractsKnown, AfterPublish, AfterBind,
        InRefusals
  <2>. QED BY <1>0, <1>3, <2>1
           DEF Bind, BindBad, RebindActive, PutBack, BoundExtractKept
<1>4. CASE Restart \/ RestartBad \/ RestartActive \/ RestartBack \/ RestartSro
  BY <1>0, <1>4
  DEF Restart, RestartBad, RestartActive, RestartBack, RestartSro, Restarted, Try,
      BoundExtractKept
<1>5. CASE DropBad
  <2>1. binding \notin candidates
    BY <1>0, <1>5 DEF DropBad, Try, Proceed, Raise, Whereabouts, ExtractsKnown,
                      AfterPublish, AfterBind, InRefusals
  <2>. QED BY <1>0, <1>5, <2>1 DEF DropBad, Try, BoundExtractKept, ExtractsKnown
<1>6. CASE RestoreSro
  BY <1>0, <1>6 DEF RestoreSro, BoundExtractKept, ExtractsKnown
<1>7. CASE Discard
  <2>1. CASE extracts' = extracts
    BY <1>0, <1>7, <2>1 DEF Discard, BoundExtractKept
  <2>2. CASE published # NoExtract /\ extracts' = extracts \ {published}
    <3>1. pc = "discard"
      BY <1>7 DEF Discard, Cleaning, Proceed
    <3>2. published.run = run /\ captured # NoExtract /\ captured.run < run
      BY <1>0, <2>2, OfType DEF ExtractsKnown, Kinds
    <3>3. serving.run < run /\ binding.run < run
      BY <1>0, <3>1, <3>2 DEF ExtractsKnown, Whereabouts
    <3>4. serving # published /\ binding # published
      BY <3>2, <3>3, MaxRunsAssumption, <1>0 DEF TypeOK
    <3>. QED BY <1>0, <1>7, <2>2, <3>4 DEF Discard, BoundExtractKept
  <2>. QED BY <1>7, <2>1, <2>2 DEF Discard
<1>8. \/ UNCHANGED sroVars \/ Publish \/ PublishBad \/ Bind \/ BindBad
      \/ RebindActive \/ PutBack \/ Restart \/ RestartBad \/ RestartActive
      \/ RestartBack \/ RestartSro \/ DropBad \/ RestoreSro \/ Discard
  <2>1. CASE Start \/ BeginReturns \/ Capture \/ EnterRefusals \/ RestoreReturns
    BY <2>1 DEF Start, BeginReturns, Capture, EnterRefusals, RestoreReturns
  <2>. QED BY <2>1, Looking DEF Next, Body, ProveRefusals, Cleanup
<1>. QED BY <1>1, <1>2, <1>3, <1>4, <1>5, <1>6, <1>7, <1>8

-----------------------------------------------------------------------------
(* Where a run is                                                          *)

\* Every step keeps what the steps behind it have brought about.
LEMMA WhereaboutsStay ==
    ASSUME RunInv, [Next]_vars
    PROVE  Whereabouts'
<1>0. /\ TypeOK /\ ExtractsKnown /\ Whereabouts /\ BoundExtractKept
      /\ NoExtract \notin Extract /\ extracts \subseteq Extract
      /\ Of("changed") \in Extract /\ binding \in Extract
  BY OfType, NoExtractApart DEF RunInv, TypeOK, Kinds
<1> USE DEF Early, AfterCapture, AfterPublish, AfterBind, InRefusals
<1>1. CASE pc' = "idle" \/ pc' = "final"
  <2>1. UNCHANGED <<rebound, captured>>
    BY <1>1
    DEF Next, Body, ProveRefusals, Cleanup, Up, Start, Publisher, Kill,
        Preconditions, Begin, BeginReturns, Undo, UndoReturns, Capture,
        ObserveBefore, Set, SetReturns, ObserveMosd, Publish, ObserveUnbound,
        Bind, ObserveBound, Restart, ObserveActive, EnterRefusals, PublishBad,
        BindBad, RestartBad, Refused, RebindActive, RestartActive, PutBack,
        RestartBack, DropBad, Restore, RestoreReturns, RestoreSro, RestartSro,
        Discard, Final, Check, Call, Restarted, Try, Cleaning, Proceed, Raise,
        notes, vars
  <2>. QED BY <1>0, <1>1, <2>1 DEF Whereabouts
<1>2. CASE /\ \/ Up \/ Publisher \/ Kill \/ Preconditions \/ Begin \/ Undo
              \/ UndoReturns \/ ObserveBefore \/ Set \/ SetReturns \/ ObserveMosd
              \/ ObserveUnbound \/ ObserveBound \/ ObserveActive \/ Refused
              \/ Restore \/ Final \/ UNCHANGED vars
           /\ pc' # "idle"
  <2>1. UNCHANGED <<sroVars, notes, Of(round)>>
    BY <1>2, Looking DEF Of, notes
  <2>2. pc' = "begin" /\ pc = "preconditions" => binding.kind \in {"good", "changed"}
    BY <1>2 DEF Up, Publisher, Kill, Preconditions, Begin, Undo, UndoReturns,
                ObserveBefore, Set, SetReturns, ObserveMosd, ObserveUnbound,
                ObserveBound, ObserveActive, Refused, Restore, Final, Check, Call,
                Proceed, Raise, vars, Acceptable
  <2>. QED BY <1>0, <1>2, <2>1, <2>2, Looking DEF Whereabouts, sroVars, notes
<1>3. CASE Start
  BY <1>0, <1>3 DEF Start, Whereabouts
<1>4. CASE BeginReturns \/ Capture
  BY <1>0, <1>4
  DEF BeginReturns, Capture, Proceed, Raise, Whereabouts, sroVars,
      BoundExtractKept
<1>5. CASE Publish
  BY <1>0, <1>5 DEF Publish, Proceed, Raise, Whereabouts
<1>6. CASE Bind \/ Restart
  BY <1>0, <1>6 DEF Bind, Restart, Restarted, Try, Proceed, Raise, Whereabouts, notes
<1>7. CASE EnterRefusals \/ PublishBad
  BY <1>0, <1>7
  DEF EnterRefusals, PublishBad, Proceed, Raise, Whereabouts, sroVars, Of
<1>8. CASE BindBad \/ RestartBad \/ RebindActive \/ RestartActive
  BY <1>0, <1>8
  DEF BindBad, RestartBad, RebindActive, RestartActive, Restarted, Try, Proceed,
      Raise, Whereabouts, notes
<1>9. CASE PutBack \/ RestartBack \/ DropBad
  BY <1>0, <1>9
  DEF PutBack, RestartBack, DropBad, Try, Proceed, Raise, Whereabouts, notes
<1>10. CASE RestoreReturns \/ RestoreSro \/ RestartSro
  BY <1>0, <1>10
  DEF RestoreReturns, RestoreSro, RestartSro, Cleaning, Proceed, Whereabouts,
      sroVars
<1>11. CASE Discard
  BY <1>1, <1>11 DEF Discard, Cleaning, Proceed
<1>. QED
  BY <1>1, <1>2, <1>3, <1>4, <1>5, <1>6, <1>7, <1>8, <1>9, <1>10, <1>11
  DEF Next, Body, ProveRefusals, Cleanup

-----------------------------------------------------------------------------
(* The publisher's row                                                     *)

\* A container that steps is at work, moves itself only, and is the only one.
LEMMA OneContainer ==
    ASSUME ~Overlap, RunInv, NEW c \in Containers, Work(c) \/ Die(c)
    PROVE  /\ step[c] # "idle"
           /\ \A d \in Containers \ {c} :
                 step[d] = "idle" /\ step'[d] = step[d] /\ result'[d] = result[d]
<1>0. PublisherTypeOK /\ Inv
  BY DEF RunInv, TypeOK, Inv
<1>1. /\ step[c] # "idle"
      /\ \A d \in Containers \ {c} : step'[d] = step[d] /\ result'[d] = result[d]
  BY <1>0
  DEF Work, Die, SeedCheck, SeedLink, BeginCheck, BeginKnown, BeginRead, BeginLink,
      SetCheck, SetCommit, RestoreCheck, RestoreRead, RestoreCommit,
      RestoreUnlink, On, Exit, PublisherTypeOK
<1>. QED BY <1>0, <1>1, SoloStep

\* A container of restore-proof goes on restoring, and ends well over the original
\* row, with no backup left.
LEMMA RestoreRuns ==
    ASSUME ~Overlap, RunInv, NEW c \in Containers, Work(c) \/ Die(c),
           step[c] \in Restoring
    PROVE  /\ step'[c] \in {"idle"} \cup Restoring
           /\ (result'[c] = "ok" /\ result[c] # "ok") =>
                 step'[c] = "idle" /\ database' = "original" /\ backup' = "none"
<1>0. /\ PublisherTypeOK /\ OriginalRecoverable /\ Sound(c)
      /\ step \in [Containers -> Steps \cup {"idle"}]
      /\ result \in [Containers -> {"none", "ok", "failed"}]
      /\ database \in Rows \cup {"absent"}
  BY DEF RunInv, TypeOK, PublisherInv, PublisherTypeOK
<1>1. CASE Die(c)
  BY <1>0, <1>1 DEF Die, Exit
<1>2. CASE RestoreCheck(c)
  BY <1>0, <1>2
  DEF RestoreCheck, On, Exit, files, Restoring, OriginalRecoverable, Rows
<1>3. CASE RestoreRead(c) \/ RestoreCommit(c)
  BY <1>0, <1>3 DEF RestoreRead, RestoreCommit, On, Exit, Restoring
<1>4. CASE RestoreUnlink(c)
  BY <1>0, <1>4 DEF RestoreUnlink, Exit, Sound
<1>5. CASE \/ SeedCheck(c) \/ SeedLink(c) \/ BeginCheck(c) \/ BeginKnown(c)
           \/ BeginRead(c) \/ BeginLink(c) \/ SetCheck(c) \/ SetCommit(c)
  BY <1>5 DEF SeedCheck, SeedLink, BeginCheck, BeginKnown, BeginRead, BeginLink,
              SetCheck, SetCommit, On, Exit, Restoring
<1>. QED BY <1>1, <1>2, <1>3, <1>4, <1>5 DEF Work

\* A container that seeds leaves a row that is there.
LEMMA SeedRuns ==
    ASSUME RunInv, NEW c \in Containers, Work(c) \/ Die(c),
           step[c] \in {"seed_check", "seed_link"}
    PROVE  /\ step'[c] \in {"idle", "seed_link"}
           /\ backup' = backup
           /\ database # "absent" => database' = database
<1>0. step \in [Containers -> Steps \cup {"idle"}]
  BY DEF RunInv, TypeOK, PublisherTypeOK
<1>. QED
  BY <1>0
  DEF Work, Die, SeedCheck, SeedLink, BeginCheck, BeginKnown, BeginRead, BeginLink,
      SetCheck, SetCommit, RestoreCheck, RestoreRead, RestoreCommit, RestoreUnlink,
      On, Exit, files

\* Every step keeps what is known of the row and of its containers.
LEMMA RowStays ==
    ASSUME ~Overlap, RunInv, [Next]_vars
    PROVE  RowKept'
<1>0. /\ RowKept /\ Whereabouts /\ {fixture, cleanupFailed} \subseteq BOOLEAN
      /\ step \in [Containers -> Steps \cup {"idle"}]
      /\ FirstStep["restore-proof"] = "restore_check"
      /\ FirstStep["ensure-seeded"] = "seed_check"
  BY DEF RunInv, TypeOK, PublisherTypeOK, FirstStep, Verbs
<1>1. CASE Publisher
  <2>1. PICK c \in Containers : Work(c) \/ Die(c)
    BY <1>1 DEF Publisher
  <2>2. UNCHANGED <<pc, outcome, fixture, cleanupFailed>>
    BY <1>1 DEF Publisher, notes
  <2>3. /\ step[c] # "idle"
        /\ \A d \in Containers \ {c} :
              step[d] = "idle" /\ step'[d] = step[d] /\ result'[d] = result[d]
    BY <2>1, OneContainer
  <2>4. pc \in Waiting \cup {"idle"}
    BY <1>0, <2>3 DEF RowKept, Quiet
  <2>5. CASE pc = "restore_wait"
    <3>1. step[c] \in Restoring /\ \A d \in Containers : result[d] # "ok"
      BY <1>0, <2>3, <2>5 DEF RowKept, Quiet
    <3>2. /\ step'[c] \in {"idle"} \cup Restoring
          /\ result'[c] = "ok" =>
                step'[c] = "idle" /\ database' = "original" /\ backup' = "none"
      BY <2>1, <3>1, RestoreRuns
    <3>. QED BY <2>2, <2>3, <2>5, <3>1, <3>2 DEF RowKept, Quiet, Done
  <2>6. CASE Done
    <3>1. step[c] \in {"seed_check", "seed_link"}
      BY <1>0, <2>3, <2>6 DEF RowKept
    <3>2. /\ step'[c] \in {"idle", "seed_link"} /\ backup' = backup
          /\ database # "absent" => database' = database
      BY <2>1, <3>1, SeedRuns
    <3>. QED BY <1>0, <2>2, <2>3, <2>4, <2>6, <3>2 DEF RowKept, Done
  <2>. QED BY <2>2, <2>4, <2>5, <2>6 DEF RowKept, Done
<1>2. CASE Up
  <2>1. PICK c \in Containers : Launch(c, "ensure-seeded")
    BY <1>2 DEF Up
  <2>2. /\ UNCHANGED <<pc, outcome, fixture, cleanupFailed, database, backup>>
        /\ pc = "idle"
        /\ step'[c] = "seed_check" /\ \A d \in Containers \ {c} : step'[d] = step[d]
    BY <1>0, <1>2, <2>1 DEF Up, Launch, files, notes
  <2>. QED BY <1>0, <2>2 DEF RowKept, Done
<1>3. CASE Restore
  <2>1. pc = "restore" /\ Quiet
    BY <1>0, <1>3 DEF Restore, Call, Proceed, RowKept
  <2>2. CASE fixture /\ Call("restore", "restore-proof", "restore_wait")
    <3>1. PICK c \in Containers : Launch(c, "restore-proof")
      BY <2>2 DEF Call
    <3>2. /\ step'[c] = "restore_check"
          /\ \A d \in Containers \ {c} : step'[d] = "idle"
          /\ \A d \in Containers : result'[d] = "none"
          /\ pc' = "restore_wait"
      BY <1>0, <2>1, <2>2, <3>1 DEF Launch, Quiet, Call, Proceed
    <3>. QED BY <3>2 DEF RowKept, Restoring, Done
  <2>3. CASE ~fixture /\ pc' = "restore_sro" /\ UNCHANGED <<publisherVars, notes>>
    BY <1>0, <2>1, <2>3 DEF RowKept, Quiet, Done, publisherVars, notes
  <2>. QED BY <1>3, <2>2, <2>3 DEF Restore, Proceed
<1>4. CASE Begin \/ Undo \/ Set
  BY <1>4 DEF Begin, Undo, Set, Call, Proceed, RowKept, Done
<1>5. CASE Kill
  BY <1>5 DEF Kill, RowKept, Done
<1>6. CASE Start \/ BeginReturns \/ UndoReturns \/ SetReturns
  BY <1>6 DEF Start, BeginReturns, UndoReturns, SetReturns, Proceed, Raise, RowKept,
              Quiet, Done, publisherVars
<1>7. CASE RestoreReturns
  <2>1. /\ pc = "restore_wait" /\ pc' = "restore_sro" /\ Quiet
        /\ UNCHANGED publisherVars /\ UNCHANGED <<fixture, outcome>>
    BY <1>7 DEF RestoreReturns, Cleaning, Proceed
  <2>2. ~cleanupFailed' => WentWell
    <3>1. PICK ok \in {WentWell, FALSE} : cleanupFailed' = (cleanupFailed \/ ~ok)
      BY <1>7, Zenon DEF RestoreReturns, Cleaning
    <3>2. CASE ok = WentWell
      BY <3>1, <3>2, Zenon
    <3>3. CASE ok = FALSE
      BY <3>1, <3>3, Zenon
    <3>. QED BY <3>2, <3>3, Zenon
  <2>3. ~cleanupFailed' => database = "original" /\ backup = "none"
    BY <1>0, <2>1, <2>2 DEF RowKept, WentWell
  <2>. QED BY <2>1, <2>3 DEF RowKept, Quiet, Done, publisherVars
<1>8. CASE RestoreSro \/ RestartSro \/ Discard \/ Final
  <2>1. /\ UNCHANGED publisherVars /\ UNCHANGED fixture
        /\ ~cleanupFailed' => ~cleanupFailed
        /\ pc \in {"restore_sro", "restart_sro", "discard"} \/ Done
        /\ pc' \in {"restart_sro", "discard", "final", "idle"}
    BY <1>0, <1>8
    DEF RestoreSro, RestartSro, Discard, Final, Cleaning, Proceed, Done, notes
  <2>2. /\ \A c \in Containers : step[c] \in {"idle", "seed_check", "seed_link"}
        /\ (fixture /\ ~cleanupFailed) => database = "original" /\ backup = "none"
        /\ pc # "idle" => Quiet
    BY <1>0, <2>1 DEF RowKept, Done
  <2>3. pc # "idle"
    BY <1>8 DEF RestoreSro, RestartSro, Discard, Final, Cleaning, Proceed
  <2>. QED BY <2>1, <2>2, <2>3 DEF RowKept, Quiet, publisherVars
<1>9. CASE \/ Preconditions \/ Capture \/ ObserveBefore \/ ObserveMosd \/ Publish
           \/ ObserveUnbound \/ Bind \/ ObserveBound \/ Restart \/ ObserveActive
           \/ ProveRefusals
  <2>1. /\ pc \notin Waiting \cup {"idle"} /\ UNCHANGED publisherVars
        /\ pc' \notin Waiting \cup {"idle", "restore_sro", "restart_sro",
                                    "discard", "final"}
    BY <1>9
    DEF Preconditions, Capture, ObserveBefore, ObserveMosd, Publish,
        ObserveUnbound, Bind, ObserveBound, Restart, ObserveActive,
        ProveRefusals, EnterRefusals, PublishBad, BindBad, RestartBad, Refused,
        RebindActive, RestartActive, PutBack, RestartBack, DropBad, Check,
        Restarted, Try, Proceed, Raise
  <2>. QED BY <1>0, <2>1 DEF RowKept, Quiet, Done, publisherVars
<1>10. CASE UNCHANGED vars
  BY <1>0, <1>10 DEF RowKept, Quiet, Done, vars, publisherVars, notes
<1>. QED
  BY <1>1, <1>2, <1>3, <1>4, <1>5, <1>6, <1>7, <1>8, <1>9, <1>10
  DEF Next, Body, Cleanup

-----------------------------------------------------------------------------
(* What the cleanup puts back *)

\* A step that touches no note, and goes neither on in the cleanup nor to it
\* without an error, keeps what has been put right.
LEMMA PutRightElsewhere ==
    ASSUME pc' \notin Ending \cup {"final", "idle"} \/ (pc' = "restore" /\ failed')
    PROVE  PutRight'
BY DEF PutRight, Ending, Done

\* Every step keeps what has been put right.
LEMMA PutRightStays ==
    ASSUME RunInv, RowKept', [Next]_vars
    PROVE  PutRight'
<1>0. /\ PutRight /\ Whereabouts
      /\ {fixture, rebound, failed, cleanupFailed} \subseteq BOOLEAN
      /\ pc \in Locations
  BY DEF RunInv, TypeOK
<1>1. CASE Publisher \/ Up \/ UNCHANGED vars
  <2>1. UNCHANGED <<sroVars, notes, pc, failed, outcome>>
    BY <1>1 DEF Publisher, Up, vars
  <2>2. (pc = "idle" /\ outcome = "pass") => database' = "original"
    BY <1>0, <2>1 DEF PutRight, RowKept, Done, notes
  <2>. QED BY <1>0, <2>1, <2>2 DEF PutRight, Done, sroVars, notes
<1>2. CASE Kill
  BY <1>2 DEF Kill, PutRight, Done, Ending
<1>3. CASE Start \/ Begin \/ BeginReturns \/ Undo \/ UndoReturns \/ Set
  BY <1>3, PutRightElsewhere
  DEF Start, Begin, BeginReturns, Undo, UndoReturns, Set, Call, Proceed, Raise,
      Ending
<1>4. CASE Preconditions \/ Capture \/ ObserveBefore \/ SetReturns \/ ObserveMosd
           \/ Publish \/ ObserveUnbound \/ Bind
  BY <1>4, PutRightElsewhere
  DEF Preconditions, Capture, ObserveBefore, SetReturns, ObserveMosd, Publish,
      ObserveUnbound, Bind, Check, Try, Proceed, Raise, Ending
<1>5. CASE ObserveBound \/ Restart \/ ObserveActive \/ EnterRefusals \/ PublishBad
           \/ BindBad \/ RestartBad \/ Refused \/ RebindActive \/ RestartActive
           \/ PutBack \/ RestartBack
  BY <1>5, PutRightElsewhere
  DEF ObserveBound, Restart, ObserveActive, EnterRefusals, PublishBad, BindBad,
      RestartBad, Refused, RebindActive, RestartActive, PutBack, RestartBack,
      Restarted, Check, Try, Proceed, Raise, Ending
<1>6. CASE DropBad
  <2>1. CASE Raise("drop_bad")
    BY <2>1, PutRightElsewhere DEF Raise
  <2>2. CASE Proceed("drop_bad", "restore") /\ extracts' = extracts \ candidates
    <3>1. fixture /\ published # NoExtract /\ rebound
      BY <1>0, <2>2
      DEF Proceed, Whereabouts, AfterCapture, AfterPublish, AfterBind, InRefusals
    <3>. QED BY <1>6, <2>2, <3>1 DEF DropBad, Proceed, PutRight, Done, notes
  <2>. QED BY <1>6, <2>1, <2>2 DEF DropBad, Try
<1>7. CASE Restore \/ RestoreReturns
  <2>1. /\ pc \in Ending /\ pc' \in {"restore_wait", "restore_sro"}
        /\ UNCHANGED <<sroVars, failed, fixture, published, rebound, candidates>>
    BY <1>7
    DEF Restore, RestoreReturns, Call, Cleaning, Proceed, Ending, notes
  <2>. QED BY <1>0, <2>1 DEF PutRight, Done, sroVars
<1>8. CASE RestoreSro
  BY <1>0, <1>8 DEF RestoreSro, Cleaning, Proceed, PutRight, Done, Ending, Whereabouts
<1>9. CASE RestartSro
  BY <1>0, <1>9 DEF RestartSro, Cleaning, Proceed, PutRight, Done, Ending, Whereabouts
<1>10. CASE Discard
  BY <1>0, <1>10 DEF Discard, Cleaning, Proceed, PutRight, Done, Ending
<1>11. CASE Final
  <2>1. /\ Done /\ pc' = "idle"
        /\ UNCHANGED <<sroVars, notes, database, failed>>
    BY <1>11 DEF Final, Done, publisherVars
  <2>2. outcome' = "pass" =>
            ~failed /\ ~cleanupFailed /\ database = "original" /\ serving.kind = "good"
    BY <1>11 DEF Final
  <2>. QED BY <1>0, <2>1, <2>2 DEF PutRight, Done, Ending, sroVars, notes
<1>. QED
  BY <1>1, <1>2, <1>3, <1>4, <1>5, <1>6, <1>7, <1>8, <1>9, <1>10, <1>11
  DEF Next, Body, ProveRefusals, Cleanup

-----------------------------------------------------------------------------
(* The theorems *)

LEMMA RunInit == Init => RunInv
<1> SUFFICES ASSUME Init PROVE RunInv
  OBVIOUS
<1>1. PublisherTypeOK /\ PublisherInv
  BY InitInv DEF Init, Inv
<1>2. TypeOK
  <2>1. Deployed \in Extract
    BY MaxRunsAssumption DEF Extract, Kinds, Deployed
  <2>2. run \in 0 .. MaxRuns
    BY MaxRunsAssumption DEF Init
  <2>. QED BY <1>1, <2>1, <2>2 DEF Init, TypeOK
<1>3. ExtractsKnown /\ BoundExtractKept
  BY MaxRunsAssumption
  DEF Init, ExtractsKnown, BoundExtractKept, Deployed, Early
<1>4. Whereabouts
  BY DEF Init, Whereabouts, Early, AfterCapture, AfterPublish, AfterBind, InRefusals
<1>5. RowKept /\ PutRight
  BY DEF Init, RowKept, PutRight, Done, Ending
<1>. QED BY <1>1, <1>2, <1>3, <1>4, <1>5 DEF RunInv

LEMMA RunStep ==
    ASSUME ~Overlap, RunInv, [Next]_vars
    PROVE  RunInv'
<1>1. TypeOK'
  BY RunType
<1>2. PublisherInv'
  BY PublisherMoves, InvStep DEF RunInv, TypeOK, Inv
<1>3. ExtractsKnown' /\ BoundExtractKept' /\ Whereabouts'
  BY ExtractsStayKnown, BoundStays, WhereaboutsStay
<1>4. RowKept'
  BY RowStays
<1>5. PutRight'
  BY <1>4, PutRightStays
<1>. QED BY <1>1, <1>2, <1>3, <1>4, <1>5 DEF RunInv

\* One run at a time: what each step of a run has to go on holds until it is taken,
\* in the run itself and in the publisher that it calls.
THEOREM RunInvHolds ==
    ASSUME ~Overlap
    PROVE  Spec => []RunInv
<1>1. RunInv /\ [Next]_vars => RunInv'
  BY RunStep
<1>. QED BY RunInit, <1>1, PTL DEF Spec

\* runtime.yaml names an extract that is there, and a good one that is served is
\* there too, at every moment of every run: one that fails or is killed at any
\* step leaves a gateway that can be restarted.
THEOREM BoundExtractIsKept ==
    ASSUME ~Overlap
    PROVE  Spec => []BoundExtractKept
<1>1. RunInv => BoundExtractKept
  BY DEF RunInv
<1>. QED BY RunInvHolds, <1>1, PTL

\* Wherever a run fails, the row, the binding and what is served are those it had
\* captured when its cleanup reports no error of its own.
THEOREM FailuresRestore ==
    ASSUME ~Overlap
    PROVE  Spec => []FailureRestores
<1>1. RunInv => FailureRestores
  BY DEF RunInv, RowKept, PutRight, Done, FailureRestores
<1>. QED BY RunInvHolds, <1>1, PTL

\* A run that passes leaves the row, the extract that is bound and served, and
\* the extracts directory as it found them.
THEOREM PassesLeaveDeployed ==
    ASSUME ~Overlap
    PROVE  Spec => []PassLeavesDeployed
<1>1. RunInv => PassLeavesDeployed
  <2> SUFFICES ASSUME RunInv, pc = "idle", outcome = "pass"
               PROVE  /\ database = "original" /\ (Quiet => backup = "none")
                      /\ binding.kind = "good" /\ serving = binding
                      /\ \A e \in extracts : e.run # run
    BY DEF PassLeavesDeployed
  <2>1. /\ ~failed /\ ~cleanupFailed /\ database = "original"
        /\ serving.kind = "good"
        /\ fixture /\ rebound /\ published # NoExtract
        /\ candidates \cap extracts = {} /\ published \notin extracts
    BY DEF RunInv, PutRight, Done
  <2>2. captured # NoExtract
    BY <2>1 DEF RunInv, Whereabouts
  <2>3. binding = captured /\ serving = captured
    BY <2>1, <2>2 DEF RunInv, PutRight, Done
  <2>4. backup = "none"
    BY <2>1 DEF RunInv, RowKept, Done
  <2>5. \A e \in extracts : e.run # run
    BY <2>1 DEF RunInv, ExtractsKnown
  <2>. QED BY <2>1, <2>3, <2>4, <2>5
<1>. QED BY RunInvHolds, <1>1, PTL

\* The row a run has found is never lost, at whatever step the run or a container
\* it has started is killed.
THEOREM RunsKeepTheRow ==
    ASSUME ~Overlap
    PROVE  Spec => []PublisherInv
<1>1. RunInv => PublisherInv
  BY DEF RunInv
<1>. QED BY RunInvHolds, <1>1, PTL

\* Runs of the proof, seen at the row, are sessions on it.
THEOREM RunsImplementSession ==
    ASSUME ~Overlap
    PROVE  Spec => ImplementsSession
BY RunUsesPublisher, PublisherImplementsSession

=============================================================================
