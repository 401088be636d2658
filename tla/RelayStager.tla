---------------------------- MODULE RelayStager ----------------------------
(***************************************************************************)
(* The stager of one Relay's runtime (scripts/local-relay-runtime-         *)
(* stager.py): every run copies runtime.yaml and the sealed package from   *)
(* the checkout into the Relay's volume, under an exclusive lock on the    *)
(* volume, by way of staging names.  A run may be killed, or fail to       *)
(* write, at any step: the kernel then drops its lock, and what it has     *)
(* written stays.                                                          *)
(*                                                                         *)
(* A name on the volume holds nothing, a whole file or tree of a release,  *)
(* or a torn one: being written, or being removed.                         *)
(***************************************************************************)
EXTENDS Naturals

CONSTANTS
    Stagers,           \* stager containers of this Relay
    Releases,          \* versions of the checkout's runtime and package
    Nothing,
    Nobody             \* holder of a lock that is free

ASSUME NothingAssumption == Nothing \notin Releases
ASSUME NobodyAssumption == Nobody \notin Stagers

VARIABLES
    stagingPackage,    \* .staging-package
    stagingRuntime,    \* .staging-runtime.yaml
    package,           \* package
    runtime,           \* runtime.yaml
    lock,              \* holder of the lock on .stager.lock
    pc,                \* where each run is
    source,            \* the release a run has read from its checkout
    outcome,           \* how the last run ended
    aborted            \* whether a run was ever cut short

volume == <<stagingPackage, stagingRuntime, package, runtime>>

vars == <<stagingPackage, stagingRuntime, package, runtime, lock, pc, source,
          outcome, aborted>>

-----------------------------------------------------------------------------
(* Types *)

None == [st |-> "none", rel |-> Nothing]
Torn(r) == [st |-> "torn", rel |-> r]
Whole(r) == [st |-> "whole", rel |-> r]

Entry == {None} \cup {Torn(r) : r \in Releases} \cup {Whole(r) : r \in Releases}

RecoverySteps == {"recover", "drop_staging", "unlink_staging", "recover_active",
                  "drop_package"}

WriteSteps == {"make_package", "fill_package", "make_runtime", "fill_runtime",
               "rename_package", "replace_runtime", "verify"}

LockedSteps == RecoverySteps \cup {"compare"} \cup WriteSteps

\* What the volume, and a run between two steps, can hold.
TypeOK ==
    /\ stagingPackage \in Entry
    /\ stagingRuntime \in Entry
    /\ package \in Entry
    /\ runtime \in Entry
    /\ lock \in Stagers \cup {Nobody}
    /\ pc \in [Stagers -> {"idle", "lock"} \cup LockedSteps]
    /\ source \in [Stagers -> Releases \cup {Nothing}]
    /\ outcome \in [Stagers -> {"none", "staged", "failed"}]
    /\ aborted \in BOOLEAN

Init ==
    /\ stagingPackage = None
    /\ stagingRuntime = None
    /\ package = None
    /\ runtime = None
    /\ lock = Nobody
    /\ pc = [s \in Stagers |-> "idle"]
    /\ source = [s \in Stagers |-> Nothing]
    /\ outcome = [s \in Stagers |-> "none"]
    /\ aborted = FALSE

-----------------------------------------------------------------------------
(* A run starts, moves on and ends *)

Goto(s, from, step) ==
    /\ pc[s] = from
    /\ pc' = [pc EXCEPT ![s] = step]
    /\ UNCHANGED <<lock, source, outcome, aborted>>

\* The container's exit closes the lock descriptor.
End(s, how) ==
    /\ lock' = IF lock = s THEN Nobody ELSE lock
    /\ pc' = [pc EXCEPT ![s] = "idle"]
    /\ outcome' = [outcome EXCEPT ![s] = how]
    /\ UNCHANGED source

\* A StagingError.
Fail(s, from) ==
    /\ pc[s] = from
    /\ End(s, "failed")
    /\ UNCHANGED <<volume, aborted>>

\* The whole source is read, and validated, before the volume is opened.
Start(s) ==
    /\ pc[s] = "idle"
    /\ pc' = [pc EXCEPT ![s] = "lock"]
    /\ \E r \in Releases : source' = [source EXCEPT ![s] = r]
    /\ outcome' = [outcome EXCEPT ![s] = "none"]
    /\ UNCHANGED <<volume, lock, aborted>>

\* Mutant: the lock is only created, and chowned, never taken.
AcquireNot(s) ==
    /\ pc[s] = "lock"
    /\ lock' = s
    /\ pc' = [pc EXCEPT ![s] = "recover"]
    /\ UNCHANGED <<volume, source, outcome, aborted>>

Acquire(s) ==
    /\ pc[s] = "lock"
    /\ lock = Nobody
    /\ lock' = s
    /\ pc' = [pc EXCEPT ![s] = "recover"]
    /\ UNCHANGED <<volume, source, outcome, aborted>>

-----------------------------------------------------------------------------
(* Recovery: what an earlier run has left half done is removed *)

\* Mutant: a torn staging package is waited for, as if its run were still at it.
RecoverWaits(s) ==
    \/ /\ stagingPackage.st = "none"
       /\ Goto(s, "recover", "unlink_staging")
       /\ UNCHANGED volume
    \/ /\ stagingPackage.st = "whole"
       /\ stagingPackage' = Torn(stagingPackage.rel)
       /\ Goto(s, "recover", "drop_staging")
       /\ UNCHANGED <<stagingRuntime, package, runtime>>

\* A staging package has to read as a package before it is removed; a torn one
\* fails this run, and every later one.
Recover(s) ==
    \/ /\ stagingPackage.st = "none"
       /\ Goto(s, "recover", "unlink_staging")
       /\ UNCHANGED volume
    \/ /\ stagingPackage.st = "whole"
       /\ stagingPackage' = Torn(stagingPackage.rel)
       /\ Goto(s, "recover", "drop_staging")
       /\ UNCHANGED <<stagingRuntime, package, runtime>>
    \/ /\ stagingPackage.st = "torn"
       /\ Fail(s, "recover")

DropStaging(s) ==
    /\ stagingPackage' = None
    /\ Goto(s, "drop_staging", "unlink_staging")
    /\ UNCHANGED <<stagingRuntime, package, runtime>>

UnlinkStaging(s) ==
    /\ stagingRuntime' = None
    /\ Goto(s, "unlink_staging", "recover_active")
    /\ UNCHANGED <<stagingPackage, package, runtime>>

\* A package without a runtime was renamed by a run that did not get to the
\* runtime; a runtime without a package goes first.
RecoverActive(s) ==
    \/ /\ (runtime.st = "none") = (package.st = "none")
       /\ Goto(s, "recover_active", "compare")
       /\ UNCHANGED volume
    \/ /\ runtime.st = "none"
       /\ package.st = "whole"
       /\ package' = Torn(package.rel)
       /\ Goto(s, "recover_active", "drop_package")
       /\ UNCHANGED <<stagingPackage, stagingRuntime, runtime>>
    \/ /\ runtime.st = "none"
       /\ package.st = "torn"
       /\ Fail(s, "recover_active")

DropPackage(s) ==
    /\ package' = None
    /\ Goto(s, "drop_package", "compare")
    /\ UNCHANGED <<stagingPackage, stagingRuntime, runtime>>

-----------------------------------------------------------------------------
(* Staging *)

\* Mutant: a staged runtime of another release is left for a rewrite.
CompareRestages(s) ==
    \/ /\ runtime = Whole(source[s]) /\ package = Whole(source[s])
       /\ pc[s] = "compare"
       /\ End(s, "staged")
       /\ UNCHANGED <<volume, aborted>>
    \/ /\ runtime # Whole(source[s]) \/ package # Whole(source[s])
       /\ Goto(s, "compare", "make_package")
       /\ UNCHANGED volume

\* A staged runtime is final: the same release again is a success without a
\* write, any other one a failure.
Compare(s) ==
    \/ /\ runtime.st # "none"
       /\ runtime = Whole(source[s]) /\ package = Whole(source[s])
       /\ pc[s] = "compare"
       /\ End(s, "staged")
       /\ UNCHANGED <<volume, aborted>>
    \/ /\ runtime.st # "none"
       /\ runtime # Whole(source[s]) \/ package # Whole(source[s])
       /\ Fail(s, "compare")
    \/ /\ runtime.st = "none"
       /\ Goto(s, "compare", "make_package")
       /\ UNCHANGED volume

MakePackage(s) ==
    /\ stagingPackage' = Torn(source[s])
    /\ Goto(s, "make_package", "fill_package")
    /\ UNCHANGED <<stagingRuntime, package, runtime>>

FillPackage(s) ==
    /\ stagingPackage' = Whole(source[s])
    /\ Goto(s, "fill_package", "make_runtime")
    /\ UNCHANGED <<stagingRuntime, package, runtime>>

MakeRuntime(s) ==
    /\ stagingRuntime' = Torn(source[s])
    /\ Goto(s, "make_runtime", "fill_runtime")
    /\ UNCHANGED <<stagingPackage, package, runtime>>

FillRuntime(s) ==
    /\ stagingRuntime' = Whole(source[s])
    /\ Goto(s, "fill_runtime", "rename_package")
    /\ UNCHANGED <<stagingPackage, package, runtime>>

\* Mutant: the runtime is moved into place before its package.
RenameRuntimeFirst(s) ==
    /\ runtime' = stagingRuntime
    /\ stagingRuntime' = None
    /\ Goto(s, "rename_package", "replace_runtime")
    /\ UNCHANGED <<stagingPackage, package>>

RenamePackage(s) ==
    /\ package' = stagingPackage
    /\ stagingPackage' = None
    /\ Goto(s, "rename_package", "replace_runtime")
    /\ UNCHANGED <<stagingRuntime, runtime>>

ReplaceRuntime(s) ==
    /\ runtime' = stagingRuntime
    /\ stagingRuntime' = None
    /\ Goto(s, "replace_runtime", "verify")
    /\ UNCHANGED <<stagingPackage, package>>

\* What was staged is read back.
Verify(s) ==
    /\ pc[s] = "verify"
    /\ End(s, IF runtime.st = "whole" /\ package.st = "whole" THEN "staged"
                                                            ELSE "failed")
    /\ UNCHANGED <<volume, aborted>>

\* The container is killed, or a write fails: nothing is cleaned up.
Abort(s) ==
    /\ pc[s] # "idle"
    /\ End(s, "failed")
    /\ aborted' = TRUE
    /\ UNCHANGED volume

-----------------------------------------------------------------------------
Run(s) ==
    \/ Acquire(s) \/ Recover(s) \/ DropStaging(s) \/ UnlinkStaging(s)
    \/ RecoverActive(s) \/ DropPackage(s) \/ Compare(s)
    \/ MakePackage(s) \/ FillPackage(s) \/ MakeRuntime(s) \/ FillRuntime(s)
    \/ RenamePackage(s) \/ ReplaceRuntime(s) \/ Verify(s)

Next == \E s \in Stagers : Start(s) \/ Run(s) \/ Abort(s)

Spec == Init /\ [][Next]_vars

\* A run that is not waiting goes on; a waiting one is granted the lock in turn,
\* as the kernel queues the waiters of flock.  Nothing makes a run start.
Fairness == \A s \in Stagers : WF_vars(Run(s)) /\ SF_vars(Acquire(s))

FairSpec == Spec /\ Fairness

-----------------------------------------------------------------------------
(* Properties *)

\* What each step of the lock holder finds on the volume, because nobody else
\* writes there and recovery has removed what earlier runs left.
Prepared(s) ==
    /\ pc[s] # "idle" => source[s] \in Releases /\ outcome[s] = "none"
    /\ pc[s] \in LockedSteps => lock = s
    /\ pc[s] \in {"drop_package"} \cup (WriteSteps \ {"verify"}) => runtime = None
    /\ pc[s] \in WriteSteps \ {"replace_runtime", "verify"} => package = None
    /\ pc[s] \in {"make_runtime", "fill_runtime", "rename_package"} =>
          stagingPackage = Whole(source[s])
    /\ pc[s] \in {"rename_package", "replace_runtime"} =>
          stagingRuntime = Whole(source[s])
    /\ pc[s] = "compare" => (runtime = None) = (package = None)
    /\ pc[s] = "replace_runtime" => package = Whole(source[s])
    /\ pc[s] = "verify" => runtime = Whole(source[s])

\* runtime.yaml and package are one release's, and complete, from the moment
\* that runtime.yaml is there.
RuntimeHasPackage ==
    runtime = None \/ \E r \in Releases : runtime = Whole(r) /\ package = Whole(r)

\* The Relay starts once its stager has ended well: what that run read from its
\* checkout is then on the volume, whole, and stays there.
SuccessIsStaged ==
    \A s \in Stagers : outcome[s] = "staged" =>
        runtime = Whole(source[s]) /\ package = Whole(source[s])

\* One run at a time has the volume, and it is prepared for what the run is at.
StagerInv ==
    /\ TypeOK
    /\ \A s \in Stagers : Prepared(s)
    /\ RuntimeHasPackage
    /\ SuccessIsStaged

\* As long as no run was cut short, whatever runs at once, a run only fails
\* because another release is staged already.
FailuresExplained ==
    ~aborted => \A s \in Stagers : outcome[s] = "failed" =>
        \E r \in Releases \ {source[s]} : runtime = Whole(r)

\* What a Relay that looks at its volume finds.
Found ==
    IF runtime.st = "none" THEN Nothing
    ELSE IF runtime.st = "whole" /\ package.st = "whole"
         THEN <<runtime.rel, package.rel>>
         ELSE <<Nothing, Nothing>>

Revealed == INSTANCE StagedRelease WITH visible <- Found

\* The volume of the Relay holds one release, revealed once and in one step.
RevealsOnce == Revealed!Spec

\* No run is left waiting: whoever holds the lock gives it back.
RunsEnd == \A s \in Stagers : pc[s] = "lock" ~> pc[s] = "idle"
=============================================================================
