------------------------- MODULE RelayStager_proofs -------------------------
(***************************************************************************)
(* Theorems about RelayStager, for any number of runs and releases.        *)
(***************************************************************************)
EXTENDS RelayStager, TLAPS

USE DEF RecoverySteps, WriteSteps, LockedSteps, volume, None, Torn, Whole

\* The entries of the volume are told apart by their state and release.
LEMMA EntryFacts ==
    /\ None \in Entry
    /\ \A r \in Releases :
          Torn(r) \in Entry /\ Whole(r) \in Entry /\ Whole(r) # None
    /\ \A e \in Entry : /\ e.st = "none" <=> e = None
                        /\ e.st = "whole" => e.rel \in Releases /\ e = Whole(e.rel)
                        /\ e.st = "torn" => e.rel \in Releases
<1>1. \A r \in Releases : Torn(r) \in Entry /\ Whole(r) \in Entry
  BY DEF Entry
<1>2. \A r \in Releases : Whole(r).st = "whole"
  OBVIOUS
<1>3. None \in Entry /\ None.st = "none"
  BY DEF Entry
<1>4. ASSUME NEW e \in Entry
      PROVE  /\ e.st = "none" <=> e = None
             /\ e.st = "whole" => e.rel \in Releases /\ e = Whole(e.rel)
             /\ e.st = "torn" => e.rel \in Releases
  <2>1. CASE e = None
    BY <2>1
  <2>2. CASE \E r \in Releases : e = Torn(r)
    BY <2>2
  <2>3. CASE \E r \in Releases : e = Whole(r)
    BY <2>3
  <2>. QED BY <2>1, <2>2, <2>3 DEF Entry
<1>. QED BY <1>1, <1>2, <1>3, <1>4

\* A run that does not hold the lock can neither write nor be disturbed.
LEMMA Holder ==
    ASSUME StagerInv, NEW s \in Stagers, NEW u \in Stagers, s # u,
           pc[s] \in LockedSteps
    PROVE  pc[u] \notin LockedSteps /\ lock # u
BY DEF StagerInv, Prepared

\* Every step of one run leaves the others where they are.
LEMMA OthersStay ==
    ASSUME StagerInv, NEW s \in Stagers, Start(s) \/ Run(s) \/ Abort(s)
    PROVE  \A u \in Stagers \ {s} :
              pc'[u] = pc[u] /\ source'[u] = source[u] /\ outcome'[u] = outcome[u]
BY DEF StagerInv, TypeOK, Start, Run, Abort, Acquire, Recover, DropStaging,
       UnlinkStaging, RecoverActive, DropPackage, Compare, MakePackage,
       FillPackage, MakeRuntime, FillRuntime, RenamePackage, ReplaceRuntime,
       Verify, Goto, Fail, End

\* Every step keeps the types.
LEMMA StepType == StagerInv /\ [Next]_vars => TypeOK'
<1> SUFFICES ASSUME StagerInv, [Next]_vars PROVE TypeOK'
  OBVIOUS
<1>0. TypeOK
  BY DEF StagerInv
<1>1. ASSUME NEW s \in Stagers, Start(s) \/ Acquire(s) \/ Abort(s) \/ Verify(s)
      PROVE  TypeOK'
  <2>1. CASE Start(s) \/ Acquire(s)
    BY <1>0, <2>1 DEF TypeOK, Start, Acquire
  <2>2. CASE Abort(s)
    BY <1>0, <2>2 DEF TypeOK, Abort, End
  <2>3. CASE Verify(s)
    BY <1>0, <2>3 DEF TypeOK, Verify, End
  <2>. QED BY <1>1, <2>1, <2>2, <2>3
<1>2. ASSUME NEW s \in Stagers, Recover(s) \/ DropStaging(s) \/ UnlinkStaging(s)
      PROVE  TypeOK'
  <2>1. CASE Recover(s)
    <3>1. /\ stagingPackage' \in Entry
          /\ UNCHANGED <<stagingRuntime, package, runtime, source, aborted>>
      BY <1>0, <2>1, EntryFacts DEF TypeOK, Recover, Goto, Fail, End
    <3>2. /\ lock' \in Stagers \cup {Nobody}
          /\ pc' \in [Stagers -> {"idle", "lock"} \cup LockedSteps]
          /\ outcome' \in [Stagers -> {"none", "staged", "failed"}]
      BY <1>0, <2>1 DEF TypeOK, Recover, Goto, Fail, End
    <3>. QED BY <1>0, <3>1, <3>2 DEF TypeOK
  <2>2. CASE DropStaging(s) \/ UnlinkStaging(s)
    BY <1>0, <2>2, EntryFacts DEF TypeOK, DropStaging, UnlinkStaging, Goto
  <2>. QED BY <1>2, <2>1, <2>2
<1>3. ASSUME NEW s \in Stagers, RecoverActive(s) \/ DropPackage(s)
      PROVE  TypeOK'
  BY <1>0, <1>3, EntryFacts
  DEF TypeOK, RecoverActive, DropPackage, Goto, Fail, End
<1>4. ASSUME NEW s \in Stagers, Compare(s) PROVE TypeOK'
  BY <1>0, <1>4 DEF TypeOK, Compare, Goto, Fail, End
<1>5. ASSUME NEW s \in Stagers,
             \/ MakePackage(s) \/ FillPackage(s) \/ MakeRuntime(s)
             \/ FillRuntime(s) \/ RenamePackage(s) \/ ReplaceRuntime(s)
      PROVE  TypeOK'
  <2>1. /\ source[s] \in Releases
        /\ stagingPackage \in Entry /\ stagingRuntime \in Entry
        /\ None \in Entry
        /\ Torn(source[s]) \in Entry /\ Whole(source[s]) \in Entry
    BY <1>0, <1>5, EntryFacts
    DEF TypeOK, StagerInv, Prepared, MakePackage, FillPackage, MakeRuntime,
                FillRuntime, RenamePackage, ReplaceRuntime, Goto
  <2>2. UNCHANGED <<lock, source, outcome, aborted>>
    BY <1>5 DEF MakePackage, FillPackage, MakeRuntime, FillRuntime,
                RenamePackage, ReplaceRuntime, Goto
  <2>3. pc' \in [Stagers -> {"idle", "lock"} \cup LockedSteps]
    BY <1>0, <1>5
    DEF TypeOK, MakePackage, FillPackage, MakeRuntime, FillRuntime,
        RenamePackage, ReplaceRuntime, Goto
  <2>4. /\ stagingPackage' \in Entry /\ stagingRuntime' \in Entry
        /\ package' \in Entry /\ runtime' \in Entry
    <3>. USE DEF TypeOK
    <3>. HIDE DEF None, Torn, Whole
    <3>. QED BY <1>0, <1>5, <2>1
             DEF MakePackage, FillPackage, MakeRuntime, FillRuntime,
                 RenamePackage, ReplaceRuntime
  <2>. QED BY <1>0, <2>2, <2>3, <2>4 DEF TypeOK
<1>6. ASSUME UNCHANGED vars PROVE TypeOK'
  BY <1>0, <1>6 DEF TypeOK, vars
<1>. QED BY <1>1, <1>2, <1>3, <1>4, <1>5, <1>6 DEF Next, Run

\* Only a run that has the lock changes the volume.
LEMMA VolumeIsLocked ==
    ASSUME StagerInv, NEW s \in Stagers, Start(s) \/ Run(s) \/ Abort(s),
           volume' # volume
    PROVE  pc[s] \in LockedSteps
BY DEF Start, Run, Abort, Acquire, Recover, DropStaging, UnlinkStaging,
       RecoverActive, DropPackage, Compare, MakePackage, FillPackage,
       MakeRuntime, FillRuntime, RenamePackage, ReplaceRuntime, Verify, Goto,
       Fail

\* A run finds the volume as its next step needs it.
LEMMA OwnPrepared ==
    ASSUME StagerInv, NEW s \in Stagers, Start(s) \/ Run(s) \/ Abort(s)
    PROVE  Prepared(s)'
<1>0. TypeOK /\ Prepared(s) /\ RuntimeHasPackage
  BY DEF StagerInv
<1>1. CASE Start(s) \/ Abort(s) \/ Acquire(s) \/ Verify(s)
  BY <1>0, <1>1 DEF TypeOK, Prepared, Start, Abort, Acquire, Verify, End
<1>2. CASE Recover(s) \/ DropStaging(s) \/ UnlinkStaging(s)
  BY <1>0, <1>2
  DEF TypeOK, Prepared, Recover, DropStaging, UnlinkStaging, Goto, Fail, End
<1>3. CASE RecoverActive(s)
  BY <1>0, <1>3, EntryFacts
  DEF TypeOK, Prepared, RuntimeHasPackage, RecoverActive, Goto, Fail, End
<1>4. CASE DropPackage(s)
  BY <1>0, <1>4 DEF TypeOK, Prepared, DropPackage, Goto
<1>5. CASE Compare(s)
  BY <1>0, <1>5, EntryFacts DEF TypeOK, Prepared, Compare, Goto, Fail, End
<1>6. CASE MakePackage(s) \/ FillPackage(s) \/ MakeRuntime(s) \/ FillRuntime(s)
  BY <1>0, <1>6
  DEF TypeOK, Prepared, MakePackage, FillPackage, MakeRuntime, FillRuntime, Goto
<1>7. CASE RenamePackage(s) \/ ReplaceRuntime(s)
  BY <1>0, <1>7 DEF TypeOK, Prepared, RenamePackage, ReplaceRuntime, Goto
<1>. QED BY <1>1, <1>2, <1>3, <1>4, <1>5, <1>6, <1>7 DEF Run

\* No other run is disturbed, as it is not past the lock when the volume changes.
LEMMA OthersPrepared ==
    ASSUME StagerInv, NEW s \in Stagers, NEW u \in Stagers \ {s},
           Start(s) \/ Run(s) \/ Abort(s)
    PROVE  Prepared(u)'
<1>0. /\ Prepared(u) /\ pc'[u] = pc[u] /\ source'[u] = source[u]
      /\ outcome'[u] = outcome[u]
  BY OthersStay DEF StagerInv
<1>1. pc[u] \in {"idle", "lock"} \cup LockedSteps
  BY DEF StagerInv, TypeOK
<1>2. CASE pc[u] \in {"idle", "lock"}
  BY <1>0, <1>2 DEF Prepared
<1>3. CASE pc[u] \in LockedSteps
  <2>1. pc[s] \notin LockedSteps /\ lock = u
    BY <1>0, <1>3, Holder DEF Prepared
  <2>2. UNCHANGED volume
    BY <2>1, VolumeIsLocked
  <2>3. lock' = u
    BY <2>1, NobodyAssumption
    DEF Start, Run, Abort, Acquire, Recover, DropStaging, UnlinkStaging,
        RecoverActive, DropPackage, Compare, MakePackage, FillPackage,
        MakeRuntime, FillRuntime, RenamePackage, ReplaceRuntime, Verify, Goto,
        Fail, End
  <2>. QED BY <1>0, <2>2, <2>3 DEF Prepared
<1>. QED BY <1>1, <1>2, <1>3

\* runtime.yaml is revealed by one step, over a package of the same release, and
\* nothing touches either after that.
LEMMA RevealOnly ==
    ASSUME StagerInv, NEW s \in Stagers, Start(s) \/ Run(s) \/ Abort(s)
    PROVE  \/ runtime = None /\ runtime' = None
           \/ runtime # None /\ UNCHANGED <<runtime, package>>
           \/ /\ runtime = None
              /\ \E r \in Releases : runtime' = Whole(r) /\ package' = Whole(r)
<1>0. TypeOK /\ Prepared(s) /\ RuntimeHasPackage
  BY DEF StagerInv
<1>1. CASE ReplaceRuntime(s)
  BY <1>0, <1>1 DEF Prepared, ReplaceRuntime, Goto
<1>2. CASE RecoverActive(s)
  BY <1>0, <1>2, EntryFacts DEF TypeOK, RecoverActive, Goto, Fail
<1>3. CASE DropPackage(s) \/ RenamePackage(s)
  BY <1>0, <1>3 DEF Prepared, DropPackage, RenamePackage, Goto
<1>4. CASE UNCHANGED <<runtime, package>>
  BY <1>4
<1>5. \/ ReplaceRuntime(s) \/ RecoverActive(s)
      \/ DropPackage(s) \/ RenamePackage(s)
      \/ UNCHANGED <<runtime, package>>
  BY DEF Start, Run, Abort, Acquire, Recover, DropStaging, UnlinkStaging,
         Compare, MakePackage, FillPackage, MakeRuntime, FillRuntime, Verify,
         Fail
<1>. QED BY <1>1, <1>2, <1>3, <1>4, <1>5

\* A run that ends well leaves behind what it has read.
LEMMA OwnSuccess ==
    ASSUME StagerInv, NEW s \in Stagers, Start(s) \/ Run(s) \/ Abort(s),
           outcome'[s] = "staged"
    PROVE  runtime' = Whole(source'[s]) /\ package' = Whole(source'[s])
<1>0. TypeOK /\ Prepared(s) /\ RuntimeHasPackage
  BY DEF StagerInv
<1>1. CASE Verify(s)
  BY <1>0, <1>1, EntryFacts
  DEF TypeOK, Prepared, RuntimeHasPackage, Verify, End
<1>2. CASE Compare(s)
  BY <1>0, <1>2 DEF TypeOK, Prepared, Compare, Goto, Fail, End
<1>3. CASE Start(s) \/ Abort(s)
  BY <1>0, <1>3 DEF TypeOK, Start, Abort, End
<1>4. CASE \/ Acquire(s) \/ Recover(s) \/ DropStaging(s) \/ UnlinkStaging(s)
           \/ RecoverActive(s) \/ DropPackage(s)
           \/ MakePackage(s) \/ FillPackage(s) \/ MakeRuntime(s)
           \/ FillRuntime(s) \/ RenamePackage(s) \/ ReplaceRuntime(s)
  BY <1>0, <1>4
  DEF TypeOK, Prepared, Acquire, Recover, DropStaging, UnlinkStaging,
      RecoverActive, DropPackage, MakePackage, FillPackage, MakeRuntime,
      FillRuntime, RenamePackage, ReplaceRuntime, Goto, Fail, End
<1>. QED BY <1>1, <1>2, <1>3, <1>4 DEF Run

\* Fresh volumes are prepared for any run.
LEMMA StagerInvInit == Init => StagerInv
<1> SUFFICES ASSUME Init PROVE StagerInv
  OBVIOUS
<1>1. TypeOK
  BY EntryFacts DEF Init, TypeOK
<1>2. \A s \in Stagers : Prepared(s)
  BY DEF Init, Prepared
<1>3. RuntimeHasPackage /\ SuccessIsStaged
  BY DEF Init, RuntimeHasPackage, SuccessIsStaged
<1>. QED BY <1>1, <1>2, <1>3 DEF StagerInv

\* Every step leaves the volume prepared for the run that has it.
LEMMA StagerInvStep ==
    ASSUME StagerInv, [Next]_vars
    PROVE  StagerInv'
<1>1. TypeOK'
  BY StepType
<1>2. ASSUME NEW s \in Stagers, Start(s) \/ Run(s) \/ Abort(s)
      PROVE  StagerInv'
  <2>1. \A u \in Stagers : Prepared(u)'
    BY <1>2, OwnPrepared, OthersPrepared
  <2>2. RuntimeHasPackage'
    BY <1>2, RevealOnly DEF StagerInv, RuntimeHasPackage
  <2>3. SuccessIsStaged'
    <3>1. ASSUME NEW u \in Stagers \ {s}, outcome'[u] = "staged"
          PROVE  runtime' = Whole(source'[u]) /\ package' = Whole(source'[u])
      <4>1. /\ outcome[u] = "staged" /\ source'[u] = source[u]
            /\ runtime = Whole(source[u]) /\ package = Whole(source[u])
            /\ runtime.st = "whole"
        BY <1>2, <3>1, OthersStay DEF StagerInv, SuccessIsStaged
      <4>2. UNCHANGED <<runtime, package>>
        BY <1>2, <4>1, RevealOnly, EntryFacts
      <4>. QED BY <4>1, <4>2
    <3>. QED BY <1>2, <3>1, OwnSuccess DEF SuccessIsStaged
  <2>. QED BY <1>1, <2>1, <2>2, <2>3 DEF StagerInv
<1>3. CASE UNCHANGED vars
  BY <1>1, <1>3 DEF StagerInv, Prepared, RuntimeHasPackage, SuccessIsStaged,
                    vars
<1>. QED BY <1>2, <1>3 DEF Next

\* The inductive invariant: types, one run on the volume at a time, and the
\* volume prepared for it.
THEOREM StagerInvHolds == Spec => []StagerInv
<1>1. StagerInv /\ [Next]_vars => StagerInv'
  BY StagerInvStep
<1>. QED BY <1>1, StagerInvInit, PTL DEF Spec

\* A run that reported success has its release, whole, on the volume for good.
THEOREM SuccessStays == Spec => []SuccessIsStaged
<1>1. StagerInv => SuccessIsStaged
  BY DEF StagerInv
<1>. QED BY <1>1, StagerInvHolds, PTL

\* For any number of overlapping, killed and repeated runs, the volume implements
\* the register that reveals one release, once: the abstract specification.
THEOREM StagerRevealsOnce == Spec => RevealsOnce
<1>1. Init => Revealed!Init
  BY DEF Init, Revealed!Init, Found
<1>2. StagerInv /\ [Next]_vars => [Revealed!Next]_Found
  <2> SUFFICES ASSUME StagerInv, [Next]_vars
               PROVE  [Revealed!Next]_Found
    OBVIOUS
  <2>1. CASE UNCHANGED vars
    BY <2>1 DEF vars, Found
  <2>2. ASSUME NEW s \in Stagers, Start(s) \/ Run(s) \/ Abort(s)
        PROVE  [Revealed!Next]_Found
    <3>1. CASE UNCHANGED <<runtime, package>> \/ (runtime = None /\ runtime' = None)
      BY <3>1 DEF Found
    <3>2. CASE /\ runtime = None
               /\ \E r \in Releases : runtime' = Whole(r) /\ package' = Whole(r)
      BY <3>2 DEF Found, Revealed!Next, Revealed!Reveal
    <3>. QED BY <2>2, <3>1, <3>2, RevealOnly
  <2>. QED BY <2>1, <2>2 DEF Next
<1>. QED BY <1>1, <1>2, StagerInvHolds, PTL DEF Spec, RevealsOnce, Revealed!Spec

-----------------------------------------------------------------------------
(* No run cut short: what the runs leave on the volume is never half done  *)

\* Between runs there is no staging package, and a package goes with a runtime;
\* only the run that is staging has them otherwise.
Tidy ==
    /\ \A s \in Stagers : pc[s] \notin {"drop_staging", "drop_package"}
    /\ \/ stagingPackage = None
       \/ \E s \in Stagers : pc[s] \in {"fill_package", "make_runtime",
                                        "fill_runtime", "rename_package"}
    /\ \/ (runtime = None) = (package = None)
       \/ \E s \in Stagers : pc[s] = "replace_runtime"

\* The strengthening that makes FailuresExplained inductive.
UncutInv == StagerInv /\ (~aborted => Tidy /\ FailuresExplained)

\* No run cut short: every step leaves the volume tidy.
LEMMA TidyKept ==
    ASSUME StagerInv, Tidy, NEW s \in Stagers, Start(s) \/ Run(s)
    PROVE  Tidy'
<1>0. /\ TypeOK /\ Prepared(s)
      /\ pc \in [Stagers -> {"idle", "lock"} \cup LockedSteps]
  BY DEF StagerInv, TypeOK
<1>1. \A u \in Stagers \ {s} : pc'[u] = pc[u]
  BY OthersStay
<1>2. pc[s] \in LockedSteps => \A u \in Stagers \ {s} : pc[u] \notin LockedSteps
  BY Holder
<1>3. CASE Start(s) \/ Acquire(s)
  <2>1. /\ pc[s] \in {"idle", "lock"} /\ pc'[s] \in {"lock", "recover"}
        /\ UNCHANGED volume
    BY <1>0, <1>3 DEF Start, Acquire
  <2>. QED BY <1>0, <1>1, <2>1 DEF Tidy
<1>4. CASE Recover(s) \/ UnlinkStaging(s) \/ RecoverActive(s)
  <2>1. stagingPackage = None /\ (runtime = None) = (package = None)
    BY <1>2, <1>4 DEF Tidy, Recover, UnlinkStaging, RecoverActive, Goto, Fail
  <2>2. /\ pc'[s] \in {"idle", "unlink_staging", "recover_active", "compare"}
        /\ UNCHANGED <<stagingPackage, package, runtime>>
    BY <1>0, <1>4, <2>1, EntryFacts
    DEF TypeOK, Recover, UnlinkStaging, RecoverActive, Goto, Fail, End
  <2>. QED BY <1>1, <2>1, <2>2 DEF Tidy
<1>5. CASE DropStaging(s) \/ DropPackage(s)
  BY <1>5 DEF DropStaging, DropPackage, Goto, Tidy
<1>6. CASE Compare(s) \/ Verify(s)
  <2>1. stagingPackage = None /\ (runtime = None) = (package = None)
    BY <1>2, <1>6 DEF Tidy, Compare, Verify, Goto, Fail
  <2>2. /\ pc'[s] \in {"idle", "make_package"}
        /\ UNCHANGED <<stagingPackage, package, runtime>>
    BY <1>0, <1>6 DEF Compare, Verify, Goto, Fail, End
  <2>. QED BY <1>1, <2>1, <2>2 DEF Tidy
<1>7. CASE MakePackage(s) \/ FillPackage(s) \/ MakeRuntime(s) \/ FillRuntime(s)
  <2>1. (runtime = None) = (package = None)
    BY <1>2, <1>7 DEF Tidy, MakePackage, FillPackage, MakeRuntime, FillRuntime, Goto
  <2>2. /\ pc'[s] \in {"fill_package", "make_runtime", "fill_runtime",
                       "rename_package"}
        /\ UNCHANGED <<package, runtime>>
    BY <1>0, <1>7 DEF MakePackage, FillPackage, MakeRuntime, FillRuntime, Goto
  <2>. QED BY <1>1, <2>1, <2>2 DEF Tidy
<1>8. CASE RenamePackage(s)
  BY <1>0, <1>1, <1>8 DEF Tidy, RenamePackage, Goto
<1>9. CASE ReplaceRuntime(s)
  <2>1. /\ stagingPackage = None /\ package # None /\ stagingRuntime # None
    BY <1>0, <1>2, <1>9, EntryFacts DEF Tidy, ReplaceRuntime, Prepared, Goto
  <2>2. /\ pc'[s] = "verify" /\ runtime' = stagingRuntime
        /\ UNCHANGED <<stagingPackage, package>>
    BY <1>0, <1>9 DEF ReplaceRuntime, Goto
  <2>. QED BY <1>1, <2>1, <2>2 DEF Tidy
<1>. QED BY <1>3, <1>4, <1>5, <1>6, <1>7, <1>8, <1>9 DEF Run

\* No run cut short: a run that fails finds another release staged.
LEMMA OwnFailure ==
    ASSUME StagerInv, Tidy, NEW s \in Stagers, Start(s) \/ Run(s),
           outcome'[s] = "failed", pc[s] # "idle"
    PROVE  \E r \in Releases \ {source'[s]} : runtime' = Whole(r)
<1>0. TypeOK /\ Prepared(s) /\ RuntimeHasPackage
  BY DEF StagerInv
<1>2. pc[s] \in LockedSteps => \A u \in Stagers \ {s} : pc[u] \notin LockedSteps
  BY Holder
<1>3. CASE Compare(s)
  <2>1. /\ runtime # Whole(source[s]) \/ package # Whole(source[s])
        /\ runtime.st # "none" /\ UNCHANGED <<runtime, source>>
    BY <1>0, <1>3 DEF TypeOK, Prepared, Compare, Goto, Fail, End
  <2>2. runtime # None
    BY <2>1
  <2>. QED BY <1>0, <2>1, <2>2 DEF RuntimeHasPackage
<1>4. CASE Verify(s)
  <2>1. /\ runtime = Whole(source[s]) /\ source[s] \in Releases
    BY <1>0, <1>4 DEF Verify, Prepared
  <2>2. runtime.st = "whole" /\ package.st = "whole"
    <3>1. runtime # None
      BY <2>1, EntryFacts
    <3>2. PICK r \in Releases : runtime = Whole(r) /\ package = Whole(r)
      BY <1>0, <3>1 DEF RuntimeHasPackage
    <3>. QED BY <3>2
  <2>. QED BY <1>0, <1>4, <2>2 DEF TypeOK, Verify, End
<1>5. CASE Recover(s) \/ RecoverActive(s)
  <2>1. stagingPackage = None /\ (runtime = None) = (package = None)
    BY <1>2, <1>5 DEF Tidy, Recover, RecoverActive, Goto, Fail
  <2>2. outcome' = outcome
    BY <1>0, <1>5, <2>1, EntryFacts
    DEF TypeOK, Recover, RecoverActive, Goto, Fail
  <2>. QED BY <1>0, <1>5, <2>2 DEF Prepared, Recover, RecoverActive, Goto, Fail
<1>6. CASE \/ Start(s) \/ Acquire(s) \/ DropStaging(s) \/ UnlinkStaging(s)
           \/ DropPackage(s)
           \/ MakePackage(s) \/ FillPackage(s) \/ MakeRuntime(s)
           \/ FillRuntime(s) \/ RenamePackage(s) \/ ReplaceRuntime(s)
  BY <1>0, <1>6
  DEF Prepared, Start, Acquire, DropStaging, UnlinkStaging, DropPackage,
      MakePackage, FillPackage, MakeRuntime, FillRuntime, RenamePackage,
      ReplaceRuntime, Goto
<1>. QED BY <1>3, <1>4, <1>5, <1>6 DEF Run

\* For any number of overlapping runs none of which was cut short, a run fails
\* only because another release is staged already.
THEOREM FailuresStayExplained == Spec => []FailuresExplained
<1>1. Init => UncutInv
  <2> SUFFICES ASSUME Init PROVE UncutInv
    OBVIOUS
  <2>1. StagerInv
    BY StagerInvInit
  <2>. QED BY <2>1 DEF Init, UncutInv, Tidy, FailuresExplained
<1>2. UncutInv /\ [Next]_vars => UncutInv'
  <2> SUFFICES ASSUME UncutInv, [Next]_vars PROVE UncutInv'
    OBVIOUS
  <2>1. StagerInv /\ StagerInv'
    BY StagerInvStep DEF UncutInv
  <2>2. ASSUME NEW s \in Stagers, Abort(s) PROVE UncutInv'
    BY <2>1, <2>2 DEF UncutInv, Abort
  <2>3. ASSUME NEW s \in Stagers, Start(s) \/ Run(s), ~aborted'
        PROVE  Tidy' /\ FailuresExplained'
    <3>1. aborted' = aborted
      BY <2>3
      DEF Start, Run, Acquire, Recover, DropStaging, UnlinkStaging,
          RecoverActive, DropPackage, Compare, MakePackage, FillPackage,
          MakeRuntime, FillRuntime, RenamePackage, ReplaceRuntime, Verify,
          Goto, Fail
    <3>2. Tidy /\ FailuresExplained
      BY <2>3, <3>1 DEF UncutInv
    <3>3. ASSUME NEW u \in Stagers \ {s}, outcome'[u] = "failed"
          PROVE  \E r \in Releases \ {source'[u]} : runtime' = Whole(r)
      <4>1. outcome[u] = "failed" /\ source'[u] = source[u]
        BY <2>1, <2>3, <3>3, OthersStay
      <4>2. PICK r \in Releases \ {source[u]} : runtime = Whole(r)
        BY <2>3, <3>1, <3>2, <4>1 DEF FailuresExplained
      <4>3. runtime' = runtime
        BY <2>1, <2>3, <4>2, RevealOnly, EntryFacts
      <4>. QED BY <4>1, <4>2, <4>3
    <3>4. outcome'[s] = "failed" =>
              \E r \in Releases \ {source'[s]} : runtime' = Whole(r)
      <4>1. CASE pc[s] = "idle"
        <5>1. Start(s)
          BY <2>3, <4>1
          DEF Run, Acquire, Recover, DropStaging, UnlinkStaging,
              RecoverActive, DropPackage, Compare, MakePackage, FillPackage,
              MakeRuntime, FillRuntime, RenamePackage, ReplaceRuntime, Verify,
              Goto, Fail
        <5>. QED BY <2>1, <5>1 DEF Start, StagerInv, TypeOK
      <4>2. CASE pc[s] # "idle"
        BY <2>1, <2>3, <3>2, <4>2, OwnFailure
      <4>. QED BY <4>1, <4>2
    <3>5. Tidy'
      BY <2>1, <2>3, <3>2, TidyKept
    <3>. QED BY <3>3, <3>4, <3>5 DEF FailuresExplained
  <2>4. CASE UNCHANGED vars
    BY <2>1, <2>4 DEF UncutInv, Tidy, FailuresExplained, vars
  <2>. QED BY <2>1, <2>2, <2>3, <2>4 DEF Next, UncutInv
<1>3. UncutInv => FailuresExplained
  BY DEF UncutInv, FailuresExplained
<1>. QED BY <1>1, <1>2, <1>3, PTL DEF Spec
=============================================================================
