------------------------- MODULE LocalStack_proofs -------------------------
(***************************************************************************)
(* Theorems about the local stack: first about LocalRuntime, for any       *)
(* cells, authorities and bounds, and for recipes that are killed anywhere *)
(* and repeated in any order; then about TransitSupervisor beside it, for  *)
(* any cells and any pids, wherever proxies die, and whatever recipes are  *)
(* run.                                                                    *)
(***************************************************************************)
EXTENDS TransitSupervisor, TLAPS

-----------------------------------------------------------------------------
(* The recipes: the inductive invariant *)

Remaining == {todo[i] : i \in DOMAIN todo}

\* Extracts appear whole; a key that is whole was made, and is public in a cell only.
Sound ==
    /\ \A a \in Readers, t \in Times : file[a][t] # "torn"
    /\ \A c \in Places : /\ keyfile[c] = "whole" => made[c] > 0
                         /\ public[c] # 0 => cell[c]

\* What the recipe has built so far carries the present keys.
Built ==
    /\ step # "idle" => recipe \in Recipes
    /\ step \in {"build", "sign"} =>
          \A c \in Places : c \in Remaining \/ (keyfile[c] = "whole" /\ public[c] = made[c])
    /\ step = "sign" => cell[Head(todo)]
    /\ step = "project" => KeysMatch
    /\ step = "check" /\ recipe # "prepare-runtime" => KeysMatch /\ projected

\* Where extracts are planned, published and bound, all else is ready.
Settled ==
    step \in {"plan", "publish", "rebind"} =>
        /\ recipe # "generate"
        /\ KeysMatch
        /\ recipe = "prepare" => projected

\* What was planned is published first, and bound afterwards.
Planned ==
    /\ step \in {"publish", "rebind"} =>
          \A a \in Readers : cell[a] /\ target[a] <= time /\ time - target[a] <= MaxAge
    /\ step = "publish" =>
          \A a \in Readers : a \in Remaining \/ file[a][target[a]] = "whole"
    /\ step = "rebind" =>
          \A a \in Readers : /\ file[a][target[a]] = "whole"
                             /\ a \in Remaining \/ bound[a] = target[a]

RuntimeInv == RuntimeTypeOK /\ Sound /\ BoundExtractsWhole /\ Built /\ Settled /\ Planned

\* What the constants are, as the steps need it.
LEMMA Constants ==
    /\ Cells \in Seq(Places) /\ <<>> \in Seq(Places)
    /\ Authorities \in Seq(Places)
    /\ 0 \in Times
    /\ MaxTime \in Nat /\ MaxAge \in Nat
    /\ Readers \subseteq Places
<1>1. Authorities \in Seq(Places)
  BY CellsAssumption
<1>2. QED
  BY <1>1, CellsAssumption, BoundsAssumption DEF Times

\* What is left of a list after its first element.
LEMMA HeadTail ==
    ASSUME NEW list \in Seq(Places), list # <<>>
    PROVE  /\ Head(list) \in Places
           /\ Tail(list) \in Seq(Places)
           /\ \A i \in DOMAIN list : list[i] = Head(list)
                 \/ \E j \in DOMAIN Tail(list) : Tail(list)[j] = list[i]
<1>1. /\ Head(list) \in Places /\ Tail(list) \in Seq(Places)
      /\ Len(Tail(list)) = Len(list) - 1
      /\ \A j \in 1 .. Len(Tail(list)) : Tail(list)[j] = list[j + 1]
  OBVIOUS
<1>2. ASSUME NEW i \in DOMAIN list, i # 1
      PROVE  \E j \in DOMAIN Tail(list) : Tail(list)[j] = list[i]
  <2>1. i - 1 \in DOMAIN Tail(list) /\ Tail(list)[i - 1] = list[i]
    BY <1>1, <1>2
  <2>2. QED
    BY <2>1
<1>3. QED
  BY <1>1, <1>2

-----------------------------------------------------------------------------
(* Types *)

LEMMA RuntimeInitTypeOK == RuntimeInit => RuntimeTypeOK
<1> SUFFICES ASSUME RuntimeInit PROVE RuntimeTypeOK
  OBVIOUS
<1> USE Constants DEF RuntimeInit
<1>1. file \in [Readers -> [Times -> FileStates]]
  BY DEF FileStates
<1>2. /\ target \in [Readers -> Times] /\ bound \in [Readers -> Times]
      /\ todo \in Seq(Places)
  BY DEF NoTarget
<1>3. QED
  BY <1>1, <1>2 DEF RuntimeTypeOK, Steps, FileStates

\* A step of a recipe either leaves its progress as it is, goes on, or ends it.
LEMMA RuntimeNextTypeOK == RuntimeTypeOK /\ [RuntimeNext]_runtimeVars => RuntimeTypeOK'
<1> SUFFICES ASSUME RuntimeTypeOK, [RuntimeNext]_runtimeVars PROVE RuntimeTypeOK'
  OBVIOUS
<1> USE Constants DEF RuntimeTypeOK, tree, run, Steps, Recipes, FileStates
<1>t. todo # <<>> => Head(todo) \in Places /\ Tail(todo) \in Seq(Places)
  BY HeadTail
<1>0. CASE UNCHANGED runtimeVars
  BY <1>0 DEF runtimeVars
<1>1. ASSUME NEW r \in Recipes, Begin(r) PROVE RuntimeTypeOK'
  BY <1>1 DEF Begin
<1>2. CASE KeepKey
  BY <1>2, <1>t DEF KeepKey, At, Goto
<1>3. CASE OpenKey
  BY <1>3, <1>t DEF OpenKey, At, Goto
<1>4. CASE WriteKey
  <2>1. /\ keyfile' \in [Places -> FileStates] /\ made' \in [Places -> Nat]
        /\ step' = "secrets" /\ todo' \in Seq(Places)
    BY <1>4, <1>t DEF WriteKey, At, Goto
  <2>2. UNCHANGED <<tree, file, recipe, time, target, outcome>>
    BY <1>4 DEF WriteKey, Goto
  <2>3. QED
    BY <2>1, <2>2
<1>5. CASE SecretsDone
  BY <1>5 DEF SecretsDone, Goto
<1>6. CASE RemoveRoot
  BY <1>6 DEF RemoveRoot, Goto
<1>7. CASE CopyCell
  BY <1>7, <1>t DEF CopyCell, At, Goto
<1>8. CASE WritePublicKey
  BY <1>8, <1>t DEF WritePublicKey, At, Goto
<1>9. CASE BuildFails
  BY <1>9 DEF BuildFails, End, NoTarget
<1>10. CASE BuildDone
  BY <1>10 DEF BuildDone, Goto
<1>11. CASE Project
  BY <1>11 DEF Project, Goto
<1>12. CASE Check
  BY <1>12 DEF Check, StartPlan, End, NoTarget
<1>13. ASSUME NEW c \in Places, RemoveCell(c) PROVE RuntimeTypeOK'
  BY <1>13 DEF RemoveCell
<1>14. ASSUME NEW c \in Places, Discard(c) PROVE RuntimeTypeOK'
  BY <1>14 DEF Discard
<1>15. CASE Plan
  <2>1. target' \in [Readers -> Times]
    BY <1>15 DEF Plan, Selected
  <2>2. QED
    BY <1>15, <2>1 DEF Plan
<1>16. CASE PlanRefuses
  BY <1>16 DEF PlanRefuses, End, NoTarget
<1>17. CASE Publish
  BY <1>17, <1>t DEF Publish, At, Goto
<1>18. CASE PublishDone
  BY <1>18 DEF PublishDone, Goto
<1>19. CASE Rebind
  BY <1>19, <1>t DEF Rebind, At, Goto
<1>20. CASE RebindDone
  BY <1>20 DEF RebindDone, End, NoTarget
<1>21. CASE Kill
  BY <1>21 DEF Kill, End, NoTarget
<1>22. QED
  BY <1>0, <1>1, <1>2, <1>3, <1>4, <1>5, <1>6, <1>7, <1>8, <1>9, <1>10, <1>11,
     <1>12, <1>13, <1>14, <1>15, <1>16, <1>17, <1>18, <1>19, <1>20, <1>21
  DEF RuntimeNext

\* Whatever was killed where, the checkout and a recipe keep to their types.
THEOREM RuntimeTypesKept == RuntimeSpec => []RuntimeTypeOK
BY RuntimeInitTypeOK, RuntimeNextTypeOK, PTL DEF RuntimeSpec

-----------------------------------------------------------------------------
(* What is prepared *)

Prepared == Sound /\ BoundExtractsWhole /\ Built /\ Settled /\ Planned

LEMMA RuntimeInitInv == RuntimeInit => RuntimeInv
<1> SUFFICES ASSUME RuntimeInit PROVE RuntimeInv
  OBVIOUS
<1>1. Sound
  BY DEF RuntimeInit, Sound
<1>2. BoundExtractsWhole /\ Built /\ Settled /\ Planned
  BY DEF RuntimeInit, BoundExtractsWhole, Built, Settled, Planned
<1>3. QED
  BY <1>1, <1>2, RuntimeInitTypeOK DEF RuntimeInv

\* A recipe that has ended, or was killed, promises nothing more.
LEMMA EndPrepared ==
    ASSUME RuntimeInv, NEW how, End(how), UNCHANGED <<keyfile, made, tree, file>>
    PROVE  Prepared'
<1>1. step' = "idle"
  BY DEF End
<1>2. Sound' /\ BoundExtractsWhole'
  BY DEF RuntimeInv, Sound, BoundExtractsWhole, tree
<1>3. Built' /\ Settled' /\ Planned'
  BY <1>1 DEF Built, Settled, Planned
<1>4. QED
  BY <1>2, <1>3 DEF Prepared

\* What is left when a list is taken up, worked off, or at its end.
LEMMA RemainingNext ==
    ASSUME RuntimeTypeOK
    PROVE  /\ todo = <<>> => Remaining = {}
           /\ todo' = Cells => \A c \in Places : c \in Remaining'
           /\ todo' = Authorities => \A a \in Readers : a \in Remaining'
           /\ todo # <<>> => Head(todo) \in Places
           /\ todo # <<>> /\ todo' = Tail(todo) =>
                \A c \in Remaining : c = Head(todo) \/ c \in Remaining'
<1>1. todo = <<>> => Remaining = {}
  BY DEF Remaining
<1>2. todo' = Cells => \A c \in Places : c \in Remaining'
  BY DEF Remaining, Places
<1>3. todo' = Authorities => \A a \in Readers : a \in Remaining'
  BY DEF Remaining, Readers
<1>4. todo \in Seq(Places)
  BY DEF RuntimeTypeOK
<1>5. ASSUME todo # <<>>, todo' = Tail(todo), NEW c \in Remaining
      PROVE  c = Head(todo) \/ c \in Remaining'
  <2>1. PICK i \in DOMAIN todo : c = todo[i]
    BY DEF Remaining
  <2>2. todo[i] = Head(todo) \/ \E j \in DOMAIN Tail(todo) : Tail(todo)[j] = todo[i]
    BY <1>4, <1>5, HeadTail
  <2>3. QED
    BY <1>5, <2>1, <2>2 DEF Remaining
<1>6. QED
  BY <1>1, <1>2, <1>3, <1>4, <1>5, HeadTail

\* Each step of a recipe keeps what the steps after it rely on.
LEMMA RuntimeNextPrepared ==
    RuntimeInv /\ [RuntimeNext]_runtimeVars => Prepared'
<1> SUFFICES ASSUME RuntimeInv, [RuntimeNext]_runtimeVars PROVE Prepared'
  OBVIOUS
<1>t. /\ RuntimeTypeOK /\ Sound /\ BoundExtractsWhole /\ Built /\ Settled /\ Planned
      /\ Readers \subseteq Places
  BY Constants DEF RuntimeInv
<1>l. /\ todo = <<>> => Remaining = {}
      /\ todo' = Cells => \A c \in Places : c \in Remaining'
      /\ todo' = Authorities => \A a \in Readers : a \in Remaining'
      /\ todo # <<>> => Head(todo) \in Places
      /\ todo # <<>> /\ todo' = Tail(todo) =>
           \A c \in Remaining : c = Head(todo) \/ c \in Remaining'
  BY <1>t, RemainingNext
<1>e. ASSUME NEW how, End(how), UNCHANGED <<keyfile, made, tree, file>>
      PROVE  Prepared'
  BY <1>e, EndPrepared
<1>0. CASE UNCHANGED runtimeVars
  BY <1>0, <1>t DEF runtimeVars, tree, run, Prepared, Sound, BoundExtractsWhole, Built,
     Settled, Planned, Remaining, KeysMatch
\* The steps that touch no extract and no binding, or end the recipe.
<1>1. ASSUME NEW r \in Recipes, Begin(r) PROVE Prepared'
  BY <1>1, <1>t DEF Begin, tree, Recipes, Prepared, Sound, BoundExtractsWhole, Built,
     Settled, Planned, KeysMatch
<1>2. CASE KeepKey
  BY <1>2, <1>t DEF KeepKey, At, Goto, tree, Recipes, Prepared, Sound,
     BoundExtractsWhole, Built, Settled, Planned
<1>3. CASE OpenKey
  BY <1>3, <1>t DEF OpenKey, At, Goto, tree, Recipes, Prepared, Sound,
     BoundExtractsWhole, Built, Settled, Planned, RuntimeTypeOK
<1>4. CASE WriteKey
  BY <1>4, <1>t DEF WriteKey, At, Goto, tree, Recipes, Prepared, Sound,
     BoundExtractsWhole, Built, Settled, Planned, RuntimeTypeOK
<1>5. CASE SecretsDone
  BY <1>5, <1>t, <1>l DEF SecretsDone, Done, Goto, tree, Prepared, Sound,
     BoundExtractsWhole, Built, Settled, Planned
<1>6. CASE RemoveRoot
  BY <1>6, <1>t, <1>l DEF RemoveRoot, Goto, Prepared, Sound, BoundExtractsWhole, Built,
     Settled, Planned
<1>7. CASE CopyCell
  BY <1>7, <1>t DEF CopyCell, At, Goto, Prepared, Sound, BoundExtractsWhole, Built,
     Settled, Planned, Remaining, RuntimeTypeOK
<1>8. CASE WritePublicKey
  <2>1. Sound'
    BY <1>8, <1>t, <1>l DEF WritePublicKey, At, Goto, Sound, Built, RuntimeTypeOK
  <2>2. Built'
    BY <1>8, <1>t, <1>l DEF WritePublicKey, At, Goto, Built, RuntimeTypeOK
  <2>3. QED
    BY <1>8, <1>t, <2>1, <2>2 DEF WritePublicKey, Goto, Prepared, BoundExtractsWhole,
       Settled, Planned
<1>9. CASE BuildFails
  BY <1>9, <1>e DEF BuildFails
<1>10. CASE BuildDone
  BY <1>10, <1>t, <1>l DEF BuildDone, Done, Goto, tree, Prepared, Sound,
     BoundExtractsWhole, Built, Settled, Planned, KeysMatch
<1>11. CASE Project
  BY <1>11, <1>t DEF Project, Goto, Prepared, Sound, BoundExtractsWhole, Built, Settled,
     Planned, KeysMatch
<1>12. CASE Check
  <2>1. CASE StartPlan /\ KeysMatch /\ recipe # "generate"
    BY <1>12, <2>1, <1>t DEF Check, StartPlan, tree, Recipes, Prepared, Sound,
       BoundExtractsWhole, Built, Settled, Planned, KeysMatch
  <2>2. QED
    BY <1>12, <1>e, <2>1 DEF Check
<1>13. ASSUME NEW c \in Places, RemoveCell(c) PROVE Prepared'
  BY <1>13, <1>t DEF RemoveCell, run, Prepared, Sound, BoundExtractsWhole, Built, Settled,
     Planned, RuntimeTypeOK
<1>14. ASSUME NEW c \in Places, Discard(c) PROVE Prepared'
  BY <1>14, <1>t DEF Discard, tree, run, Prepared, Sound, BoundExtractsWhole, Built,
     Settled, Planned, RuntimeTypeOK
\* Extracts are planned, published and bound.
<1>15. CASE Plan
  <2>1. step = "plan" /\ step' = "publish" /\ todo' = Authorities
        /\ UNCHANGED <<keyfile, made, tree, file, recipe, time>>
    BY <1>15 DEF Plan
  <2>2. ASSUME NEW a \in Readers
        PROVE  cell[a] /\ target'[a] <= time /\ time - target'[a] <= MaxAge
    <3>1. target'[a] = Selected(a, time) /\ Selectable(a, time) /\ time \in Nat
      BY <1>15, <1>t DEF Plan, RuntimeTypeOK, Times
    <3>2. CASE Accepted(a, bound[a], time)
      BY <3>1, <3>2, <1>t, Constants
         DEF Selected, Selectable, Accepted, TooOld, RuntimeTypeOK, Times
    <3>3. CASE ~Accepted(a, bound[a], time)
      BY <3>1, <3>3, Constants DEF Selected, Selectable
    <3>4. QED
      BY <3>2, <3>3
  <2>3. QED
    BY <2>1, <2>2, <1>t, <1>l DEF tree, Prepared, Sound, BoundExtractsWhole, Built, Settled,
       Planned, KeysMatch
<1>16. CASE PlanRefuses
  BY <1>16, <1>e DEF PlanRefuses
<1>17. CASE Publish
  <2>1. /\ step = "publish" /\ step' = "publish" /\ todo' = Tail(todo) /\ todo # <<>>
        /\ UNCHANGED <<keyfile, made, tree, recipe, time, target>>
    BY <1>17 DEF Publish, At, Goto
  <2>2. ASSUME NEW a \in Readers, NEW t \in Times
        PROVE  file'[a][t] = IF a = Head(todo) /\ t = target[a] THEN "whole" ELSE file[a][t]
    BY <1>17, <1>t DEF Publish, RuntimeTypeOK
  <2>3. \A a \in Readers : bound[a] \in Times /\ target[a] \in Times
    BY <1>t DEF RuntimeTypeOK
  <2>4. BoundExtractsWhole'
    BY <2>1, <2>2, <2>3, <1>t DEF tree, BoundExtractsWhole
  <2>5. Sound'
    BY <2>1, <2>2, <1>t DEF tree, Sound
  <2>6. \A a \in Readers : a \in Remaining' \/ file'[a][target[a]] = "whole"
    BY <2>1, <2>2, <2>3, <1>t, <1>l DEF Planned
  <2>7. QED
    BY <2>1, <2>4, <2>5, <2>6, <1>t DEF tree, Prepared, Built, Settled, Planned, KeysMatch
<1>18. CASE PublishDone
  BY <1>18, <1>t, <1>l DEF PublishDone, Done, Goto, tree, Prepared, Sound,
     BoundExtractsWhole, Built, Settled, Planned, KeysMatch
<1>19. CASE Rebind
  <2>1. /\ step = "rebind" /\ step' = "rebind" /\ todo' = Tail(todo) /\ todo # <<>>
        /\ UNCHANGED <<keyfile, made, cell, public, projected, file, recipe, time, target>>
    BY <1>19 DEF Rebind, At, Goto
  <2>2. \A a \in Readers : bound'[a] = IF a = Head(todo) THEN target[a] ELSE bound[a]
    BY <1>19, <1>t DEF Rebind, RuntimeTypeOK
  <2>3. BoundExtractsWhole'
    BY <2>1, <2>2, <1>t DEF BoundExtractsWhole, Planned
  <2>4. \A a \in Readers : a \in Remaining' \/ bound'[a] = target[a]
    BY <2>1, <2>2, <1>t, <1>l DEF Planned
  <2>5. QED
    BY <2>1, <2>3, <2>4, <1>t DEF Prepared, Sound, Built, Settled, Planned, KeysMatch
<1>20. CASE RebindDone
  BY <1>20, <1>e DEF RebindDone
<1>21. CASE Kill
  BY <1>21, <1>e DEF Kill
<1>22. QED
  BY <1>0, <1>1, <1>2, <1>3, <1>4, <1>5, <1>6, <1>7, <1>8, <1>9, <1>10, <1>11,
     <1>12, <1>13, <1>14, <1>15, <1>16, <1>17, <1>18, <1>19, <1>20, <1>21
  DEF RuntimeNext

LEMMA RuntimeInvHolds == RuntimeSpec => []RuntimeInv
<1>1. RuntimeInv /\ [RuntimeNext]_runtimeVars => RuntimeInv'
  BY RuntimeNextPrepared, RuntimeNextTypeOK DEF RuntimeInv, Prepared
<1>2. QED
  BY <1>1, RuntimeInitInv, PTL DEF RuntimeSpec

\* Whatever was killed where, a runtime.yaml that names an extract of its own names
\* one that is published and whole.
THEOREM BoundExtractIsWhole == RuntimeSpec => []BoundExtractsWhole
<1>1. RuntimeInv => BoundExtractsWhole
  BY DEF RuntimeInv
<1>2. QED
  BY <1>1, RuntimeInvHolds, PTL

-----------------------------------------------------------------------------
(* How a recipe ends *)

\* Only three steps end a recipe otherwise than by a kill, and a check.
LEMMA EndsAre ==
    ASSUME RuntimeTypeOK, [RuntimeNext]_runtimeVars, step # "idle", step' = "idle"
    PROVE  BuildFails \/ Check \/ PlanRefuses \/ RebindDone \/ Kill
BY DEF RuntimeNext, runtimeVars, run, Begin, KeepKey, OpenKey, WriteKey, SecretsDone,
   RemoveRoot, CopyCell, WritePublicKey, BuildDone, Project, RemoveCell, Discard, Plan,
   Publish, PublishDone, Rebind, Goto

\* A run that ends well has bound every authority to an extract that is there, and
\* has found the keys as they were built, from where it went on or anew.
THEOREM PreparedStaysReady == RuntimeSpec => PreparedIsReady
<1> DEFINE Good ==
      Ends("ok") /\ recipe # "generate" =>
          /\ \A a \in Readers : cell'[a] /\ file'[a][bound'[a]] = "whole"
                                /\ bound'[a] <= time /\ time - bound'[a] <= MaxAge
          /\ KeysMatch'
          /\ recipe = "prepare" => projected'
<1>1. ASSUME RuntimeInv, [RuntimeNext]_runtimeVars PROVE [Good]_runtimeVars
  <2> SUFFICES ASSUME Ends("ok"), recipe # "generate"
               PROVE  /\ \A a \in Readers :
                            cell'[a] /\ file'[a][bound'[a]] = "whole"
                            /\ bound'[a] <= time /\ time - bound'[a] <= MaxAge
                      /\ KeysMatch'
                      /\ recipe = "prepare" => projected'
    OBVIOUS
  <2>1. step # "idle" /\ step' = "idle" /\ outcome' = "ok"
    BY DEF Ends
  <2>2. BuildFails \/ Check \/ PlanRefuses \/ RebindDone \/ Kill
    BY <1>1, <2>1, EndsAre DEF RuntimeInv
  <2>3. RebindDone
    BY <2>1, <2>2 DEF BuildFails, Check, StartPlan, PlanRefuses, Kill, End
  <2>4. step = "rebind" /\ todo = <<>> /\ UNCHANGED <<keyfile, made, tree, file>>
    BY <2>3 DEF RebindDone, Done
  <2>5. Remaining = {}
    BY <2>4 DEF Remaining
  <2>6. \A a \in Readers : /\ cell[a] /\ file[a][bound[a]] = "whole"
                           /\ bound[a] <= time /\ time - bound[a] <= MaxAge
    BY <1>1, <2>4, <2>5 DEF RuntimeInv, Planned
  <2>7. KeysMatch /\ (recipe = "prepare" => projected)
    BY <1>1, <2>4 DEF RuntimeInv, Settled
  <2>8. QED
    BY <2>4, <2>6, <2>7 DEF tree, KeysMatch
<1>2. QED
  BY <1>1, RuntimeInvHolds, PTL DEF RuntimeSpec, PreparedIsReady

\* A recipe that fails has met a key, a build or a clock that explains it; what a
\* killed run has left of extracts and bindings is no reason.
THEOREM FailuresAreExplained == RuntimeSpec => FailuresHaveCauses
<1> DEFINE Cause ==
      Ends("failed") =>
          \/ \E c \in Places : keyfile[c] # "whole"
          \/ recipe = "prepare-runtime" /\ ~KeysMatch
          \/ \E a \in Readers : bound[a] > time /\ file[a][bound[a]] = "whole"
<1>1. ASSUME RuntimeInv, [RuntimeNext]_runtimeVars PROVE [Cause]_runtimeVars
  <2> SUFFICES ASSUME Ends("failed")
               PROVE  \/ \E c \in Places : keyfile[c] # "whole"
                      \/ recipe = "prepare-runtime" /\ ~KeysMatch
                      \/ \E a \in Readers : bound[a] > time /\ file[a][bound[a]] = "whole"
    OBVIOUS
  <2>1. step # "idle" /\ step' = "idle" /\ outcome' = "failed"
    BY DEF Ends
  <2>2. BuildFails \/ Check \/ PlanRefuses \/ RebindDone \/ Kill
    BY <1>1, <2>1, EndsAre DEF RuntimeInv
  <2>3. BuildFails \/ Check \/ PlanRefuses
    BY <2>1, <2>2 DEF RebindDone, Kill, End
  <2>4. CASE BuildFails
    BY <1>1, <2>4, Constants, RemainingNext DEF BuildFails, At, RuntimeInv
  <2>5. CASE Check
    <3>1. step = "check" /\ ~KeysMatch
      BY <2>1, <2>5 DEF Check, StartPlan, End
    <3>2. recipe = "prepare-runtime"
      BY <1>1, <3>1 DEF RuntimeInv, Built
    <3>3. QED
      BY <3>1, <3>2
  <2>6. CASE PlanRefuses
    <3>1. step = "plan"
      BY <2>6 DEF PlanRefuses
    <3>2. PICK a \in Readers : ~Selectable(a, time)
      BY <2>6 DEF PlanRefuses
    <3>3. /\ \A t \in Times : file[a][t] \in {"absent", "whole"}
          /\ bound[a] \in Times /\ time \in Times /\ bound[a] \in Nat /\ time \in Nat
      <4>1. bound[a] \in Times /\ time \in Times
        BY <1>1 DEF RuntimeInv, RuntimeTypeOK
      <4>2. bound[a] \in Nat /\ time \in Nat
        BY <4>1, Constants DEF Times
      <4>3. \A t \in Times : file[a][t] \in {"absent", "whole"}
        BY <1>1 DEF RuntimeInv, RuntimeTypeOK, Sound, FileStates
      <4>4. QED
        BY <4>1, <4>2, <4>3
    <3>4. cell[a]
      <4>1. a \in Places /\ KeysMatch
        BY <1>1, <3>1, Constants DEF RuntimeInv, Settled
      <4>2. public[a] = made[a] /\ made[a] > 0 /\ made[a] \in Nat
        BY <1>1, <4>1 DEF RuntimeInv, RuntimeTypeOK, KeysMatch, Sound
      <4>3. QED
        BY <1>1, <4>1, <4>2 DEF RuntimeInv, Sound
    <3>5. CASE file[a][bound[a]] = "whole" /\ bound[a] > time
      BY <3>5
    <3>6. CASE ~(file[a][bound[a]] = "whole" /\ bound[a] > time)
      <4>1. /\ file[a][bound[a]] = "absent" \/ Stale(a, bound[a], time)
                                          \/ Accepted(a, bound[a], time)
        BY <3>3, <3>6 DEF Stale, Accepted
      <4>2. file[a][time] = "absent" \/ Accepted(a, time, time)
        BY <3>3, Constants DEF Accepted, TooOld
      <4>3. FALSE
        BY <3>2, <3>4, <4>1, <4>2 DEF Selectable, Selected
      <4>4. QED
        BY <4>3
    <3>7. QED
      BY <3>5, <3>6
  <2>7. QED
    BY <2>3, <2>4, <2>5, <2>6
<1>2. QED
  BY <1>1, RuntimeInvHolds, PTL DEF RuntimeSpec, FailuresHaveCauses

-----------------------------------------------------------------------------
(* The composition: the supervisor leaves the recipes' state alone         *)

LEMMA StackMoves == [StackNext]_stackVars => [RuntimeNext]_runtimeVars
BY DEF StackNext, stackVars

\* Beside the supervisor, the recipes do what they do alone.
THEOREM StackRunsRecipes == StackSpec => RuntimeSpec
<1>1. StackInit => RuntimeInit
  BY DEF StackInit
<1>. QED BY <1>1, StackMoves, PTL DEF StackSpec, RuntimeSpec

-----------------------------------------------------------------------------
(* Queues of providers *)

LEMMA Queues ==
    /\ Cells \in Seq(Places) /\ ToSet(Cells) = Places
    /\ <<>> \in Seq(Places) /\ ToSet(<<>>) = {}
    /\ \A s \in Seq(Places) : s # <<>> =>
          /\ Head(s) \in Places /\ Head(s) \in ToSet(s)
          /\ Tail(s) \in Seq(Places)
          /\ ToSet(s) \subseteq {Head(s)} \cup ToSet(Tail(s))
    /\ \A s \in Seq(Places) :
          Reverse(s) \in Seq(Places) /\ ToSet(Reverse(s)) = ToSet(s)
    /\ \A s \in Seq(Places), p \in Places :
          Append(s, p) \in Seq(Places) /\ p \in ToSet(Append(s, p))
<1>1. Cells \in Seq(Places) /\ ToSet(Cells) = Places
  BY Constants DEF ToSet, Places
<1>2. <<>> \in Seq(Places) /\ ToSet(<<>>) = {}
  BY DEF ToSet
<1>3. ASSUME NEW s \in Seq(Places), s # <<>>
      PROVE  /\ Head(s) \in Places /\ Head(s) \in ToSet(s)
             /\ Tail(s) \in Seq(Places)
             /\ ToSet(s) \subseteq {Head(s)} \cup ToSet(Tail(s))
  <2>1. Head(s) = s[1] /\ 1 \in DOMAIN s
    BY <1>3
  <2>. QED BY <1>3, <2>1, HeadTail DEF ToSet
<1>4. ASSUME NEW s \in Seq(Places)
      PROVE  Reverse(s) \in Seq(Places) /\ ToSet(Reverse(s)) = ToSet(s)
  <2>1. Len(s) \in Nat /\ DOMAIN s = 1 .. Len(s)
    OBVIOUS
  <2>2. \A i \in 1 .. Len(s) : s[i] \in Places
    OBVIOUS
  <2>3. \A i \in 1 .. Len(s) :
            Len(s) - i + 1 \in 1 .. Len(s) /\ Reverse(s)[i] = s[Len(s) - i + 1]
    BY <2>1 DEF Reverse
  <2>4. Reverse(s) \in Seq(Places) /\ DOMAIN Reverse(s) = 1 .. Len(s)
    BY <2>1, <2>2, <2>3 DEF Reverse
  <2>5. \A i \in 1 .. Len(s) : Reverse(s)[Len(s) - i + 1] = s[i]
    <3>1. ASSUME NEW i \in 1 .. Len(s)
          PROVE  /\ Len(s) - i + 1 \in 1 .. Len(s)
                 /\ Len(s) - (Len(s) - i + 1) + 1 = i
      BY <2>1
    <3>. QED BY <2>3, <3>1
  <2>. QED BY <2>1, <2>3, <2>4, <2>5 DEF ToSet
<1>5. ASSUME NEW s \in Seq(Places), NEW p \in Places
      PROVE  Append(s, p) \in Seq(Places) /\ p \in ToSet(Append(s, p))
  <2>1. /\ Append(s, p) \in Seq(Places) /\ Len(s) + 1 \in DOMAIN Append(s, p)
        /\ Append(s, p)[Len(s) + 1] = p
    OBVIOUS
  <2>. QED BY <2>1 DEF ToSet
<1>. QED BY <1>1, <1>2, <1>3, <1>4, <1>5

-----------------------------------------------------------------------------
(* The supervisor: the inductive invariant *)

\* A socket that is there is that of a proxy of its provider, or abandoned.
SocketsOwned ==
    \A p \in Places : socket[p] \in Pids =>
        /\ proxy[socket[p]].of = p
        /\ proxy[socket[p]].does \in {"bound", "serving", "closing"}

Lives(i) == proxy[i].does \notin {"none", "closing"}

\* What the supervisor knows of the provider it is at.
AtTurn ==
    /\ phase \in {"own", "look", "spawn", "record", "wait"} => command = "up"
    /\ phase \in {"look", "spawn", "record", "wait", "signal", "await"} => queue # <<>>
    /\ phase \in {"look", "spawn", "record"} => pidfile[Turn] = NoPid
    /\ phase \in {"record", "wait"} =>
          child \in Pids /\ (Runs(child) => proxy[child].of = Turn)
    /\ phase = "wait" => pidfile[Turn] = child /\ Turn \in ToSet(started)
    /\ phase \in {"signal", "await"} => child \in Pids /\ pidfile[Turn] = child
    /\ phase = "await" => ~Lives(child)

\* A proxy that is not closing is on record, or about to be; what it has bound is
\* its own still, and one that has not bound yet is waited for, or to be stopped by
\* the command that started it.
ProxiesKnown ==
    ~cut => \A i \in Pids : Lives(i) =>
        /\ pidfile[proxy[i].of] = i \/ (phase = "record" /\ child = i)
        /\ proxy[i].does \in {"bound", "serving"} => socket[proxy[i].of] = i
        /\ proxy[i].does \in {"loading", "validated"} =>
              \/ phase \in {"record", "wait"} /\ child = i
              \/ /\ phase \in {"stop", "signal", "await"} /\ command = "up"
                 /\ proxy[i].of \in ToSet(queue)

\* Of the providers it had started, those that signers-up has gone through again.
StopClears ==
    (command = "up" /\ phase \in {"stop", "signal", "await"}) =>
        \A p \in ToSet(started) : p \in ToSet(queue) \/ pidfile[p] = NoPid

\* The providers that signers-up has gone through.
UpReaches ==
    (~disturbed /\ phase \in {"own", "look", "spawn", "record", "wait"}) =>
        \A p \in Places : p \in ToSet(queue) \/ Reachable(p)

SupervisorInv ==
    /\ SupervisorTypeOK
    /\ SocketsOwned
    /\ AtTurn
    /\ ProxiesKnown
    /\ StopClears
    /\ UpReaches

LEMMA SupervisorInitInv == SupervisorInit => SupervisorInv
<1> SUFFICES ASSUME SupervisorInit PROVE SupervisorInv
  OBVIOUS
<1> USE DEF SupervisorInit
<1>1. Cells[1] \in Places
  BY CellsAssumption DEF Places
<1>2. SupervisorTypeOK
  BY <1>1, PidAssumption, Queues DEF SupervisorTypeOK, States, Phases, NoProxy
<1>3. SocketsOwned /\ AtTurn
  BY PidAssumption DEF SocketsOwned, AtTurn
<1>4. ProxiesKnown /\ StopClears /\ UpReaches
  BY DEF ProxiesKnown, Lives, NoProxy, StopClears, UpReaches
<1>. QED BY <1>2, <1>3, <1>4 DEF SupervisorInv

-----------------------------------------------------------------------------
(* What a proxy does *)

LEMMA ProxyType ==
    ASSUME SupervisorTypeOK, NEW i \in Pids, Proxy(i)
    PROVE  SupervisorTypeOK'
<1>0. /\ Cells[1] \in Places /\ proxy[i].of \in Places
      /\ proxy \in [Pids -> [does : States, of : Places]]
  BY CellsAssumption DEF Places, SupervisorTypeOK
<1>1. proxy' \in [Pids -> [does : States, of : Places]]
  BY <1>0 DEF Proxy, Load, LoadFails, Bind, BindFails, HandleSignals, Close, Die,
              Becomes, Ended, NoProxy, States
<1>2. socket' \in [Places -> Pids \cup {NoPid, Abandoned}]
  BY <1>0 DEF Proxy, Load, LoadFails, Bind, BindFails, HandleSignals, Close, Die,
              Left, SupervisorTypeOK
<1>3. UNCHANGED <<pidfile, progress>> /\ disturbed' \in BOOLEAN
  BY DEF Proxy, Load, LoadFails, Bind, BindFails, HandleSignals, Close, Die,
         SupervisorTypeOK
<1>. QED BY <1>1, <1>2, <1>3 DEF SupervisorTypeOK, progress

\* It changes itself only, and no socket but one it has bound, one that it found
\* bound in the place of its own, or one that it binds.
LEMMA ProxyMoves ==
    ASSUME SupervisorTypeOK, SocketsOwned, NEW i \in Pids, Proxy(i)
    PROVE  /\ UNCHANGED <<pidfile, progress>>
           /\ Runs(i)
           /\ \A j \in Pids \ {i} : proxy'[j] = proxy[j]
           /\ proxy'[i].does # "none" => proxy'[i].of = proxy[i].of
           /\ \/ /\ proxy[i].does = "loading" /\ proxy'[i].does \in {"validated", "none"}
                 /\ UNCHANGED <<socket, disturbed>>
              \/ /\ proxy[i].does = "validated" /\ proxy'[i].does = "bound"
                 /\ socket[proxy[i].of] = NoPid
                 /\ socket' = [socket EXCEPT ![proxy[i].of] = i]
                 /\ UNCHANGED disturbed
              \/ /\ proxy[i].does = "validated" /\ proxy'[i].does = "none"
                 /\ socket' = [socket EXCEPT ![proxy[i].of] = NoPid]
                 /\ disturbed'
              \/ /\ proxy[i].does = "bound" /\ proxy'[i].does = "serving"
                 /\ UNCHANGED <<socket, disturbed>>
              \/ /\ proxy'[i].does = "none"
                 /\ disturbed' \/ (proxy[i].does = "closing" /\ UNCHANGED disturbed)
                 /\ \A p \in Places : IF socket[p] = i THEN socket'[p] \notin Pids
                                                       ELSE socket'[p] = socket[p]
<1>0. /\ proxy \in [Pids -> [does : States, of : Places]]
      /\ socket \in [Places -> Pids \cup {NoPid, Abandoned}]
      /\ NoPid \notin Pids /\ Abandoned \notin Pids
      /\ NoProxy.does = "none"
  BY PidAssumption DEF SupervisorTypeOK, NoProxy
<1>1. CASE Load(i) \/ LoadFails(i)
  BY <1>0, <1>1 DEF Load, LoadFails, Becomes, Ended, Runs
<1>2. CASE Bind(i)
  BY <1>0, <1>2 DEF Bind, Becomes, Runs
<1>3. CASE BindFails(i)
  BY <1>0, <1>3 DEF BindFails, Ended, Runs
<1>4. CASE HandleSignals(i)
  BY <1>0, <1>4 DEF HandleSignals, Becomes, Runs
<1>5. CASE Close(i)
  BY <1>0, <1>5 DEF Close, Ended, Runs
<1>6. CASE Die(i)
  BY <1>0, <1>6 DEF Die, Ended, Left, Runs
<1>. QED BY <1>1, <1>2, <1>3, <1>4, <1>5, <1>6 DEF Proxy

\* A provider has one proxy that is not closing.
LEMMA OnlyOne ==
    ASSUME SupervisorInv, ~cut, NEW i \in Pids, NEW j \in Pids, Lives(i), Lives(j),
           proxy[i].of = proxy[j].of
    PROVE  i = j
BY PidAssumption DEF SupervisorInv, ProxiesKnown, AtTurn, Lives, Runs

LEMMA ProxyKeepsSockets ==
    ASSUME SupervisorInv, NEW i \in Pids, Proxy(i)
    PROVE  SocketsOwned'
<1>0. /\ SupervisorTypeOK /\ SocketsOwned
      /\ socket \in [Places -> Pids \cup {NoPid, Abandoned}]
      /\ \A j \in Pids : proxy[j].of \in Places
      /\ NoPid \notin Pids /\ Abandoned \notin Pids
  BY PidAssumption DEF SupervisorInv, SupervisorTypeOK
<1> SUFFICES ASSUME NEW p \in Places, socket'[p] \in Pids
             PROVE  /\ proxy'[socket'[p]].of = p
                    /\ proxy'[socket'[p]].does \in {"bound", "serving", "closing"}
  BY DEF SocketsOwned
<1>1. CASE socket'[p] = socket[p]
  BY <1>0, <1>1, ProxyMoves DEF SocketsOwned
<1>2. CASE socket'[p] # socket[p]
  BY <1>0, <1>2, ProxyMoves
<1>. QED BY <1>1, <1>2

LEMMA ProxyKeepsKnown ==
    ASSUME SupervisorInv, NEW i \in Pids, Proxy(i)
    PROVE  ProxiesKnown'
<1>0. /\ SupervisorTypeOK /\ SocketsOwned /\ ProxiesKnown
      /\ socket \in [Places -> Pids \cup {NoPid, Abandoned}]
      /\ \A j \in Pids : proxy[j].of \in Places
      /\ NoPid \notin Pids /\ Abandoned \notin Pids
  BY PidAssumption DEF SupervisorInv, SupervisorTypeOK
<1>1. UNCHANGED <<pidfile, cut, command, phase, queue, child>>
  BY <1>0, ProxyMoves DEF progress
<1> SUFFICES ASSUME ~cut, NEW j \in Pids, Lives(j)'
             PROVE  /\ pidfile[proxy'[j].of] = j \/ (phase = "record" /\ child = j)
                    /\ proxy'[j].does \in {"bound", "serving"} =>
                          socket'[proxy'[j].of] = j
                    /\ proxy'[j].does \in {"loading", "validated"} =>
                          \/ phase \in {"record", "wait"} /\ child = j
                          \/ /\ phase \in {"stop", "signal", "await"} /\ command = "up"
                             /\ proxy'[j].of \in ToSet(queue)
  BY <1>1 DEF ProxiesKnown
<1>2. CASE j = i
  BY <1>0, <1>2, ProxyMoves DEF ProxiesKnown, Lives
<1>3. CASE j # i
  <2>1. proxy'[j] = proxy[j] /\ Lives(j)
    BY <1>0, <1>3, ProxyMoves DEF Lives
  <2>2. ASSUME proxy[j].does \in {"bound", "serving"}
        PROVE  socket'[proxy[j].of] = j
    <3>1. socket[proxy[j].of] = j
      BY <1>0, <2>1, <2>2 DEF ProxiesKnown
    <3>2. ~(proxy[i].does = "validated" /\ proxy[i].of = proxy[j].of)
      BY <1>3, <2>1, OnlyOne DEF Lives
    <3>. QED BY <1>0, <1>3, <3>1, <3>2, ProxyMoves
  <2>. QED BY <1>0, <2>1, <2>2 DEF ProxiesKnown
<1>. QED BY <1>2, <1>3

LEMMA ProxyKeepsReached ==
    ASSUME SupervisorInv, NEW i \in Pids, Proxy(i)
    PROVE  UpReaches'
<1>0. /\ SupervisorTypeOK /\ SocketsOwned /\ UpReaches
      /\ socket \in [Places -> Pids \cup {NoPid, Abandoned}]
      /\ \A j \in Pids : proxy[j].of \in Places
      /\ NoPid \notin Pids /\ Abandoned \notin Pids
  BY PidAssumption DEF SupervisorInv, SupervisorTypeOK
<1>1. /\ UNCHANGED <<phase, queue>>
      /\ ~disturbed' => ~disturbed
  BY <1>0, ProxyMoves DEF progress
<1>2. ASSUME ~disturbed', NEW p \in Places, Reachable(p)
      PROVE  Reachable(p)'
  <2>1. /\ socket[p] \in Pids
        /\ proxy[socket[p]].does \in {"bound", "serving"}
    BY <1>2 DEF Reachable
  <2>2. socket'[p] = socket[p]
    BY <1>0, <1>2, <2>1, ProxyMoves
  <2>. QED BY <1>0, <1>2, <2>1, <2>2, ProxyMoves DEF Reachable
<1>. QED BY <1>0, <1>1, <1>2 DEF UpReaches

LEMMA ProxyKeeps ==
    ASSUME SupervisorInv, NEW i \in Pids, Proxy(i)
    PROVE  SupervisorInv'
<1>1. SupervisorTypeOK' /\ SocketsOwned' /\ ProxiesKnown' /\ UpReaches'
  BY ProxyType, ProxyKeepsSockets, ProxyKeepsKnown, ProxyKeepsReached
  DEF SupervisorInv
<1>2. UNCHANGED <<pidfile, progress>>
  BY ProxyMoves DEF SupervisorInv
<1>3. AtTurn'
  <2>1. UNCHANGED <<command, phase, queue, child, started, pidfile, Turn>>
    BY <1>2 DEF progress, Turn
  <2>2. ASSUME NEW j \in Pids
        PROVE  /\ Runs(j)' => Runs(j) /\ proxy'[j].of = proxy[j].of
               /\ ~Lives(j) => ~Lives(j)'
    <3>1. CASE j = i
      BY <3>1, ProxyMoves DEF SupervisorInv, Runs, Lives
    <3>2. CASE j # i
      <4>1. proxy'[j] = proxy[j]
        BY <3>2, ProxyMoves DEF SupervisorInv
      <4>. QED BY <4>1 DEF Runs, Lives
    <3>. QED BY <3>1, <3>2
  <2>. QED BY <2>1, <2>2 DEF SupervisorInv, AtTurn
<1>4. StopClears'
  BY <1>2 DEF SupervisorInv, StopClears, progress
<1>. QED BY <1>1, <1>3, <1>4 DEF SupervisorInv

-----------------------------------------------------------------------------
(* What the supervisor does *)

LEMMA SuperviseType ==
    ASSUME SupervisorInv, Supervise \/ (\E c \in {"up", "down"} : Run(c))
    PROVE  SupervisorTypeOK'
<1>0. /\ SupervisorTypeOK /\ Cells[1] \in Places
      /\ proxy \in [Pids -> [does : States, of : Places]]
      /\ queue # <<>> => Turn \in Places /\ Tail(queue) \in Seq(Places)
      /\ Reverse(started) \in Seq(Places)
      /\ Cells \in Seq(Places) /\ Reverse(Cells) \in Seq(Places)
  <2>1. SupervisorTypeOK /\ queue \in Seq(Places) /\ started \in Seq(Places)
    BY DEF SupervisorInv, SupervisorTypeOK
  <2>2. Cells[1] \in Places
    BY CellsAssumption DEF Places
  <2>. QED BY <2>1, <2>2, Queues DEF SupervisorTypeOK, Turn
<1> USE <1>0 DEF SupervisorTypeOK
<1>1. ASSUME NEW c \in {"up", "down"}, Run(c) PROVE SupervisorTypeOK'
  <2>1. command' \in {"up", "down"} /\ phase' \in Phases /\ queue' \in Seq(Places)
    BY <1>1 DEF Run, Phases
  <2>. QED BY <1>1, <2>1 DEF Run, processes
<1>2. CASE KeepProxy \/ ForgetProxy \/ NothingToStop \/ Awaited \/ Ready
  <2>1. /\ UNCHANGED <<proxy, socket, command, started, exit, cut, disturbed>>
        /\ child' \in {child, NoPid} /\ phase' \in {"own", "look", "stop"}
        /\ queue # <<>> /\ queue' \in {queue, Tail(queue)}
        /\ pidfile' = pidfile \/ pidfile' = [pidfile EXCEPT ![Turn] = NoPid]
    BY <1>2 DEF KeepProxy, ForgetProxy, NothingToStop, Awaited, Ready, In, Advance,
                processes
  <2>2. queue' \in Seq(Places) /\ pidfile' \in [Places -> Pids \cup {NoPid}]
    BY <2>1
  <2>. QED BY <2>1, <2>2 DEF Phases
<1>3. CASE Look \/ NotReady
  BY <1>3 DEF Look, NotReady, In, Advance, GiveUp, processes, Phases
<1>4. ASSUME NEW i \in Pids, Spawn(i) PROVE SupervisorTypeOK'
  <2>1. [does |-> "loading", of |-> Turn] \in [does : States, of : Places]
    BY <1>4 DEF Spawn, In, States
  <2>. QED BY <1>4, <2>1 DEF Spawn, In, Advance, Phases
<1>5. CASE Record
  <2>1. child \in Pids
    BY <1>5 DEF Record, In, SupervisorInv, AtTurn
  <2>2. Append(started, Turn) \in Seq(Places)
    BY <1>5, Queues DEF Record, In
  <2>. QED BY <1>5, <2>1, <2>2 DEF Record, In, Advance, processes, Phases
<1>6. CASE FindProxy \/ TerminateLate
  <2>1. /\ UNCHANGED <<proxy, socket, pidfile, command, queue, started, exit, cut>>
        /\ UNCHANGED disturbed
        /\ child' \in Pids \cup {NoPid} /\ phase' \in {"signal", "await"}
    BY <1>6 DEF FindProxy, TerminateLate, In, Advance, Owned, processes
  <2>. QED BY <2>1 DEF Phases
<1>7. CASE Terminate
  <2>1. child \in Pids
    BY <1>7 DEF Terminate, In, SupervisorInv, AtTurn
  <2>2. proxy' \in [Pids -> [does : States, of : Places]]
    <3>1. NoProxy \in [does : States, of : Places]
      BY DEF NoProxy, States
    <3>2. proxy[child] \in [does : States, of : Places]
      BY <2>1
    <3>3. [proxy[child] EXCEPT !.does = "closing"] \in [does : States, of : Places]
      BY <3>2 DEF States
    <3>4. \/ proxy' = [proxy EXCEPT ![child] = NoProxy]
          \/ proxy' = [proxy EXCEPT ![child].does = "closing"]
      BY <1>7 DEF Terminate, Terminated, Ended
    <3>. QED BY <2>1, <3>1, <3>3, <3>4
  <2>3. socket' \in [Places -> Pids \cup {NoPid, Abandoned}]
    BY <1>7 DEF Terminate, Terminated, Left
  <2>. QED BY <1>7, <2>2, <2>3 DEF Terminate, In, Advance, Phases
<1>8. CASE UpDone \/ StopDone \/ TerminateRaises \/ Interrupt
  BY <1>8, Queues
  DEF UpDone, StopDone, TerminateRaises, Interrupt, Finish, processes, Phases
<1>. QED BY <1>1, <1>2, <1>3, <1>4, <1>5, <1>6, <1>7, <1>8 DEF Supervise

\* A command forgets a proxy when it is not there or not its provider's any more,
\* and goes on to the next provider when this one is served, or has no proxy left.
LEMMA SuperviseKeeps ==
    ASSUME SupervisorInv, Supervise \/ (\E c \in {"up", "down"} : Run(c))
    PROVE  SupervisorInv'
<1>0. /\ SupervisorTypeOK /\ SocketsOwned /\ AtTurn /\ ProxiesKnown /\ StopClears
      /\ UpReaches /\ SupervisorTypeOK'
      /\ NoPid \notin Pids /\ Abandoned \notin Pids
      /\ pidfile \in [Places -> Pids \cup {NoPid}]
      /\ \A i \in Pids : proxy[i].of \in Places
      /\ queue # <<>> => Turn \in Places /\ Tail(queue) \in Seq(Places)
                         /\ ToSet(queue) \subseteq {Turn} \cup ToSet(Tail(queue))
  BY PidAssumption, SuperviseType, Queues DEF SupervisorInv, SupervisorTypeOK, Turn
<1>s. UNCHANGED processes => SocketsOwned'
  BY <1>0 DEF SocketsOwned, processes
<1>1. ASSUME NEW c \in {"up", "down"}, Run(c) PROVE SupervisorInv'
  <2>1. /\ UNCHANGED <<proxy, socket, pidfile, cut>> /\ phase = "idle"
        /\ \/ phase' = "own" /\ queue' = Cells /\ command' = "up"
           \/ phase' = "stop" /\ c = "down" /\ command' = "down"
    BY <1>1 DEF Run, processes
  <2>2. AtTurn' /\ StopClears'
    BY <2>1 DEF AtTurn, StopClears
  <2>3. ProxiesKnown'
    BY <1>0, <2>1 DEF ProxiesKnown, Lives
  <2>4. UpReaches'
    BY <2>1, Queues DEF UpReaches
  <2>. QED BY <1>0, <1>1, <1>s, <2>2, <2>3, <2>4 DEF SupervisorInv, Run
<1>2. CASE KeepProxy
  <2>1. /\ UNCHANGED <<proxy, socket, pidfile, cut, started, child, command, disturbed>>
        /\ phase = "own" /\ phase' = "own" /\ queue # <<>> /\ queue' = Tail(queue)
        /\ Reachable(Turn)
    BY <1>2 DEF KeepProxy, In, Advance, processes
  <2>2. AtTurn' /\ StopClears'
    BY <1>0, <2>1 DEF AtTurn, StopClears
  <2>3. ProxiesKnown'
    BY <1>0, <2>1 DEF ProxiesKnown, Lives
  <2>4. UpReaches'
    BY <1>0, <2>1 DEF UpReaches, Reachable
  <2>. QED BY <1>0, <1>2, <1>s, <2>2, <2>3, <2>4 DEF SupervisorInv, KeepProxy
<1>3. CASE ForgetProxy
  <2>1. /\ UNCHANGED <<proxy, socket, cut, queue, started, child, command, disturbed>>
        /\ phase = "own" /\ phase' = "look" /\ queue # <<>>
        /\ pidfile' = [pidfile EXCEPT ![Turn] = NoPid]
        /\ ~(Owned(Turn) /\ Reachable(Turn))
    BY <1>3 DEF ForgetProxy, In, Advance, processes
  <2>2. AtTurn' /\ StopClears'
    BY <1>0, <2>1 DEF AtTurn, StopClears, Turn
  <2>3. ProxiesKnown'
    <3>1. ASSUME ~cut, NEW i \in Pids, Lives(i)
          PROVE  proxy[i].of # Turn
      <4>1. /\ pidfile[proxy[i].of] = i /\ socket[proxy[i].of] = i
            /\ proxy[i].does \in {"bound", "serving"}
        BY <1>0, <2>1, <3>1 DEF ProxiesKnown, Lives, SupervisorTypeOK, States
      <4>. QED BY <1>0, <2>1, <4>1 DEF Owned, Runs, Reachable
    <3>. QED BY <1>0, <2>1, <3>1 DEF ProxiesKnown, Lives
  <2>4. UpReaches'
    BY <1>0, <2>1 DEF UpReaches, Reachable
  <2>. QED BY <1>0, <1>3, <1>s, <2>2, <2>3, <2>4 DEF SupervisorInv, ForgetProxy
<1>4. CASE Look
  <2>1. /\ UNCHANGED <<proxy, socket, pidfile, cut, started, child, disturbed>>
        /\ UNCHANGED command
        /\ phase = "look" /\ queue # <<>>
        /\ \/ phase' = "spawn" /\ queue' = queue
           \/ phase' = "stop" /\ queue' = Reverse(started)
    BY <1>4 DEF Look, In, Advance, GiveUp, processes
  <2>2. AtTurn'
    BY <1>0, <2>1 DEF AtTurn, Turn
  <2>3. StopClears'
    BY <1>0, <2>1, Queues DEF StopClears, SupervisorTypeOK
  <2>4. ProxiesKnown'
    BY <1>0, <2>1 DEF ProxiesKnown, Lives
  <2>5. UpReaches'
    BY <1>0, <2>1 DEF UpReaches, Reachable
  <2>. QED BY <1>0, <1>4, <1>s, <2>2, <2>3, <2>4, <2>5 DEF SupervisorInv, Look
<1>5. ASSUME NEW i \in Pids, Spawn(i) PROVE SupervisorInv'
  <2>1. /\ UNCHANGED <<socket, pidfile, cut, queue, started, command, disturbed>>
        /\ phase = "spawn" /\ phase' = "record" /\ queue # <<>> /\ child' = i
        /\ ~Runs(i)
        /\ proxy' = [proxy EXCEPT ![i] = [does |-> "loading", of |-> Turn]]
    BY <1>5 DEF Spawn, In, Advance
  <2>2. /\ proxy'[i].does = "loading" /\ proxy'[i].of = Turn
        /\ \A j \in Pids \ {i} : proxy'[j] = proxy[j]
        /\ \A p \in Places : socket[p] # i
    <3>1. \A p \in Places : socket[p] # i
      BY <1>0, <2>1 DEF SocketsOwned, Runs
    <3>. QED BY <1>0, <2>1, <3>1 DEF SupervisorTypeOK
  <2>3. SocketsOwned'
    BY <1>0, <2>1, <2>2 DEF SocketsOwned
  <2>4. AtTurn' /\ StopClears'
    BY <1>0, <2>1, <2>2 DEF AtTurn, StopClears, Turn
  <2>5. ProxiesKnown'
    BY <1>0, <2>1, <2>2 DEF ProxiesKnown, Lives
  <2>6. UpReaches'
    BY <1>0, <2>1, <2>2 DEF UpReaches, Reachable
  <2>. QED BY <1>0, <2>3, <2>4, <2>5, <2>6 DEF SupervisorInv
<1>6. CASE Record
  <2>1. /\ UNCHANGED <<proxy, socket, cut, queue, child, command, disturbed>>
        /\ phase = "record" /\ phase' = "wait" /\ queue # <<>>
        /\ pidfile' = [pidfile EXCEPT ![Turn] = child]
        /\ started' = Append(started, Turn)
    BY <1>6 DEF Record, In, Advance, processes
  <2>2. /\ pidfile[Turn] = NoPid /\ child \in Pids
        /\ Runs(child) => proxy[child].of = Turn
    BY <1>0, <2>1 DEF AtTurn
  <2>3. AtTurn' /\ StopClears'
    BY <1>0, <2>1, <2>2, Queues DEF AtTurn, StopClears, Turn, SupervisorTypeOK, Runs
  <2>4. ProxiesKnown'
    BY <1>0, <2>1, <2>2 DEF ProxiesKnown, Lives, Runs
  <2>5. UpReaches'
    BY <1>0, <2>1 DEF UpReaches, Reachable
  <2>. QED BY <1>0, <1>s, <1>6, <2>3, <2>4, <2>5 DEF SupervisorInv, Record
<1>7. CASE Ready
  <2>1. /\ UNCHANGED <<proxy, socket, pidfile, cut, started, command, disturbed>>
        /\ phase = "wait" /\ phase' = "own" /\ queue # <<>> /\ queue' = Tail(queue)
        /\ Reachable(Turn)
    BY <1>7 DEF Ready, In, Advance, processes
  <2>2. AtTurn' /\ StopClears'
    BY <1>0, <2>1 DEF AtTurn, StopClears
  <2>3. ProxiesKnown'
    <3>1. ASSUME ~cut, Lives(child), child \in Pids
          PROVE  proxy[child].does \in {"bound", "serving"}
      <4>1. proxy[child].of = Turn
        BY <1>0, <2>1, <3>1 DEF AtTurn, Lives, Runs
      <4>2. socket[Turn] = child
        <5>1. /\ socket[Turn] \in Pids /\ proxy[socket[Turn]].of = Turn
              /\ Lives(socket[Turn])
          BY <1>0, <2>1 DEF Reachable, SocketsOwned, Lives
        <5>. QED BY <3>1, <4>1, <5>1, OnlyOne
      <4>. QED BY <2>1, <4>2 DEF Reachable
    <3>. QED BY <1>0, <2>1, <3>1 DEF ProxiesKnown, Lives
  <2>4. UpReaches'
    BY <1>0, <2>1 DEF UpReaches, Reachable
  <2>. QED BY <1>0, <1>s, <1>7, <2>2, <2>3, <2>4 DEF SupervisorInv, Ready
<1>8. CASE NotReady
  <2>1. /\ UNCHANGED <<proxy, socket, pidfile, cut, started, command, disturbed>>
        /\ phase = "wait" /\ phase' = "stop" /\ queue # <<>>
        /\ queue' = Reverse(started)
    BY <1>8 DEF NotReady, In, Advance, GiveUp, processes
  <2>2. ToSet(queue') = ToSet(started)
    BY <1>0, <2>1, Queues DEF SupervisorTypeOK
  <2>3. AtTurn' /\ StopClears' /\ UpReaches'
    BY <2>1, <2>2 DEF AtTurn, StopClears, UpReaches
  <2>4. ProxiesKnown'
    BY <1>0, <2>1, <2>2 DEF ProxiesKnown, Lives, AtTurn, Runs
  <2>. QED BY <1>0, <1>s, <1>8, <2>3, <2>4 DEF SupervisorInv, NotReady
<1>9. CASE NothingToStop
  <2>1. /\ UNCHANGED <<proxy, socket, cut, started, child, command, disturbed>>
        /\ phase = "stop" /\ phase' = "stop" /\ queue # <<>>
        /\ queue' = Tail(queue) /\ ~Owned(Turn)
        /\ pidfile' = [pidfile EXCEPT ![Turn] = NoPid]
    BY <1>9 DEF NothingToStop, In, Advance, processes
  <2>2. AtTurn' /\ UpReaches'
    BY <2>1 DEF AtTurn, UpReaches
  <2>3. StopClears'
    BY <1>0, <2>1 DEF StopClears
  <2>4. ProxiesKnown'
    <3>1. ASSUME ~cut, NEW i \in Pids, Lives(i)
          PROVE  pidfile[proxy[i].of] = i /\ proxy[i].of # Turn
      BY <1>0, <2>1, <3>1 DEF ProxiesKnown, Lives, Owned, Runs
    <3>. QED BY <1>0, <2>1, <3>1 DEF ProxiesKnown, Lives
  <2>. QED BY <1>0, <1>s, <1>9, <2>2, <2>3, <2>4 DEF SupervisorInv, NothingToStop
<1>10. CASE Terminate
  <2>1. /\ UNCHANGED <<pidfile, cut, queue, started, child, command, disturbed>>
        /\ phase = "signal" /\ phase' = "await" /\ queue # <<>>
        /\ child \in Pids /\ pidfile[Turn] = child
    BY <1>0, <1>10 DEF Terminate, In, Advance, AtTurn
  <2>2. /\ \A j \in Pids \ {child} : proxy'[j] = proxy[j]
        /\ proxy'[child].does \in {"none", "closing"}
        /\ \/ proxy'[child].does = "none" /\ socket' = Left(child)
           \/ /\ proxy'[child].does = "closing" /\ proxy'[child].of = proxy[child].of
              /\ UNCHANGED socket
    BY <1>0, <1>10, <2>1
    DEF Terminate, Terminated, Ended, NoProxy, SupervisorTypeOK
  <2>3. SocketsOwned'
    BY <1>0, <2>1, <2>2 DEF SocketsOwned, Left
  <2>4. AtTurn' /\ StopClears' /\ UpReaches'
    BY <1>0, <2>1, <2>2 DEF AtTurn, StopClears, UpReaches, Turn, Lives
  <2>5. ProxiesKnown'
    <3>1. ASSUME NEW j \in Pids, Lives(j)'
          PROVE  /\ j # child /\ Lives(j) /\ proxy'[j] = proxy[j]
                 /\ socket[proxy[j].of] = j => socket'[proxy[j].of] = j
      BY <1>0, <2>1, <2>2, <3>1 DEF Lives, Left
    <3>. QED BY <1>0, <2>1, <3>1 DEF ProxiesKnown
  <2>. QED BY <1>0, <2>3, <2>4, <2>5 DEF SupervisorInv
<1>11. CASE Awaited
  <2>1. /\ UNCHANGED <<proxy, socket, cut, started, command, disturbed>>
        /\ phase = "await" /\ phase' = "stop" /\ queue # <<>>
        /\ queue' = Tail(queue)
        /\ pidfile' = [pidfile EXCEPT ![Turn] = NoPid]
    BY <1>11 DEF Awaited, In, Advance, processes
  <2>2. AtTurn' /\ UpReaches'
    BY <2>1 DEF AtTurn, UpReaches
  <2>3. StopClears'
    BY <1>0, <2>1 DEF StopClears
  <2>4. ProxiesKnown'
    <3>1. ASSUME ~cut, NEW i \in Pids, Lives(i)
          PROVE  pidfile[proxy[i].of] = i /\ proxy[i].of # Turn
      BY <1>0, <2>1, <3>1 DEF ProxiesKnown, AtTurn
    <3>. QED BY <1>0, <2>1, <3>1 DEF ProxiesKnown, Lives
  <2>. QED BY <1>0, <1>s, <1>11, <2>2, <2>3, <2>4 DEF SupervisorInv, Awaited
<1>12. CASE FindProxy \/ TerminateLate
  <2>1. /\ UNCHANGED <<proxy, socket, pidfile, cut, queue, started, command, disturbed>>
        /\ phase \in {"stop", "signal"} /\ phase' \in {"signal", "await"} /\ queue # <<>>
        /\ child' \in Pids /\ pidfile[Turn] = child'
        /\ phase' = "await" => ~Runs(child')
    BY <1>0, <1>12 DEF FindProxy, TerminateLate, In, Advance, processes, AtTurn, Owned
  <2>2. AtTurn' /\ StopClears' /\ UpReaches'
    BY <1>0, <2>1 DEF AtTurn, StopClears, UpReaches, Turn, Lives, Runs
  <2>3. ProxiesKnown'
    BY <1>0, <2>1 DEF ProxiesKnown, Lives
  <2>. QED BY <1>0, <1>s, <2>1, <2>2, <2>3 DEF SupervisorInv, processes
<1>13. CASE UpDone \/ StopDone \/ TerminateRaises \/ Interrupt
  <2>1. /\ UNCHANGED <<proxy, socket, pidfile>> /\ phase' = "idle"
        /\ cut' = cut \/ cut' = TRUE
        /\ \/ phase = "own"
           \/ phase = "stop" /\ queue = <<>>
           \/ phase = "signal" /\ command = "down"
           \/ cut' = TRUE
    BY <1>13 DEF UpDone, StopDone, TerminateRaises, In, Interrupt, Finish, processes
  <2>2. AtTurn' /\ StopClears' /\ UpReaches'
    BY <2>1 DEF AtTurn, StopClears, UpReaches
  <2>3. ProxiesKnown'
    BY <1>0, <2>1, Queues DEF ProxiesKnown, Lives
  <2>4. SocketsOwned'
    BY <1>0, <2>1 DEF SocketsOwned
  <2>. QED BY <1>0, <2>2, <2>3, <2>4 DEF SupervisorInv
<1>. QED
  BY <1>1, <1>2, <1>3, <1>4, <1>5, <1>6, <1>7, <1>8, <1>9, <1>10, <1>11, <1>12,
     <1>13
  DEF Supervise

-----------------------------------------------------------------------------
(* Theorems about the supervisor *)

LEMMA StackStep == SupervisorInv /\ [StackNext]_stackVars => SupervisorInv'
<1> SUFFICES ASSUME SupervisorInv, [StackNext]_stackVars PROVE SupervisorInv'
  OBVIOUS
<1>1. CASE UNCHANGED supervisorVars
  BY <1>1
  DEF supervisorVars, processes, progress, SupervisorInv, SupervisorTypeOK,
      SocketsOwned, AtTurn, ProxiesKnown, StopClears, UpReaches, Lives, Runs,
      Reachable, Turn
<1>. QED BY <1>1, ProxyKeeps, SuperviseKeeps DEF StackNext, stackVars

\* Beside any recipes, and as long as no command is killed, a proxy that lives has its
\* pid on record or is the one being started, and holds the socket it has bound.
THEOREM SupervisorInvHolds == StackSpec => []SupervisorInv
BY SupervisorInitInv, StackStep, PTL DEF StackSpec, StackInit

\* Between two commands, none of which was killed, every proxy that is not closing
\* is found by its provider's pid file, whatever proxies died and pids were used
\* again.
THEOREM ProxiesAreNotForgotten == StackSpec => []NoneForgotten
<1>1. SupervisorInv => NoneForgotten
  BY DEF SupervisorInv, ProxiesKnown, Lives, NoneForgotten
<1>. QED BY SupervisorInvHolds, <1>1, PTL

\* A command that ends does so at the end of its queue, or is killed; signers-down
\* ends with an error before, too.
LEMMA CommandsEnd ==
    ASSUME [StackNext]_stackVars, phase # "idle", phase' = "idle"
    PROVE  /\ UNCHANGED processes
           /\ \/ phase = "own" /\ queue = <<>> /\ exit' = "ok"
              \/ /\ phase = "stop" /\ queue = <<>>
                 /\ exit' = IF command = "up" THEN "failed" ELSE "ok"
              \/ command = "down" /\ exit' = "failed"
              \/ exit' = "killed"
BY DEF StackNext, stackVars, supervisorVars, progress, Supervise, Run, KeepProxy,
       ForgetProxy, Look, Spawn, Record, Ready, NotReady, UpDone, NothingToStop,
       FindProxy, Terminate, TerminateLate, TerminateRaises, Awaited, StopDone,
       Interrupt, Finish, GiveUp, Advance, Proxy,
       Load, LoadFails, Bind, BindFails, HandleSignals, Close, Die

\* A signers-up that fails has stopped whatever it had started.
THEOREM FailedUpsStop == StackSpec => FailedUpStops
<1>1. SupervisorInv /\ [StackNext]_stackVars =>
          [phase # "idle" /\ phase' = "idle" /\ exit' = "failed"
              /\ command = "up" /\ ~cut =>
              \A i \in Pids : proxy'[i].of \in ToSet(started) =>
                                proxy'[i].does \in {"none", "closing"}]_stackVars
  <2> SUFFICES ASSUME SupervisorInv, [StackNext]_stackVars,
                      phase # "idle", phase' = "idle", exit' = "failed",
                      command = "up", ~cut,
                      NEW i \in Pids, proxy'[i].of \in ToSet(started)
               PROVE  ~Lives(i)
    BY CommandsEnd DEF Lives, processes
  <2>1. phase = "stop" /\ queue = <<>> /\ command = "up" /\ proxy' = proxy
    BY CommandsEnd DEF processes
  <2>2. pidfile[proxy[i].of] = NoPid
    BY <2>1, Queues DEF SupervisorInv, StopClears
  <2>. QED BY <2>1, <2>2, PidAssumption DEF SupervisorInv, ProxiesKnown
<1>. QED BY <1>1, SupervisorInvHolds, PTL DEF StackSpec, FailedUpStops

\* A signers-up that ends well leaves every provider served, unless a proxy died or
\* lost its socket meanwhile; and by the proxy on record, unless a command was
\* killed before.
THEOREM UpsServe == StackSpec => UpServes
<1>1. SupervisorInv /\ [StackNext]_stackVars =>
          [phase # "idle" /\ exit' = "ok" /\ phase' = "idle" /\ command = "up"
              /\ ~disturbed =>
              \A p \in Places : Reachable(p)
                                /\ (~cut => pidfile[p] = socket[p])]_stackVars
  <2> SUFFICES ASSUME SupervisorInv, [StackNext]_stackVars,
                      phase # "idle", phase' = "idle", exit' = "ok",
                      command = "up", ~disturbed, NEW p \in Places
               PROVE  Reachable(p) /\ (~cut => pidfile[p] = socket[p])
    OBVIOUS
  <2>1. phase = "own" /\ queue = <<>>
    BY CommandsEnd
  <2>2. Reachable(p)
    BY <2>1, Queues DEF SupervisorInv, UpReaches
  <2>3. ASSUME ~cut PROVE pidfile[p] = socket[p]
    <3>1. socket[p] \in Pids /\ Lives(socket[p])
      BY <2>2 DEF Reachable, Lives
    <3>2. proxy[socket[p]].of = p
      BY <3>1 DEF SupervisorInv, SocketsOwned
    <3>. QED BY <2>1, <2>3, <3>1, <3>2 DEF SupervisorInv, ProxiesKnown
  <2>. QED BY <2>2, <2>3
<1>. QED BY <1>1, SupervisorInvHolds, PTL DEF StackSpec, UpServes

\* What holds of the recipes holds of them beside the supervisor.
THEOREM StackKeepsRecipes ==
    StackSpec => []BoundExtractsWhole /\ PreparedIsReady /\ FailuresHaveCauses
BY StackRunsRecipes, BoundExtractIsWhole, PreparedStaysReady, FailuresAreExplained

=============================================================================
