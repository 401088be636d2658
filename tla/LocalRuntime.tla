--------------------------- MODULE LocalRuntime ---------------------------
(***************************************************************************)
(* What `just generate`, `just prepare-runtime` and `just prepare` make of *)
(* a checkout: the operator's signing keys (gen-secrets.py), the cells     *)
(* with their public keys and their bindings to the default extracts       *)
(* (build-cells.py, project-runtime-secrets.py, check-signer-public-keys.  *)
(* py), and the extracts that are published and bound for them (publish-   *)
(* runtime-extracts.py, publisher.py).  One operator runs one recipe after *)
(* the other; each may be killed at any step, and be repeated.             *)
(*                                                                         *)
(* The n-th key of a cell is n.  An extract is known by its publication    *)
(* time, of which its name is made; 0 is that of the default extracts.  A  *)
(* run's publication time is the clock's, which may be set back, or what   *)
(* --published-at says: any.                                               *)
(***************************************************************************)
EXTENDS Integers, Sequences

CONSTANTS
    Cells,             \* the cells, in the order they are built in
    Authorities,       \* those among them that read an extract, in order
    MaxKeys,           \* bound on the signing keys a cell has had
    MaxTime,           \* bound on publication times
    MaxAge             \* MAX_EXTRACT_AGE_SECONDS

Places == {Cells[i] : i \in DOMAIN Cells}

Readers == {Authorities[i] : i \in DOMAIN Authorities}

ASSUME CellsAssumption ==
    /\ Cells \in Seq(Places) /\ Cells # <<>>
    /\ Authorities \in Seq(Readers) /\ Readers \subseteq Places
ASSUME BoundsAssumption ==
    MaxKeys \in [Places -> Nat] /\ MaxTime \in Nat /\ MaxAge \in Nat

VARIABLES
    keyfile,           \* each cell's signing.jwk
    made,              \* how many signing keys were made for each
    root,              \* whether runtime/evidence-cells is there
    cell,              \* each cell's directory in it
    public,            \* the public key in each, 0 for none
    bound,             \* the extract each runtime.yaml names
    projected,         \* whether the other secrets are there
    file,              \* output/sqlite/evidence
    recipe,            \* what is run
    step,              \* where it is
    todo,              \* the cells or authorities its step has left
    time,              \* its publication time
    target,            \* the extracts it has selected
    outcome            \* how the last recipe ended

tree == <<root, cell, public, bound, projected>>

run == <<recipe, step, todo, time, target, outcome>>

runtimeVars == <<keyfile, made, tree, file, run>>

-----------------------------------------------------------------------------
Times == 0 .. MaxTime

Recipes == {"generate", "prepare-runtime", "prepare"}

Steps == {"idle", "secrets", "write", "remove", "build", "sign", "project", "check",
          "plan", "publish", "rebind"}

FileStates == {"absent", "torn", "whole"}

\* What the checkout, and a recipe in it, can be.
RuntimeTypeOK ==
    /\ keyfile \in [Places -> FileStates]
    /\ made \in [Places -> Nat]
    /\ root \in BOOLEAN
    /\ cell \in [Places -> BOOLEAN]
    /\ public \in [Places -> Nat]
    /\ bound \in [Readers -> Times]
    /\ projected \in BOOLEAN
    /\ file \in [Readers -> [Times -> FileStates]]
    /\ recipe \in Recipes \cup {"none"}
    /\ step \in Steps
    /\ todo \in Seq(Places)
    /\ time \in Times
    /\ target \in [Readers -> Times]
    /\ outcome \in {"none", "ok", "failed", "killed"}

NoTarget == [a \in Readers |-> 0]

\* A fresh checkout; `publish-all` may have written the default extracts.
RuntimeInit ==
    /\ keyfile = [c \in Places |-> "absent"]
    /\ made = [c \in Places |-> 0]
    /\ root = FALSE
    /\ cell = [c \in Places |-> FALSE]
    /\ public = [c \in Places |-> 0]
    /\ bound = [a \in Readers |-> 0]
    /\ projected = FALSE
    /\ \E default \in {"absent", "whole"} :
          file = [a \in Readers |-> [t \in Times |-> IF t = 0 THEN default ELSE "absent"]]
    /\ recipe = "none"
    /\ step = "idle"
    /\ todo = <<>>
    /\ time = 0
    /\ target = NoTarget
    /\ outcome = "none"

-----------------------------------------------------------------------------
(* The steps of a recipe *)

At(s) == step = s /\ todo # <<>>

Done(s) == step = s /\ todo = <<>>

Goto(s, left) ==
    /\ step' = s
    /\ todo' = left
    /\ UNCHANGED <<recipe, time, target, outcome>>

End(how) ==
    /\ recipe' = "none"
    /\ step' = "idle"
    /\ todo' = <<>>
    /\ time' = 0
    /\ target' = NoTarget
    /\ outcome' = how

Begin(r) ==
    /\ step = "idle"
    /\ recipe' = r
    /\ IF r = "prepare-runtime" THEN step' = "check" /\ todo' = <<>>
       ELSE step' = "secrets" /\ todo' = Cells
    /\ UNCHANGED <<keyfile, made, tree, file, time, target, outcome>>

Kill ==
    /\ step # "idle"
    /\ End("killed")
    /\ UNCHANGED <<keyfile, made, tree, file>>

\* A signing key is deleted, for `just generate` to make another.
Discard(c) ==
    /\ step = "idle"
    /\ keyfile[c] # "absent"
    /\ made[c] < MaxKeys[c]
    /\ keyfile' = [keyfile EXCEPT ![c] = "absent"]
    /\ UNCHANGED <<made, tree, file, run>>

-----------------------------------------------------------------------------
(* gen-secrets.py *)

\* create_once: a key that is there is kept, whole or not.
KeepKey ==
    /\ At("secrets")
    /\ keyfile[Head(todo)] # "absent"
    /\ Goto("secrets", Tail(todo))
    /\ UNCHANGED <<keyfile, made, tree, file>>

OpenKey ==
    /\ At("secrets")
    /\ keyfile[Head(todo)] = "absent"
    /\ keyfile' = [keyfile EXCEPT ![Head(todo)] = "torn"]
    /\ Goto("write", todo)
    /\ UNCHANGED <<made, tree, file>>

WriteKey ==
    /\ At("write")
    /\ keyfile' = [keyfile EXCEPT ![Head(todo)] = "whole"]
    /\ made' = [made EXCEPT ![Head(todo)] = @ + 1]
    /\ Goto("secrets", Tail(todo))
    /\ UNCHANGED <<tree, file>>

SecretsDone ==
    /\ Done("secrets")
    /\ IF root THEN Goto("remove", <<>>) ELSE Goto("build", Cells)
    /\ UNCHANGED <<keyfile, made, tree, file>>

-----------------------------------------------------------------------------
(* rm -rf, build-cells.py, project-runtime-secrets.py, check-signer-public-keys.py *)

RemoveCell(c) ==
    /\ step = "remove"
    /\ cell[c]
    /\ cell' = [cell EXCEPT ![c] = FALSE]
    /\ public' = [public EXCEPT ![c] = 0]
    /\ bound' = [a \in Readers |-> IF a = c THEN 0 ELSE bound[a]]
    /\ projected' = FALSE
    /\ UNCHANGED <<keyfile, made, root, file, run>>

RemoveRoot ==
    /\ step = "remove"
    /\ \A c \in Places : ~cell[c]
    /\ root' = FALSE
    /\ projected' = FALSE
    /\ Goto("build", Cells)
    /\ UNCHANGED <<keyfile, made, cell, public, bound, file>>

\* The cell is copied, its runtime.yaml naming the default extract.
CopyCell ==
    /\ At("build")
    /\ root' = TRUE
    /\ cell' = [cell EXCEPT ![Head(todo)] = TRUE]
    /\ Goto("sign", todo)
    /\ UNCHANGED <<keyfile, made, public, bound, projected, file>>

WritePublicKey ==
    /\ At("sign")
    /\ keyfile[Head(todo)] = "whole"
    /\ public' = [public EXCEPT ![Head(todo)] = made[Head(todo)]]
    /\ Goto("build", Tail(todo))
    /\ UNCHANGED <<keyfile, made, root, cell, bound, projected, file>>

\* public_jwk: there is no public key to a torn one.
BuildFails ==
    /\ At("sign")
    /\ keyfile[Head(todo)] # "whole"
    /\ End("failed")
    /\ UNCHANGED <<keyfile, made, tree, file>>

BuildDone ==
    /\ Done("build")
    /\ Goto("project", <<>>)
    /\ UNCHANGED <<keyfile, made, tree, file>>

Project ==
    /\ step = "project"
    /\ projected' = TRUE
    /\ Goto("check", <<>>)
    /\ UNCHANGED <<keyfile, made, root, cell, public, bound, file>>

KeysMatch == \A c \in Places : keyfile[c] = "whole" /\ public[c] = made[c]

\* publish-runtime-extracts.py starts, and takes its publication time.
StartPlan ==
    /\ time' \in Times
    /\ step' = "plan"
    /\ UNCHANGED <<recipe, todo, target, outcome>>

Check ==
    /\ step = "check"
    /\ IF ~KeysMatch THEN End("failed")
       ELSE IF recipe = "generate" THEN End("ok") ELSE StartPlan
    /\ UNCHANGED <<keyfile, made, tree, file>>

-----------------------------------------------------------------------------
(* publish-runtime-extracts.py *)

\* Mutant: no extract is too old.
NeverTooOld(p, t) == FALSE

TooOld(p, t) == t - p > MaxAge

\* validate_extract: whole, not of the future, and not too old.
Accepted(a, p, t) == file[a][p] = "whole" /\ p <= t /\ ~TooOld(p, t)

Stale(a, p, t) == file[a][p] = "whole" /\ TooOld(p, t)

\* The extract the authority is to be bound to.
Selected(a, t) == IF Accepted(a, bound[a], t) THEN bound[a] ELSE t

\* The bound extract may be missing or stale, and what is in its place must be valid.
Selectable(a, t) ==
    /\ cell[a]
    /\ file[a][bound[a]] = "absent" \/ Stale(a, bound[a], t) \/ Accepted(a, bound[a], t)
    /\ file[a][Selected(a, t)] = "absent" \/ Accepted(a, Selected(a, t), t)

\* Every binding and every possible target, before any file is written.
Plan ==
    /\ step = "plan"
    /\ \A a \in Readers : Selectable(a, time)
    /\ target' = [a \in Readers |-> Selected(a, time)]
    /\ step' = "publish"
    /\ todo' = Authorities
    /\ UNCHANGED <<keyfile, made, tree, file, recipe, time, outcome>>

PlanRefuses ==
    /\ step = "plan"
    /\ \E a \in Readers : ~Selectable(a, time)
    /\ End("failed")
    /\ UNCHANGED <<keyfile, made, tree, file>>

\* Mutant: the extract is written under its final name.
PublishInPlace ==
    LET a == Head(todo)
        opened == file[a][target[a]] = "absent"
    IN  /\ At("publish")
        /\ file' = [file EXCEPT ![a][target[a]] = IF opened THEN "torn" ELSE "whole"]
        /\ Goto("publish", IF opened THEN todo ELSE Tail(todo))
        /\ UNCHANGED <<keyfile, made, tree>>

\* Mutant: the authority is bound to the extract before it is published.
PublishBindsFirst ==
    LET a == Head(todo)
        rebound == bound[a] = target[a]
    IN  /\ At("publish")
        /\ bound' = [bound EXCEPT ![a] = target[a]]
        /\ file' = IF rebound THEN [file EXCEPT ![a][target[a]] = "whole"] ELSE file
        /\ Goto("publish", IF rebound THEN Tail(todo) ELSE todo)
        /\ UNCHANGED <<keyfile, made, root, cell, public, projected>>

\* Unless it is there, the extract is published: written and made read-only under
\* a temporary name, then linked.  Nobody else publishes meanwhile, so that the
\* name is free.
Publish ==
    /\ At("publish")
    /\ file' = [file EXCEPT ![Head(todo)][target[Head(todo)]] = "whole"]
    /\ Goto("publish", Tail(todo))
    /\ UNCHANGED <<keyfile, made, tree>>

PublishDone ==
    /\ Done("publish")
    /\ Goto("rebind", Authorities)
    /\ UNCHANGED <<keyfile, made, tree, file>>

\* runtime.yaml is replaced, unless it names the extract already.
Rebind ==
    /\ At("rebind")
    /\ bound' = [bound EXCEPT ![Head(todo)] = target[Head(todo)]]
    /\ Goto("rebind", Tail(todo))
    /\ UNCHANGED <<keyfile, made, root, cell, public, projected, file>>

RebindDone ==
    /\ Done("rebind")
    /\ End("ok")
    /\ UNCHANGED <<keyfile, made, tree, file>>

-----------------------------------------------------------------------------
RuntimeNext ==
    \/ \E r \in Recipes : Begin(r)
    \/ KeepKey \/ OpenKey \/ WriteKey \/ SecretsDone
    \/ RemoveRoot \/ CopyCell \/ WritePublicKey \/ BuildFails \/ BuildDone
    \/ Project \/ Check
    \/ \E c \in Places : RemoveCell(c) \/ Discard(c)
    \/ Plan \/ PlanRefuses \/ Publish \/ PublishDone \/ Rebind \/ RebindDone
    \/ Kill

RuntimeSpec == RuntimeInit /\ [][RuntimeNext]_runtimeVars

-----------------------------------------------------------------------------
(* Properties *)

\* Whatever was killed where, a runtime.yaml names an extract that is published
\* and whole, unless it names the default extract it was built with.
BoundExtractsWhole ==
    \A a \in Readers : bound[a] # 0 => file[a][bound[a]] = "whole"

Ends(how) == step # "idle" /\ step' = "idle" /\ outcome' = how

\* When extracts were prepared, also by a run that went on from where another was
\* killed, every gateway finds its extract, of an age it accepts, and signs with
\* the key that it publishes.
PreparedIsReady ==
    [][Ends("ok") /\ recipe # "generate" =>
          /\ \A a \in Readers : cell'[a] /\ file'[a][bound'[a]] = "whole"
                                /\ bound'[a] <= time /\ time - bound'[a] <= MaxAge
          /\ KeysMatch'
          /\ recipe = "prepare" => projected']_runtimeVars

\* A recipe fails for a signing key that is torn or was deleted, for cells that
\* were not built with the present keys, or for an extract that is bound but of
\* the future: never for what a run that was killed has published or bound.
FailuresHaveCauses ==
    [][Ends("failed") =>
          \/ \E c \in Places : keyfile[c] # "whole"
          \/ recipe = "prepare-runtime" /\ ~KeysMatch
          \/ \E a \in Readers : bound[a] > time /\ file[a][bound[a]] = "whole"]_runtimeVars
=============================================================================
