-------------------------- MODULE HostedProvision --------------------------
(***************************************************************************)
(* The hosted provisioner (scripts/provision-hosted-runtime.py) over the   *)
(* outputs of one direct Evidence cell: its secrets, its immutable         *)
(* extracts and its runtime.  A writer runs one command at a time, either  *)
(* `provision --target <cell>-evidence` or `publish-extract`, as a         *)
(* sequence of file-system steps, and may be killed between any two.  The  *)
(* cell's gateway opens the bound extract when it starts.                  *)
(*                                                                         *)
(* Files are abstracted to how far their creation got:                     *)
(*   absent -> partial  (O_EXCL create; umask 077 leaves mode 0400)        *)
(*          -> complete (all bytes written, mode still 0400, owner root)   *)
(*          -> sealed   (chmod 0444: readable by the gateway's uid)        *)
(* An extract is identified by the second it was published in, which is    *)
(* also its file name; its content is a function of that second and of the *)
(* release of the assets it was generated from.                            *)
(***************************************************************************)
EXTENDS Integers

CONSTANTS
    Writers,           \* provisioner containers that may run at once
    Releases,          \* asset releases, told apart by their extract rows
    NoRelease,         \* the release of an absent extract
    MaxTime,           \* bound on the clock, in seconds
    DistinctSeconds    \* no command starts in the second an earlier one,
                       \* since killed, had started in

ASSUME MaxTimeAssumption == MaxTime \in Nat
ASSUME ReleaseAssumption == NoRelease \notin Releases
ASSUME DistinctSecondsAssumption == DistinctSeconds \in BOOLEAN

VARIABLES
    clock,             \* wall clock, whole seconds
    secrets,           \* the secret output tree
    extracts,          \* the extract output, by publication time
    bundle,            \* the runtime output below bundle/
    runtime,           \* runtime.yaml and the extract it binds
    rollback,          \* runtime.rollback-<extract>.yaml, by extract time
    strayTemp,         \* whether a killed writer left a .runtime-*.yaml file
    pc,                \* where each writer is in its command
    job,               \* the command and its local variables
    refused,           \* writers whose last command ended in a refusal
    abandoned,         \* starting seconds of the commands that were killed
    everBound,         \* ghost: every extract runtime.yaml has been bound to
    serving            \* the extract the running gateway has open

vars == <<clock, secrets, extracts, bundle, runtime, rollback, strayTemp, pc,
          job, refused, abandoned, everBound, serving>>

outputs == <<secrets, extracts, bundle, runtime, rollback, strayTemp, everBound>>

-----------------------------------------------------------------------------
(* Types *)

Times == 0 .. MaxTime
NoTime == -1

FileState == {"absent", "partial", "complete", "sealed"}
Readable == {"complete", "sealed"}   \* whole content, to a reader that is root

\* legacy: the exact tree with files of mode 0400, from an older provisioner;
\* mixed: part of its modes upgraded; complete: exact tree, not yet handed to
\* uid 65532; owned: handed over.
SecretState == {"absent", "partial", "complete", "owned", "legacy", "mixed"}

\* written: every bundle file in place, directory modes not 0555;
\* frozen: directory modes final.
BundleState == {"absent", "partial", "written", "frozen"}

ProvisionSteps ==
    {"pv_time", "pv_check", "secrets_open", "secrets_write", "secrets_own",
     "extract_check", "extract_create", "extract_write", "extract_seal",
     "extract_verify", "runtime_check", "bundle_open", "bundle_write",
     "runtime_create", "runtime_write", "runtime_seal", "bundle_freeze",
     "runtime_verify"}

PublishSteps ==
    {"pb_time", "append", "append_write", "append_seal", "rebind_read",
     "rollback_open", "rollback_write", "rollback_seal", "rebind_temp",
     "rebind_replace"}

\* The steps of a provision after its checks: from here on it writes.
InstallSteps == ProvisionSteps \ {"pv_time", "pv_check"}

Job == [cmd : {"none", "provision", "publish"}, rel : Releases \cup {NoRelease},
        now : Times \cup {NoTime}, pub : Times \cup {NoTime}]

Adopting(j, t) == [cmd |-> j.cmd, rel |-> j.rel, now |-> j.now, pub |-> t]

NoJob == [cmd |-> "none", rel |-> NoRelease, now |-> NoTime, pub |-> NoTime]

\* Steps at which job.pub holds the result of _publication_time.
PubKnown == (ProvisionSteps \ {"pv_time"}) \cup (PublishSteps \ {"pb_time"})

FilesOK ==
    /\ clock \in Times
    /\ secrets \in SecretState
    /\ extracts \in [Times -> [st : FileState, rel : Releases \cup {NoRelease}]]
    /\ bundle \in BundleState
    /\ runtime \in [st : FileState, bound : Times \cup {NoTime}]
    /\ rollback \in [Times -> FileState]
    /\ strayTemp \in BOOLEAN
    /\ abandoned \subseteq Times
    /\ everBound \subseteq Times \cup {NoTime}
    /\ serving \in Times \cup {NoTime}

ControlOK ==
    /\ pc \in [Writers -> {"idle"} \cup ProvisionSteps \cup PublishSteps]
    /\ job \in [Writers -> Job]
    /\ \A w \in Writers : pc[w] # "idle" => job[w].now \in Times
    /\ \A w \in Writers : pc[w] \in PubKnown => job[w].pub \in Times
    /\ refused \subseteq Writers

\* What the outputs, and a command between two steps, can hold: in particular a
\* command past its publication time has one, on the clock.
TypeOK == FilesOK /\ ControlOK

-----------------------------------------------------------------------------
(* Initial states: volumes nothing was provisioned to, or volumes an older *)
(* provisioner left with secret files of mode 0400.                        *)

Absent == [st |-> "absent", rel |-> NoRelease]

Fresh ==
    /\ secrets = "absent"
    /\ extracts = [t \in Times |-> Absent]
    /\ bundle = "absent"
    /\ runtime = [st |-> "absent", bound |-> NoTime]
    /\ everBound = {}

Legacy ==
    /\ secrets = "legacy"
    /\ \E r \in Releases :
          extracts = [t \in Times |->
                        IF t = 0 THEN [st |-> "sealed", rel |-> r] ELSE Absent]
    /\ bundle = "frozen"
    /\ runtime = [st |-> "sealed", bound |-> 0]
    /\ everBound = {0}

Init ==
    /\ clock = 0
    /\ Fresh \/ Legacy
    /\ rollback = [t \in Times |-> "absent"]
    /\ strayTemp = FALSE
    /\ pc = [w \in Writers |-> "idle"]
    /\ job = [w \in Writers |-> NoJob]
    /\ refused = {}
    /\ abandoned = {}
    /\ serving = NoTime

-----------------------------------------------------------------------------
(* What a command reads *)

AnyTemp == strayTemp \/ \E w \in Writers : pc[w] = "rebind_replace"

\* validate_extract under REUSE_MAX_EXTRACT_AGE_SECONDS: whole, self-consistent
\* and not published in the future.
ValidExtract(t, now) == t \in Times /\ extracts[t].st \in Readable /\ t <= now

\* Mutant: the publication time of whatever runtime.yaml would name.
PublicationTimeUnguarded(now) == {runtime.bound}

\* The publication a command adopts, or {} when it is refused.
PublicationTime(now) ==
    IF runtime.st = "absent"
    THEN LET existing == {t \in Times : extracts[t].st # "absent"}
         IN  IF existing = {} THEN {now}
             ELSE {t \in existing : existing = {t} /\ ValidExtract(t, now)}
    ELSE {t \in {runtime.bound} : /\ runtime.st \in Readable
                                  /\ ValidExtract(t, now)}

\* Mutant: nothing beside this run's own extract is preserved.
NothingPreserved(t, active) == FALSE

\* _preserve_superseded_extracts: publications of this authority other than the
\* active one, as immutable files.
Preserved(t, active) == t # active /\ extracts[t].st = "sealed"

ActiveExtracts(active) ==
    {t \in Times : extracts[t].st # "absent" /\ ~Preserved(t, active)}

\* What this run staged is exactly what the extract output carries.
ExtractsExact(w) ==
    /\ ActiveExtracts(job[w].pub) = {job[w].pub}
    /\ extracts[job[w].pub] = [st |-> "sealed", rel |-> job[w].rel]

ExtractsAccepted(w) == ActiveExtracts(job[w].pub) = {} \/ ExtractsExact(w)

\* _preserve_extract_rollback: a rollback runtime of any other mode is a mismatch.
RollbacksPreserved == \A t \in Times : rollback[t] \in {"absent", "sealed"}

RuntimeExact(w) ==
    /\ bundle = "frozen"
    /\ runtime = [st |-> "sealed", bound |-> job[w].pub]
    /\ RollbacksPreserved
    /\ ~AnyTemp

RuntimeAccepted(w) ==
    \/ /\ bundle = "absent"
       /\ runtime.st = "absent"
       /\ RollbacksPreserved
       /\ ~AnyTemp
    \/ RuntimeExact(w)

SecretsAccepted == secrets \in {"absent", "complete", "owned", "legacy"}

-----------------------------------------------------------------------------
(* Commands start, are refused, and end *)

Goto(w, step) == pc' = [pc EXCEPT ![w] = step]

\* The process ends and its locals with it.
Finish(w) ==
    /\ Goto(w, "idle")
    /\ job' = [job EXCEPT ![w] = NoJob]
    /\ UNCHANGED refused

\* A ProvisionError: what was asked stays on record in job[w].
Refuse(w) ==
    /\ Goto(w, "idle")
    /\ refused' = refused \cup {w}
    /\ UNCHANGED <<outputs, job>>

\* One read-only step: on to `step` when the code's condition holds, else refusal.
Require(w, condition, step) ==
    \/ condition /\ Goto(w, step) /\ UNCHANGED <<outputs, job, refused>>
    \/ ~condition /\ Refuse(w)

world == <<clock, abandoned, serving>>

Start(w, cmd, step) ==
    /\ pc[w] = "idle"
    /\ DistinctSeconds => clock \notin abandoned
    /\ \E r \in Releases :
          job' = [job EXCEPT ![w] =
                    [cmd |-> cmd, rel |-> r, now |-> clock, pub |-> NoTime]]
    /\ Goto(w, step)
    /\ refused' = refused \ {w}
    /\ UNCHANGED <<outputs, world>>

StartProvision(w) == Start(w, "provision", "pv_time")

StartPublish(w) == Start(w, "publish", "pb_time")

AdoptPublication(w, t, step) ==
    /\ job' = [job EXCEPT ![w] = Adopting(job[w], t)]
    /\ Goto(w, step)
    /\ UNCHANGED <<outputs, refused>>

-----------------------------------------------------------------------------
(* provision --target <cell>-evidence *)

ProvisionTime(w) ==
    /\ pc[w] = "pv_time"
    /\ LET found == PublicationTime(job[w].now)
       IN  \/ \E t \in found : AdoptPublication(w, t, "pv_check")
           \/ found = {} /\ Refuse(w)
    /\ UNCHANGED world

\* Mutant: the runtime output is left to its own installer's check.
ProvisionCheckForgetsRuntime(w) ==
    /\ pc[w] = "pv_check"
    /\ Require(w, SecretsAccepted /\ ExtractsAccepted(w), "secrets_open")
    /\ UNCHANGED world

\* All outputs are checked before any of them is written.
ProvisionCheck(w) ==
    /\ pc[w] = "pv_check"
    /\ Require(w, SecretsAccepted /\ ExtractsAccepted(w) /\ RuntimeAccepted(w),
               "secrets_open")
    /\ UNCHANGED world

SecretsOpen(w) ==
    /\ pc[w] = "secrets_open"
    /\ \/ /\ SecretsAccepted
          /\ secrets' = IF secrets = "absent" THEN "partial"
                        ELSE IF secrets = "legacy" THEN "mixed" ELSE secrets
          /\ Goto(w, "secrets_write")
          /\ UNCHANGED <<extracts, bundle, runtime, rollback, strayTemp,
                         everBound, job, refused>>
       \/ ~SecretsAccepted /\ Refuse(w)
    /\ UNCHANGED world

\* A legacy tree already belongs to uid 65532.
SecretsWrite(w) ==
    /\ pc[w] = "secrets_write"
    /\ secrets' = IF secrets = "partial" THEN "complete"
                  ELSE IF secrets = "mixed" THEN "owned" ELSE secrets
    /\ Goto(w, "secrets_own")
    /\ UNCHANGED <<extracts, bundle, runtime, rollback, strayTemp, everBound,
                   job, refused, world>>

SecretsOwn(w) ==
    /\ pc[w] = "secrets_own"
    /\ secrets' = "owned"
    /\ Goto(w, "extract_check")
    /\ UNCHANGED <<extracts, bundle, runtime, rollback, strayTemp, everBound,
                   job, refused, world>>

ExtractCheck(w) ==
    /\ pc[w] = "extract_check"
    /\ Require(w, ExtractsAccepted(w), "extract_create")
    /\ UNCHANGED world

\* Steps that change the extract output and nothing else of the outputs.
ExtractStep(w, from, step, t, file) ==
    /\ pc[w] = from
    /\ extracts' = [extracts EXCEPT ![t] = file]
    /\ Goto(w, step)
    /\ UNCHANGED <<secrets, bundle, runtime, rollback, strayTemp, everBound,
                   job, refused, world>>

\* _install_tree passes over a file that is already there.
ExtractCreate(w) ==
    /\ pc[w] = "extract_create"
    /\ \/ /\ extracts[job[w].pub].st = "absent"
          /\ ExtractStep(w, "extract_create", "extract_write", job[w].pub,
                         [st |-> "partial", rel |-> job[w].rel])
       \/ /\ extracts[job[w].pub].st # "absent"
          /\ Goto(w, "extract_verify")
          /\ UNCHANGED <<outputs, job, refused, world>>

ExtractWrite(w) ==
    ExtractStep(w, "extract_write", "extract_seal", job[w].pub,
                [st |-> "complete", rel |-> extracts[job[w].pub].rel])

ExtractSeal(w) ==
    ExtractStep(w, "extract_seal", "extract_verify", job[w].pub,
                [st |-> "sealed", rel |-> extracts[job[w].pub].rel])

ExtractVerify(w) ==
    /\ pc[w] = "extract_verify"
    /\ Require(w, ExtractsExact(w), "runtime_check")
    /\ UNCHANGED world

RuntimeCheck(w) ==
    /\ pc[w] = "runtime_check"
    /\ Require(w, RuntimeAccepted(w), "bundle_open")
    /\ UNCHANGED world

\* Steps that change the runtime output below bundle/, or runtime.yaml.
BundleStep(w, from, step, state) ==
    /\ pc[w] = from
    /\ bundle' = state
    /\ Goto(w, step)
    /\ UNCHANGED <<secrets, extracts, runtime, rollback, strayTemp, everBound,
                   job, refused, world>>

RuntimeStep(w, from, step, file) ==
    /\ pc[w] = from
    /\ runtime' = file
    /\ Goto(w, step)
    /\ everBound' = IF file.st = "sealed" THEN everBound \cup {file.bound}
                                          ELSE everBound
    /\ UNCHANGED <<secrets, extracts, bundle, rollback, strayTemp, job, refused,
                   world>>

\* Every directory is opened to mode 0755 before its files are visited, on a
\* first installation and on a repeated one alike.
BundleOpen(w) ==
    BundleStep(w, "bundle_open", "bundle_write",
               IF bundle = "absent" THEN "partial"
               ELSE IF bundle = "frozen" THEN "written" ELSE bundle)

BundleWrite(w) == BundleStep(w, "bundle_write", "runtime_create", "written")

\* runtime.yaml sorts after everything below bundle/, so it is created last.
RuntimeCreate(w) ==
    \/ /\ runtime.st = "absent"
       /\ RuntimeStep(w, "runtime_create", "runtime_write",
                      [st |-> "partial", bound |-> job[w].pub])
    \/ /\ pc[w] = "runtime_create"
       /\ runtime.st # "absent"
       /\ Goto(w, "bundle_freeze")
       /\ UNCHANGED <<outputs, job, refused, world>>

RuntimeWrite(w) ==
    RuntimeStep(w, "runtime_write", "runtime_seal",
                [st |-> "complete", bound |-> runtime.bound])

RuntimeSeal(w) ==
    RuntimeStep(w, "runtime_seal", "bundle_freeze",
                [st |-> "sealed", bound |-> runtime.bound])

BundleFreeze(w) == BundleStep(w, "bundle_freeze", "runtime_verify", "frozen")

RuntimeVerify(w) ==
    /\ pc[w] = "runtime_verify"
    /\ \/ RuntimeExact(w) /\ Finish(w) /\ UNCHANGED outputs
       \/ ~RuntimeExact(w) /\ Refuse(w)
    /\ UNCHANGED world

-----------------------------------------------------------------------------
(* publish-extract *)

\* An extract generated in the second of the bound one would carry its name.
PublishTime(w) ==
    /\ pc[w] = "pb_time"
    /\ LET found == PublicationTime(job[w].now)
       IN  \/ \E t \in found \ {job[w].now} : AdoptPublication(w, t, "append")
           \/ found \subseteq {job[w].now} /\ Refuse(w)
    /\ UNCHANGED world

\* _append_file compares digests: a whole file generated from the same assets.
SameContent(t, rel) == extracts[t].st \in Readable /\ extracts[t].rel = rel

\* Mutant: a file that is already there is taken for the staged one.
AppendTrustsName(w) ==
    /\ pc[w] = "append"
    /\ \/ /\ extracts[job[w].now].st = "absent"
          /\ ExtractStep(w, "append", "append_write", job[w].now,
                         [st |-> "partial", rel |-> job[w].rel])
       \/ /\ extracts[job[w].now].st # "absent"
          /\ Require(w, TRUE, "rebind_read")
          /\ UNCHANGED world

\* Mutant: a mismatched file of that name is replaced by the staged one.
AppendOverwrites(w) ==
    /\ pc[w] = "append"
    /\ \/ /\ \/ extracts[job[w].now].st = "absent"
             \/ ~SameContent(job[w].now, job[w].rel)
          /\ ExtractStep(w, "append", "append_write", job[w].now,
                         [st |-> "partial", rel |-> job[w].rel])
       \/ /\ SameContent(job[w].now, job[w].rel)
          /\ Require(w, TRUE, "rebind_read")
          /\ UNCHANGED world

Append(w) ==
    /\ pc[w] = "append"
    /\ \/ /\ extracts[job[w].now].st = "absent"
          /\ ExtractStep(w, "append", "append_write", job[w].now,
                         [st |-> "partial", rel |-> job[w].rel])
       \/ /\ extracts[job[w].now].st # "absent"
          /\ Require(w, SameContent(job[w].now, job[w].rel), "rebind_read")
          /\ UNCHANGED world

AppendWrite(w) ==
    ExtractStep(w, "append_write", "append_seal", job[w].now,
                [st |-> "complete", rel |-> extracts[job[w].now].rel])

\* Mutant: the mode of the create is relied on, under umask 077.
AppendSealForgotten(w) ==
    ExtractStep(w, "append_seal", "rebind_read", job[w].now,
                extracts[job[w].now])

AppendSeal(w) ==
    ExtractStep(w, "append_seal", "rebind_read", job[w].now,
                [st |-> "sealed", rel |-> extracts[job[w].now].rel])

\* _replace_extract_binding reads the runtime once; what it renders and what it
\* keeps for a rollback both come from that reading.
RebindRead(w) ==
    /\ pc[w] = "rebind_read"
    /\ Require(w, runtime.st \in Readable /\ runtime.bound = job[w].pub,
               "rollback_open")
    /\ UNCHANGED world

RollbackStep(w, from, step, state) ==
    /\ pc[w] = from
    /\ rollback' = [rollback EXCEPT ![job[w].pub] = state]
    /\ Goto(w, step)
    /\ UNCHANGED <<secrets, extracts, bundle, runtime, strayTemp, everBound,
                   job, refused, world>>

\* Mutant: any rollback file of that name is taken for this one.
RollbackOpenTrustsName(w) ==
    /\ pc[w] = "rollback_open"
    /\ \/ /\ rollback[job[w].pub] = "absent"
          /\ RollbackStep(w, "rollback_open", "rollback_write", "partial")
       \/ /\ rollback[job[w].pub] # "absent"
          /\ Require(w, TRUE, "rebind_temp")
          /\ UNCHANGED world

\* A rollback left by an earlier attempt has to be whole and of mode 0444.
RollbackOpen(w) ==
    /\ pc[w] = "rollback_open"
    /\ \/ /\ rollback[job[w].pub] = "absent"
          /\ RollbackStep(w, "rollback_open", "rollback_write", "partial")
       \/ /\ rollback[job[w].pub] # "absent"
          /\ Require(w, rollback[job[w].pub] = "sealed", "rebind_temp")
          /\ UNCHANGED world

RollbackWrite(w) == RollbackStep(w, "rollback_write", "rollback_seal", "complete")

RollbackSeal(w) == RollbackStep(w, "rollback_seal", "rebind_temp", "sealed")

\* The replacement is written under a temporary name in the runtime output.
RebindTemp(w) ==
    /\ pc[w] = "rebind_temp"
    /\ Goto(w, "rebind_replace")
    /\ UNCHANGED <<outputs, job, refused, world>>

\* Mutant: runtime.yaml is rewritten in place.
RebindInPlace(w) ==
    RuntimeStep(w, "rebind_replace", "runtime_write",
                [st |-> "partial", bound |-> job[w].now])

\* os.replace: runtime.yaml names the new extract in one step.
RebindReplace(w) ==
    /\ pc[w] = "rebind_replace"
    /\ runtime' = [st |-> "sealed", bound |-> job[w].now]
    /\ everBound' = everBound \cup {job[w].now}
    /\ Finish(w)
    /\ UNCHANGED <<secrets, extracts, bundle, rollback, strayTemp, world>>

-----------------------------------------------------------------------------
(* Failures and the rest of the world *)

\* The container is killed: no handler runs and every file stays as it is.
Kill(w) ==
    /\ pc[w] # "idle"
    /\ Finish(w)
    /\ strayTemp' = (strayTemp \/ pc[w] = "rebind_replace")
    /\ abandoned' = abandoned \cup {job[w].now}
    /\ UNCHANGED <<clock, secrets, extracts, bundle, runtime, rollback,
                   everBound, serving>>

Tick ==
    /\ clock < MaxTime
    /\ clock' = clock + 1
    /\ UNCHANGED <<outputs, pc, job, refused, abandoned, serving>>

\* The host's clock is set back.
StepBack ==
    /\ clock > 0
    /\ clock' = clock - 1
    /\ UNCHANGED <<outputs, pc, job, refused, abandoned, serving>>

\* What a gateway of uid 65532 needs in order to start.
Startable ==
    /\ runtime.st = "sealed"
    /\ bundle \in {"written", "frozen"}
    /\ extracts[runtime.bound].st = "sealed"
    /\ secrets \in {"owned", "legacy", "mixed"}

\* The operator restarts the cell's gateway, which opens the bound extract.
GatewayRestart ==
    /\ serving' = IF Startable THEN runtime.bound ELSE NoTime
    /\ UNCHANGED <<clock, outputs, pc, job, refused, abandoned>>

Provision(w) ==
    \/ StartProvision(w) \/ ProvisionTime(w) \/ ProvisionCheck(w)
    \/ SecretsOpen(w) \/ SecretsWrite(w) \/ SecretsOwn(w)
    \/ ExtractCheck(w) \/ ExtractCreate(w) \/ ExtractWrite(w)
    \/ ExtractSeal(w) \/ ExtractVerify(w)
    \/ RuntimeCheck(w) \/ BundleOpen(w) \/ BundleWrite(w)
    \/ RuntimeCreate(w) \/ RuntimeWrite(w) \/ RuntimeSeal(w)
    \/ BundleFreeze(w) \/ RuntimeVerify(w)

Publish(w) ==
    \/ StartPublish(w) \/ PublishTime(w)
    \/ Append(w) \/ AppendWrite(w) \/ AppendSeal(w)
    \/ RebindRead(w) \/ RollbackOpen(w) \/ RollbackWrite(w)
    \/ RollbackSeal(w) \/ RebindTemp(w) \/ RebindReplace(w)

Next ==
    \/ \E w \in Writers : Provision(w) \/ Publish(w) \/ Kill(w)
    \/ Tick
    \/ StepBack
    \/ GatewayRestart

Spec == Init /\ [][Next]_vars

-----------------------------------------------------------------------------
(* Properties *)

\* Whatever is killed, repeated or run at once, runtime.yaml never names an
\* extract that is missing or half written: the extract is read back before the
\* runtime output is touched, and a publication is whole before it is bound.
BoundExtractComplete ==
    runtime.st # "absent" => extracts[runtime.bound].st \in Readable

\* Once the runtime is installed, its gateway can be restarted at any moment,
\* also after a command was killed half way: runtime.yaml is the last file of an
\* installation and the extract it comes to name is readable before that.
GatewayRestartable == runtime.st = "sealed" => Startable

\* Every binding that was superseded can be restored: its runtime is kept whole
\* as a rollback file, and the extract that file names is still there.
RollbackReady ==
    \A t \in everBound \ {runtime.bound} :
        rollback[t] = "sealed" /\ extracts[t].st = "sealed"

\* The strengthening that makes BoundExtractComplete inductive: no two writers
\* are writing one extract; an extract being written is exactly as far as its
\* writer is; and it is whole once its writer has turned to the runtime.
Writing == {"extract_write", "extract_seal", "append_write", "append_seal"}

Installing == {"runtime_check", "bundle_open", "bundle_write", "runtime_create",
               "runtime_write", "runtime_seal", "bundle_freeze", "runtime_verify"}

Rebinding == {"rebind_read", "rollback_open", "rollback_write", "rollback_seal",
              "rebind_temp", "rebind_replace"}

ExtractOf(w) == IF pc[w] \in PublishSteps THEN job[w].now ELSE job[w].pub

Progress(w) ==
    /\ pc[w] \in {"extract_write", "append_write"} =>
          extracts[ExtractOf(w)].st = "partial"
    /\ pc[w] \in {"extract_seal", "append_seal"} =>
          extracts[ExtractOf(w)].st = "complete"
    /\ pc[w] \in Installing \cup Rebinding =>
          extracts[ExtractOf(w)].st \in Readable
    /\ pc[w] \in {"runtime_write", "runtime_seal"} => runtime.st # "absent"

WritersApart ==
    \A v, w \in Writers :
        (v # w /\ pc[v] \in Writing /\ pc[w] \in Writing) =>
            ExtractOf(v) # ExtractOf(w)

BoundInv ==
    /\ TypeOK
    /\ \A w \in Writers : Progress(w)
    /\ WritersApart
    /\ runtime.st # "absent" => runtime.bound \in Times
    /\ BoundExtractComplete

\* As long as no command was killed, provisioning and publishing compose: a
\* provision is refused only when its clock is behind the bound publication or
\* its assets would generate other rows, a publication only when there is no
\* runtime to rebind or it would not be newer.
RefusalsExplained ==
    abandoned = {} =>
        \A w \in Writers : w \in refused =>
            \/ job[w].now < runtime.bound
            \/ /\ job[w].cmd = "provision"
               /\ runtime.bound \in Times
               /\ extracts[runtime.bound].rel # job[w].rel
            \/ /\ job[w].cmd = "publish"
               /\ runtime.st = "absent" \/ runtime.bound = job[w].now

\* A provision that is going to be refused is refused before it has written
\* anything: the checks ahead of the installation decide.
PreflightDecides ==
    [][\A w \in Writers : pc[w] \in InstallSteps => w \notin refused']_vars

\* A published extract keeps its bytes, and never becomes less readable.
ExtractsImmutable ==
    [][\A t \in Times :
          /\ extracts[t].st = "sealed" => extracts'[t] = extracts[t]
          /\ extracts[t].st # "absent" =>
                /\ extracts'[t].rel = extracts[t].rel
                /\ extracts[t].st \in Readable => extracts'[t].st \in Readable]_vars

\* With the extract the runtime is bound to, and the one being served, the
\* provisioner implements the ledger of immutable extracts.
Ledger == INSTANCE ExtractLedger WITH
    published <- {t \in Times : extracts[t].st = "sealed"},
    bound <- IF runtime.st = "sealed" THEN runtime.bound ELSE NoTime

ImplementsLedger == Ledger!Spec

\* test_orphan_direct_extract_recovers_after_pre_runtime_crash: when a crash came
\* before the runtime and left an extract behind, a later provision from the
\* same assets, on a clock that is not behind, adopts it.
OrphanExtractRecovers ==
    \A w \in refused :
        (job[w].cmd = "provision" /\ runtime.st = "absent") =>
            \A t \in Times : extracts[t].st # "absent" =>
                job[w].now < t \/ extracts[t].rel # job[w].rel

\* "A malformed, metadata-mismatched, or non-newer publication fails closed":
\* the binding never moves to an extract that is not newer.
NonNewerFailsClosed ==
    [][(runtime.st = "sealed" /\ runtime' # runtime) =>
          runtime'.bound > runtime.bound]_vars
=============================================================================
