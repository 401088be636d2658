----------------------- MODULE HostedProvision_proofs -----------------------
(***************************************************************************)
(* Theorems about HostedProvision, for every set of writers and releases   *)
(* and every bound on the clock.                                           *)
(***************************************************************************)
EXTENDS HostedProvision, TLAPS

USE DEF FileState, Readable, SecretState, BundleState, ProvisionSteps,
        PublishSteps, PubKnown, InstallSteps, Times, NoTime

-----------------------------------------------------------------------------
(* Type correctness *)

\* A publication time a command adopts is one of the modelled seconds.
LEMMA PublicationTimeType ==
    ASSUME FilesOK, NEW now \in Times
    PROVE  PublicationTime(now) \subseteq Times
BY DEF FilesOK, PublicationTime, ValidExtract

\* What changes no file, no clock and nothing of the gateway keeps their types.
LEMMA FilesUnchanged ==
    ASSUME FilesOK, UNCHANGED <<outputs, world>>
    PROVE  FilesOK'
BY DEF FilesOK, outputs, world

\* A step of the extract output keeps the types of the files.
LEMMA ExtractStepType ==
    ASSUME FilesOK, NEW w, NEW from, NEW step, NEW t \in Times,
           NEW st \in FileState, NEW rel \in Releases \cup {NoRelease},
           ExtractStep(w, from, step, t, [st |-> st, rel |-> rel])
    PROVE  FilesOK'
BY DEF FilesOK, ExtractStep, world

\* So does a step of the bundle.
LEMMA BundleStepType ==
    ASSUME FilesOK, NEW w, NEW from, NEW step, NEW state \in BundleState,
           BundleStep(w, from, step, state)
    PROVE  FilesOK'
BY DEF FilesOK, BundleStep, world

\* So does a step that writes runtime.yaml.
LEMMA RuntimeStepType ==
    ASSUME FilesOK, NEW w, NEW from, NEW step, NEW st \in FileState,
           NEW bound \in Times \cup {NoTime},
           RuntimeStep(w, from, step, [st |-> st, bound |-> bound])
    PROVE  FilesOK'
BY DEF FilesOK, RuntimeStep, world

\* So does a step that writes a rollback file.
LEMMA RollbackStepType ==
    ASSUME FilesOK, NEW w, NEW from, NEW step, NEW state \in FileState,
           RollbackStep(w, from, step, state)
    PROVE  FilesOK'
BY DEF FilesOK, RollbackStep, world

\* A writer that knows its publication moves on, or ends, with its job.
LEMMA ControlGoto ==
    ASSUME ControlOK, NEW w \in Writers, NEW step \in PubKnown \cup {"idle"},
           pc[w] \in PubKnown, pc' = [pc EXCEPT ![w] = step], job' = job,
           refused' \subseteq refused \cup {w}
    PROVE  ControlOK'
BY DEF ControlOK

\* A refused writer is idle, with its job on record.
LEMMA ControlRefuse ==
    ASSUME ControlOK, NEW w \in Writers, Refuse(w)
    PROVE  ControlOK'
BY DEF ControlOK, Refuse, Goto

\* A finished writer is idle, with no job.
LEMMA ControlFinish ==
    ASSUME ControlOK, NEW w \in Writers, Finish(w)
    PROVE  ControlOK'
BY DEF ControlOK, Finish, Goto, NoJob, Job

\* A writer that adopts a publication knows it from then on.
LEMMA ControlAdopt ==
    ASSUME ControlOK, NEW w \in Writers, NEW t \in Times, pc[w] # "idle",
           NEW step \in PubKnown, AdoptPublication(w, t, step)
    PROVE  ControlOK'
BY DEF ControlOK, AdoptPublication, Goto, Adopting, Job

\* The initial volumes are well typed.
LEMMA InitType == Init => TypeOK
<1> SUFFICES ASSUME Init PROVE TypeOK
  OBVIOUS
<1>1. 0 \in Times /\ clock = 0
  BY MaxTimeAssumption DEF Init
<1>2. ControlOK
  <2>1. NoJob \in Job
    BY DEF NoJob, Job
  <2>. QED BY <2>1 DEF Init, ControlOK
<1>3. CASE Fresh
  <2>1. FilesOK
    BY <1>1, <1>3 DEF Init, Fresh, FilesOK, Absent
  <2>. QED BY <2>1, <1>2 DEF TypeOK
<1>4. CASE Legacy
  <2>1. extracts \in [Times -> [st : FileState, rel : Releases \cup {NoRelease}]]
    BY <1>4 DEF Legacy, Absent
  <2>2. FilesOK
    BY <1>1, <1>4, <2>1 DEF Init, Legacy, FilesOK
  <2>. QED BY <2>2, <1>2 DEF TypeOK
<1>. QED BY <1>3, <1>4 DEF Init

\* Every step of every command keeps the writers' control well typed.
LEMMA ControlType == TypeOK /\ [Next]_vars => ControlOK'
<1> SUFFICES ASSUME TypeOK, [Next]_vars PROVE ControlOK'
  OBVIOUS
<1>0. ControlOK /\ FilesOK
  BY DEF TypeOK
<1>1. ASSUME NEW w \in Writers, StartProvision(w) \/ StartPublish(w)
      PROVE  ControlOK'
  <2>1. PICK cmd \in {"provision", "publish"},
             step \in {"pv_time", "pb_time"} : Start(w, cmd, step)
    BY <1>1 DEF StartProvision, StartPublish
  <2>2. PICK r \in Releases :
             job' = [job EXCEPT ![w] = [cmd |-> cmd, rel |-> r,
                                        now |-> clock, pub |-> NoTime]]
    BY <2>1 DEF Start
  <2>3. [cmd |-> cmd, rel |-> r, now |-> clock, pub |-> NoTime] \in Job
    BY <1>0 DEF FilesOK, Job
  <2>4. job' \in [Writers -> Job] /\ job'[w].now \in Times
    BY <1>0, <2>2, <2>3 DEF FilesOK, ControlOK
  <2>. QED BY <1>0, <2>1, <2>2, <2>4 DEF ControlOK, Start, Goto
<1>2. ASSUME NEW w \in Writers, ProvisionTime(w) \/ PublishTime(w)
      PROVE  ControlOK'
  <2>1. pc[w] # "idle" /\ job[w].now \in Times
    BY <1>0, <1>2 DEF ControlOK, ProvisionTime, PublishTime
  <2>2. PublicationTime(job[w].now) \subseteq Times
    BY <1>0, <2>1, PublicationTimeType
  <2>3. CASE Refuse(w)
    BY <1>0, <2>3, ControlRefuse
  <2>4. CASE ~Refuse(w)
    <3>1. PICK t \in Times, step \in {"pv_check", "append"} :
              AdoptPublication(w, t, step)
      BY <1>2, <2>2, <2>4 DEF ProvisionTime, PublishTime
    <3>. QED BY <1>0, <2>1, <3>1, ControlAdopt
  <2>. QED BY <2>3, <2>4
<1>3. ASSUME NEW w \in Writers,
             \/ ProvisionCheck(w) \/ ExtractCheck(w) \/ ExtractVerify(w)
             \/ RuntimeCheck(w) \/ RebindRead(w)
      PROVE  ControlOK'
  BY <1>0, <1>3, ControlGoto, ControlRefuse
  DEF ProvisionCheck, ExtractCheck, ExtractVerify, RuntimeCheck, RebindRead,
      Require, Goto
<1>4. ASSUME NEW w \in Writers,
             SecretsOpen(w) \/ SecretsWrite(w) \/ SecretsOwn(w)
      PROVE  ControlOK'
  BY <1>0, <1>4, ControlGoto, ControlRefuse
  DEF SecretsOpen, SecretsWrite, SecretsOwn, Goto
<1>5. ASSUME NEW w \in Writers,
             \/ ExtractCreate(w) \/ ExtractWrite(w) \/ ExtractSeal(w)
             \/ Append(w) \/ AppendWrite(w) \/ AppendSeal(w)
      PROVE  ControlOK'
  BY <1>0, <1>5, ControlGoto, ControlRefuse
  DEF ExtractCreate, ExtractWrite, ExtractSeal, Append, AppendWrite,
      AppendSeal, ExtractStep, Require, Goto
<1>6. ASSUME NEW w \in Writers,
             \/ BundleOpen(w) \/ BundleWrite(w) \/ BundleFreeze(w)
             \/ RuntimeCreate(w) \/ RuntimeWrite(w) \/ RuntimeSeal(w)
      PROVE  ControlOK'
  BY <1>0, <1>6, ControlGoto
  DEF BundleOpen, BundleWrite, BundleFreeze, RuntimeCreate, RuntimeWrite,
      RuntimeSeal, BundleStep, RuntimeStep, Goto
<1>7. ASSUME NEW w \in Writers, RuntimeVerify(w) \/ RebindReplace(w) \/ Kill(w)
      PROVE  ControlOK'
  BY <1>0, <1>7, ControlFinish, ControlRefuse
  DEF RuntimeVerify, RebindReplace, Kill
<1>8. ASSUME NEW w \in Writers,
             \/ RollbackOpen(w) \/ RollbackWrite(w) \/ RollbackSeal(w)
             \/ RebindTemp(w)
      PROVE  ControlOK'
  BY <1>0, <1>8, ControlGoto, ControlRefuse
  DEF RollbackOpen, RollbackWrite, RollbackSeal, RebindTemp, RollbackStep,
      Require, Goto
<1>9. ASSUME Tick \/ StepBack \/ GatewayRestart \/ UNCHANGED vars
      PROVE  ControlOK'
  BY <1>0, <1>9 DEF ControlOK, Tick, StepBack, GatewayRestart, vars
<1>. QED
  BY <1>1, <1>2, <1>3, <1>4, <1>5, <1>6, <1>7, <1>8, <1>9
  DEF Next, Provision, Publish

\* Every step keeps the files, the clock and the gateway well typed.
LEMMA FilesType == TypeOK /\ [Next]_vars => FilesOK'
<1> SUFFICES ASSUME TypeOK, [Next]_vars PROVE FilesOK'
  OBVIOUS
<1>0. ControlOK /\ FilesOK
  BY DEF TypeOK
<1>1. ASSUME NEW w \in Writers,
             \/ StartProvision(w) \/ StartPublish(w)
             \/ ProvisionTime(w) \/ PublishTime(w)
             \/ ProvisionCheck(w) \/ ExtractCheck(w) \/ ExtractVerify(w)
             \/ RuntimeCheck(w) \/ RebindRead(w) \/ RuntimeVerify(w)
             \/ RebindTemp(w)
      PROVE  FilesOK'
  <2>1. UNCHANGED <<outputs, world>>
    BY <1>1 DEF StartProvision, StartPublish, Start, ProvisionTime,
                PublishTime, AdoptPublication, ProvisionCheck, ExtractCheck,
                ExtractVerify, RuntimeCheck, RebindRead, RuntimeVerify,
                RebindTemp, Require, Refuse
  <2>. QED BY <1>0, <2>1, FilesUnchanged
<1>2. ASSUME NEW w \in Writers,
             SecretsOpen(w) \/ SecretsWrite(w) \/ SecretsOwn(w)
      PROVE  FilesOK'
  BY <1>0, <1>2 DEF FilesOK, SecretsOpen, SecretsWrite, SecretsOwn, Refuse,
                    outputs, world
<1>3. ASSUME NEW w \in Writers,
             ExtractCreate(w) \/ ExtractWrite(w) \/ ExtractSeal(w)
      PROVE  FilesOK'
  <2>1. /\ job[w].pub \in Times
        /\ job[w].rel \in Releases \cup {NoRelease}
        /\ extracts[job[w].pub].rel \in Releases \cup {NoRelease}
    BY <1>0, <1>3 DEF FilesOK, ControlOK, Job, ExtractCreate, ExtractWrite,
                      ExtractSeal, ExtractStep
  <2>. QED BY <1>0, <1>3, <2>1, ExtractStepType, FilesUnchanged
           DEF ExtractCreate, ExtractWrite, ExtractSeal
<1>4. ASSUME NEW w \in Writers, Append(w) \/ AppendWrite(w) \/ AppendSeal(w)
      PROVE  FilesOK'
  <2>1. /\ job[w].now \in Times
        /\ job[w].rel \in Releases \cup {NoRelease}
        /\ extracts[job[w].now].rel \in Releases \cup {NoRelease}
    BY <1>0, <1>4 DEF FilesOK, ControlOK, Job, Append, AppendWrite,
                      AppendSeal, ExtractStep
  <2>2. UNCHANGED <<outputs, world>> => FilesOK'
    BY <1>0, FilesUnchanged
  <2>. QED BY <1>0, <1>4, <2>1, <2>2, ExtractStepType
           DEF Append, AppendWrite, AppendSeal, Require, Refuse
<1>5. ASSUME NEW w \in Writers, BundleOpen(w) \/ BundleWrite(w) \/ BundleFreeze(w)
      PROVE  FilesOK'
  BY <1>0, <1>5, BundleStepType
  DEF BundleOpen, BundleWrite, BundleFreeze, FilesOK
<1>6. ASSUME NEW w \in Writers,
             RuntimeCreate(w) \/ RuntimeWrite(w) \/ RuntimeSeal(w)
      PROVE  FilesOK'
  <2>1. /\ job[w].pub \in Times
        /\ runtime.bound \in Times \cup {NoTime}
    BY <1>0, <1>6 DEF FilesOK, ControlOK, RuntimeCreate, RuntimeWrite,
                      RuntimeSeal, RuntimeStep
  <2>. QED BY <1>0, <1>6, <2>1, RuntimeStepType, FilesUnchanged
           DEF RuntimeCreate, RuntimeWrite, RuntimeSeal
<1>7. ASSUME NEW w \in Writers,
             RollbackOpen(w) \/ RollbackWrite(w) \/ RollbackSeal(w)
      PROVE  FilesOK'
  <2>1. UNCHANGED <<outputs, world>> => FilesOK'
    BY <1>0, FilesUnchanged
  <2>. QED BY <1>0, <1>7, <2>1, RollbackStepType
           DEF RollbackOpen, RollbackWrite, RollbackSeal, Require, Refuse
<1>8. ASSUME NEW w \in Writers, RebindReplace(w) \/ Kill(w)
      PROVE  FilesOK'
  <2>1. job[w].now \in Times
    BY <1>0, <1>8 DEF ControlOK, RebindReplace, Kill, Finish
  <2>2. CASE RebindReplace(w)
    BY <1>0, <2>1, <2>2 DEF FilesOK, RebindReplace, world
  <2>3. CASE Kill(w)
    <3>1. strayTemp' \in BOOLEAN
      BY <2>3, Zenon DEF Kill
    <3>2. /\ abandoned' = abandoned \cup {job[w].now}
          /\ UNCHANGED <<clock, secrets, extracts, bundle, runtime, rollback,
                         everBound, serving>>
      BY <2>3, Zenon DEF Kill
    <3>. QED BY <1>0, <2>1, <3>1, <3>2 DEF FilesOK
  <2>. QED BY <1>8, <2>2, <2>3
<1>9. ASSUME Tick \/ StepBack \/ GatewayRestart \/ UNCHANGED vars
      PROVE  FilesOK'
  <2>1. UNCHANGED <<outputs, abandoned>>
    BY <1>9 DEF Tick, StepBack, GatewayRestart, vars, outputs
  <2>2. clock' \in Times
    BY <1>0, <1>9, MaxTimeAssumption
    DEF FilesOK, Tick, StepBack, GatewayRestart, vars
  <2>3. serving' \in Times \cup {NoTime}
    BY <1>0, <1>9 DEF FilesOK, Tick, StepBack, GatewayRestart, vars
  <2>. QED BY <1>0, <2>1, <2>2, <2>3 DEF FilesOK, outputs
<1>. QED
  BY <1>1, <1>2, <1>3, <1>4, <1>5, <1>6, <1>7, <1>8, <1>9
  DEF Next, Provision, Publish

\* Every reachable state is well typed.
THEOREM TypeCorrect == Spec => []TypeOK
<1>1. Init => TypeOK
  BY InitType
<1>2. TypeOK /\ [Next]_vars => TypeOK'
  BY ControlType, FilesType DEF TypeOK
<1>. QED BY <1>1, <1>2, PTL DEF Spec

-----------------------------------------------------------------------------
(* The bound extract is complete, and extracts are immutable *)

Step(w) == Provision(w) \/ Publish(w) \/ Kill(w)

\* The steps whose position says something about the writer's extract.
Telling == Writing \cup Installing \cup Rebinding

\* An extract that is there stays as it is, except that the one w is writing
\* becomes whole.
ExtractsGrow(w) ==
    \A t \in Times : extracts[t].st # "absent" =>
        \/ extracts'[t] = extracts[t]
        \/ /\ pc[w] \in Writing
           /\ t = ExtractOf(w)
           /\ extracts[t].st # "sealed"
           /\ extracts'[t].st \in Readable
           /\ extracts'[t].rel = extracts[t].rel

\* A writer at one of those steps knows which extract it is about.
LEMMA ExtractOfType ==
    ASSUME TypeOK, NEW w \in Writers, pc[w] \in Telling
    PROVE  ExtractOf(w) \in Times
BY DEF TypeOK, ControlOK, Telling, Writing, Installing, Rebinding, ExtractOf

\* A step moves one writer.
LEMMA OneMoves ==
    ASSUME TypeOK, NEW w \in Writers, Step(w)
    PROVE  \A v \in Writers \ {w} : pc'[v] = pc[v] /\ job'[v] = job[v]
<1>0. pc \in [Writers -> {"idle"} \cup ProvisionSteps \cup PublishSteps]
  BY DEF TypeOK, ControlOK
<1>0a. job \in [Writers -> Job]
  BY DEF TypeOK, ControlOK
<1>1. ASSUME NEW step, Goto(w, step)
      PROVE  \A v \in Writers \ {w} : pc'[v] = pc[v]
  BY <1>0, <1>1 DEF Goto
<1>2. ASSUME NEW r, job' = [job EXCEPT ![w] = r]
      PROVE  \A v \in Writers \ {w} : job'[v] = job[v]
  BY <1>0a, <1>2
<1>3. CASE StartProvision(w) \/ StartPublish(w)
  BY <1>1, <1>2, <1>3 DEF StartProvision, StartPublish, Start
<1>4. CASE Finish(w)
  BY <1>1, <1>2, <1>4 DEF Finish
<1>5. CASE Refuse(w)
  BY <1>1, <1>5 DEF Refuse
<1>6. CASE \E t, step : AdoptPublication(w, t, step)
  BY <1>1, <1>2, <1>6 DEF AdoptPublication
<1>7. CASE job' = job /\ \E step : Goto(w, step)
  BY <1>1, <1>7
<1>8. \/ StartProvision(w) \/ StartPublish(w)
      \/ Finish(w) \/ Refuse(w)
      \/ \E t, step : AdoptPublication(w, t, step)
      \/ job' = job /\ \E step : Goto(w, step)
  <2>1. CASE ProvisionTime(w) \/ PublishTime(w)
    BY <2>1 DEF ProvisionTime, PublishTime
  <2>2. CASE \/ ProvisionCheck(w) \/ ExtractCheck(w) \/ ExtractVerify(w)
             \/ RuntimeCheck(w) \/ RebindRead(w)
    BY <2>2 DEF ProvisionCheck, ExtractCheck, ExtractVerify, RuntimeCheck,
                RebindRead, Require
  <2>3. CASE SecretsOpen(w) \/ SecretsWrite(w) \/ SecretsOwn(w)
    BY <2>3 DEF SecretsOpen, SecretsWrite, SecretsOwn
  <2>4. CASE ExtractCreate(w) \/ ExtractWrite(w) \/ ExtractSeal(w)
    BY <2>4 DEF ExtractCreate, ExtractWrite, ExtractSeal, ExtractStep
  <2>5. CASE Append(w) \/ AppendWrite(w) \/ AppendSeal(w)
    BY <2>5 DEF Append, AppendWrite, AppendSeal, ExtractStep, Require
  <2>6. CASE BundleOpen(w) \/ BundleWrite(w) \/ BundleFreeze(w)
    BY <2>6 DEF BundleOpen, BundleWrite, BundleFreeze, BundleStep
  <2>7. CASE RuntimeCreate(w) \/ RuntimeWrite(w) \/ RuntimeSeal(w)
    BY <2>7 DEF RuntimeCreate, RuntimeWrite, RuntimeSeal, RuntimeStep
  <2>8. CASE RuntimeVerify(w) \/ RebindReplace(w) \/ Kill(w)
    BY <2>8 DEF RuntimeVerify, RebindReplace, Kill
  <2>9. CASE \/ RollbackOpen(w) \/ RollbackWrite(w) \/ RollbackSeal(w)
             \/ RebindTemp(w)
    BY <2>9 DEF RollbackOpen, RollbackWrite, RollbackSeal, RollbackStep,
                RebindTemp, Require
  <2>. QED
    BY <2>1, <2>2, <2>3, <2>4, <2>5, <2>6, <2>7, <2>8, <2>9
    DEF Step, Provision, Publish
<1>. QED BY <1>3, <1>4, <1>5, <1>6, <1>7, <1>8

\* Only the steps that install or append an extract touch the extract output.
LEMMA ExtractsQuiet ==
    ASSUME NEW w \in Writers, Step(w)
    PROVE  \/ UNCHANGED extracts
           \/ ExtractCreate(w) \/ ExtractWrite(w) \/ ExtractSeal(w)
           \/ Append(w) \/ AppendWrite(w) \/ AppendSeal(w)
<1>1. CASE \/ StartProvision(w) \/ StartPublish(w)
           \/ ProvisionTime(w) \/ PublishTime(w)
           \/ ProvisionCheck(w) \/ ExtractCheck(w) \/ ExtractVerify(w)
           \/ RuntimeCheck(w) \/ RebindRead(w) \/ RuntimeVerify(w)
           \/ RebindTemp(w)
  BY <1>1 DEF StartProvision, StartPublish, Start, ProvisionTime, PublishTime,
              AdoptPublication, ProvisionCheck, ExtractCheck, ExtractVerify,
              RuntimeCheck, RebindRead, RuntimeVerify, RebindTemp, Require,
              Refuse, outputs
<1>2. CASE SecretsOpen(w) \/ SecretsWrite(w) \/ SecretsOwn(w)
  BY <1>2 DEF SecretsOpen, SecretsWrite, SecretsOwn, Refuse, outputs
<1>3. CASE \/ BundleOpen(w) \/ BundleWrite(w) \/ BundleFreeze(w)
           \/ RuntimeCreate(w) \/ RuntimeWrite(w) \/ RuntimeSeal(w)
  BY <1>3 DEF BundleOpen, BundleWrite, BundleFreeze, BundleStep,
              RuntimeCreate, RuntimeWrite, RuntimeSeal, RuntimeStep, outputs
<1>4. CASE \/ RollbackOpen(w) \/ RollbackWrite(w) \/ RollbackSeal(w)
           \/ RebindReplace(w)
  BY <1>4 DEF RollbackOpen, RollbackWrite, RollbackSeal, RollbackStep,
              RebindReplace, Require, Refuse, outputs
<1>5. CASE Kill(w)
  BY <1>5, Zenon DEF Kill
<1>. QED
  BY <1>1, <1>2, <1>3, <1>4, <1>5 DEF Step, Provision, Publish

\* A step of the extract output that creates a file, or makes the one being
\* written whole.
LEMMA ExtractStepGrows ==
    ASSUME TypeOK, NEW w \in Writers, NEW from, NEW step, NEW t \in Times,
           NEW st, NEW rel,
           ExtractStep(w, from, step, t, [st |-> st, rel |-> rel]),
           \/ extracts[t].st = "absent"
           \/ /\ pc[w] \in Writing /\ t = ExtractOf(w)
              /\ extracts[t].st # "sealed"
              /\ st \in Readable /\ rel = extracts[t].rel
    PROVE  ExtractsGrow(w)
<1>1. /\ extracts'[t] = [st |-> st, rel |-> rel]
      /\ \A u \in Times \ {t} : extracts'[u] = extracts[u]
  BY DEF TypeOK, FilesOK, ExtractStep
<1>. QED BY <1>1 DEF ExtractsGrow

\* Whatever a writer does, the extracts that are there only grow.
LEMMA Grow ==
    ASSUME BoundInv, NEW w \in Writers, Step(w)
    PROVE  ExtractsGrow(w)
<1>0. TypeOK /\ ControlOK /\ Progress(w)
  BY DEF BoundInv, TypeOK
<1>1. CASE UNCHANGED extracts
  BY <1>1 DEF ExtractsGrow
<1>2. ASSUME UNCHANGED outputs PROVE ExtractsGrow(w)
  BY <1>1, <1>2 DEF outputs
<1>3. CASE ExtractCreate(w)
  <2>1. job[w].pub \in Times
    BY <1>0, <1>3 DEF ControlOK, ExtractCreate, ExtractStep
  <2>. QED BY <1>0, <1>2, <1>3, <2>1, ExtractStepGrows DEF ExtractCreate
<1>4. CASE ExtractWrite(w) \/ ExtractSeal(w)
  <2>1. /\ job[w].pub \in Times /\ job[w].pub = ExtractOf(w)
        /\ pc[w] \in Writing /\ extracts[job[w].pub].st # "sealed"
    BY <1>0, <1>4 DEF ControlOK, ExtractWrite, ExtractSeal, ExtractStep,
                      Progress, ExtractOf, Writing
  <2>. QED BY <1>0, <1>4, <2>1, ExtractStepGrows DEF ExtractWrite, ExtractSeal
<1>5. CASE Append(w)
  <2>1. job[w].now \in Times
    BY <1>0, <1>5 DEF ControlOK, Append
  <2>. QED BY <1>0, <1>2, <1>5, <2>1, ExtractStepGrows
           DEF Append, Require, Refuse
<1>6. CASE AppendWrite(w) \/ AppendSeal(w)
  <2>1. /\ job[w].now \in Times /\ job[w].now = ExtractOf(w)
        /\ pc[w] \in Writing /\ extracts[job[w].now].st # "sealed"
    BY <1>0, <1>6 DEF ControlOK, AppendWrite, AppendSeal, ExtractStep,
                      Progress, ExtractOf, Writing
  <2>. QED BY <1>0, <1>6, <2>1, ExtractStepGrows DEF AppendWrite, AppendSeal
<1>. QED BY <1>1, <1>3, <1>4, <1>5, <1>6, ExtractsQuiet

\* What another writer relies on survives w's step.
LEMMA OthersProgress ==
    ASSUME BoundInv, NEW w \in Writers, Step(w),
           runtime.st # "absent" => runtime'.st # "absent"
    PROVE  \A v \in Writers \ {w} : Progress(v)'
<1> SUFFICES ASSUME NEW v \in Writers, v # w PROVE Progress(v)'
  OBVIOUS
<1>0. TypeOK /\ Progress(v) /\ WritersApart
  BY DEF BoundInv
<1>1. pc'[v] = pc[v] /\ job'[v] = job[v] /\ ExtractOf(v)' = ExtractOf(v)
  BY <1>0, OneMoves DEF ExtractOf
<1>2. CASE pc[v] \notin Telling
  BY <1>1, <1>2 DEF Progress, Telling, Writing, Installing, Rebinding
<1>3. CASE pc[v] \in Writing
  <2>1. extracts[ExtractOf(v)].st # "absent"
    BY <1>0, <1>3 DEF Progress, Writing
  <2>2. pc[w] \in Writing => ExtractOf(v) # ExtractOf(w)
    BY <1>0, <1>3 DEF WritersApart
  <2>3. extracts'[ExtractOf(v)] = extracts[ExtractOf(v)]
    BY <1>0, <1>3, <2>1, <2>2, Grow, ExtractOfType DEF ExtractsGrow, Telling
  <2>. QED BY <1>0, <1>1, <1>3, <2>3
           DEF Progress, Writing, Installing, Rebinding
<1>4. CASE pc[v] \in Installing \cup Rebinding
  <2>1. extracts[ExtractOf(v)].st \in Readable
    BY <1>0, <1>4 DEF Progress
  <2>2. extracts'[ExtractOf(v)].st \in Readable
    BY <1>0, <1>4, <2>1, Grow, ExtractOfType DEF ExtractsGrow, Telling
  <2>. QED BY <1>0, <1>1, <1>4, <2>2
           DEF Progress, Writing, Installing, Rebinding
<1>. QED BY <1>2, <1>3, <1>4 DEF Telling

\* An extract w creates is one that was absent, so that nobody is writing it.
LEMMA ApartKept ==
    ASSUME BoundInv, NEW w \in Writers, Step(w),
           pc'[w] \in Writing =>
              \/ pc[w] \in Writing /\ ExtractOf(w)' = ExtractOf(w)
              \/ extracts[ExtractOf(w)'].st = "absent"
    PROVE  WritersApart'
<1>0. TypeOK /\ WritersApart /\ \A v \in Writers : Progress(v)
  BY DEF BoundInv
<1>1. ASSUME NEW v \in Writers \ {w}
      PROVE  pc'[v] = pc[v] /\ ExtractOf(v)' = ExtractOf(v)
  BY <1>0, <1>1, OneMoves DEF ExtractOf
<1>2. ASSUME NEW v \in Writers \ {w}, pc[v] \in Writing, pc'[w] \in Writing
      PROVE  ExtractOf(v)' # ExtractOf(w)'
  <2>1. extracts[ExtractOf(v)].st # "absent"
    BY <1>0, <1>2 DEF Progress, Writing
  <2>. QED BY <1>0, <1>1, <1>2, <2>1 DEF WritersApart
<1>3. ASSUME NEW u \in Writers, NEW v \in Writers, u # v,
             pc'[u] \in Writing, pc'[v] \in Writing
      PROVE  ExtractOf(u)' # ExtractOf(v)'
  <2>1. CASE u = w
    BY <1>1, <1>2, <1>3, <2>1
  <2>2. CASE v = w
    BY <1>1, <1>2, <1>3, <2>2
  <2>3. CASE u # w /\ v # w
    BY <1>0, <1>1, <1>3, <2>3 DEF WritersApart
  <2>. QED BY <2>1, <2>2, <2>3
<1>. QED BY <1>3 DEF WritersApart

\* The runtime is bound only to an extract that is whole, and stays installed.
LEMMA BoundKept ==
    ASSUME BoundInv, NEW w \in Writers, Step(w)
    PROVE  /\ runtime.st # "absent" => runtime'.st # "absent"
           /\ runtime'.st # "absent" =>
                 /\ runtime'.bound \in Times
                 /\ extracts'[runtime'.bound].st \in Readable
<1>0. /\ TypeOK /\ FilesOK /\ Progress(w) /\ BoundExtractComplete
      /\ runtime.st # "absent" => runtime.bound \in Times
  BY DEF BoundInv, TypeOK
<1>1. ASSUME NEW t \in Times, extracts[t].st \in Readable
      PROVE  extracts'[t].st \in Readable
  BY <1>1, Grow DEF ExtractsGrow
<1>2. CASE UNCHANGED runtime
  BY <1>0, <1>1, <1>2 DEF BoundExtractComplete
<1>3. CASE RuntimeCreate(w) \/ RebindReplace(w)
  <2>1. CASE UNCHANGED outputs
    BY <1>2, <2>1 DEF outputs
  <2>2. CASE ~UNCHANGED outputs
    <3>1. /\ runtime' \in {[st |-> "partial", bound |-> ExtractOf(w)],
                           [st |-> "sealed", bound |-> ExtractOf(w)]}
          /\ pc[w] \in Installing \cup Rebinding
      BY <1>3, <2>2 DEF RuntimeCreate, RuntimeStep, RebindReplace, ExtractOf,
                        Installing, Rebinding
    <3>2. ExtractOf(w) \in Times /\ extracts[ExtractOf(w)].st \in Readable
      BY <1>0, <3>1, ExtractOfType DEF Progress, Telling
    <3>. QED BY <1>1, <3>1, <3>2
  <2>. QED BY <2>1, <2>2
<1>4. CASE RuntimeWrite(w) \/ RuntimeSeal(w)
  <2>1. /\ runtime' \in {[st |-> "complete", bound |-> runtime.bound],
                         [st |-> "sealed", bound |-> runtime.bound]}
        /\ runtime.st # "absent"
    BY <1>0, <1>4 DEF RuntimeWrite, RuntimeSeal, RuntimeStep, Progress
  <2>. QED BY <1>0, <1>1, <2>1 DEF BoundExtractComplete
<1>5. \/ UNCHANGED runtime
      \/ RuntimeCreate(w) \/ RuntimeWrite(w) \/ RuntimeSeal(w)
      \/ RebindReplace(w)
  <2>1. CASE UNCHANGED outputs
    BY <2>1 DEF outputs
  <2>2. CASE SecretsOpen(w) \/ SecretsWrite(w) \/ SecretsOwn(w)
    BY <2>2 DEF SecretsOpen, SecretsWrite, SecretsOwn, Refuse, outputs
  <2>3. CASE ExtractCreate(w) \/ ExtractWrite(w) \/ ExtractSeal(w)
    BY <2>3 DEF ExtractCreate, ExtractWrite, ExtractSeal, ExtractStep, outputs
  <2>4. CASE Append(w) \/ AppendWrite(w) \/ AppendSeal(w)
    BY <2>4 DEF Append, AppendWrite, AppendSeal, ExtractStep, Require, Refuse,
                outputs
  <2>5. CASE BundleOpen(w) \/ BundleWrite(w) \/ BundleFreeze(w)
    BY <2>5 DEF BundleOpen, BundleWrite, BundleFreeze, BundleStep
  <2>6. CASE RollbackOpen(w) \/ RollbackWrite(w) \/ RollbackSeal(w)
    BY <2>6 DEF RollbackOpen, RollbackWrite, RollbackSeal, RollbackStep,
                Require, Refuse, outputs
  <2>7. CASE Kill(w)
    BY <2>7, Zenon DEF Kill
  <2>8. CASE \/ StartProvision(w) \/ StartPublish(w)
             \/ ProvisionTime(w) \/ PublishTime(w)
             \/ ProvisionCheck(w) \/ ExtractCheck(w) \/ ExtractVerify(w)
             \/ RuntimeCheck(w) \/ RebindRead(w) \/ RuntimeVerify(w)
             \/ RebindTemp(w)
    BY <2>8 DEF StartProvision, StartPublish, Start, ProvisionTime, PublishTime,
                AdoptPublication, ProvisionCheck, ExtractCheck, ExtractVerify,
                RuntimeCheck, RebindRead, RuntimeVerify, RebindTemp, Require,
                Refuse, outputs
  <2>. QED
    BY <2>2, <2>3, <2>4, <2>5, <2>6, <2>7, <2>8
    DEF Step, Provision, Publish
<1>. QED BY <1>2, <1>3, <1>4, <1>5

\* What w's own position comes to say is what its step has brought about.
LEMMA OwnProgress ==
    ASSUME BoundInv, NEW w \in Writers, Step(w)
    PROVE  /\ Progress(w)'
           /\ pc'[w] \in Writing =>
                 \/ pc[w] \in Writing /\ ExtractOf(w)' = ExtractOf(w)
                 \/ extracts[ExtractOf(w)'].st = "absent"
<1> DEFINE Told ==
       /\ Progress(w)'
       /\ pc'[w] \in Writing =>
             \/ pc[w] \in Writing /\ ExtractOf(w)' = ExtractOf(w)
             \/ extracts[ExtractOf(w)'].st = "absent"
<1>0. /\ TypeOK /\ FilesOK /\ ControlOK /\ Progress(w)
      /\ pc \in [Writers -> {"idle"} \cup ProvisionSteps \cup PublishSteps]
      /\ job \in [Writers -> Job]
  BY DEF BoundInv, TypeOK, ControlOK
<1>1. ASSUME pc'[w] \notin Telling PROVE Told
  BY <1>1 DEF Telling, Writing, Installing, Rebinding, Progress
<1>2. ASSUME Refuse(w) \/ Finish(w) PROVE Told
  <2>1. pc'[w] = "idle"
    BY <1>0, <1>2 DEF Refuse, Finish, Goto
  <2>. QED BY <1>1, <2>1 DEF Telling, Writing, Installing, Rebinding
<1>3. CASE \/ StartProvision(w) \/ StartPublish(w)
           \/ ProvisionTime(w) \/ PublishTime(w)
           \/ ProvisionCheck(w) \/ ExtractCheck(w)
           \/ SecretsOpen(w) \/ SecretsWrite(w) \/ SecretsOwn(w)
  <2>1. \/ Refuse(w)
        \/ \E step \in {"pv_time", "pb_time", "pv_check", "append",
                        "secrets_open", "extract_create", "secrets_write",
                        "secrets_own", "extract_check"} : Goto(w, step)
    BY <1>3 DEF StartProvision, StartPublish, Start, ProvisionTime, PublishTime,
                AdoptPublication, ProvisionCheck, ExtractCheck, Require,
                SecretsOpen, SecretsWrite, SecretsOwn
  <2>2. ASSUME NEW step, Goto(w, step) PROVE pc'[w] = step
    BY <1>0, <2>2 DEF Goto
  <2>. QED BY <1>1, <1>2, <2>1, <2>2
           DEF Telling, Writing, Installing, Rebinding
<1>4. CASE RuntimeVerify(w) \/ RebindReplace(w) \/ Kill(w)
  BY <1>2, <1>4 DEF RuntimeVerify, RebindReplace, Kill
<1>5. ASSUME NEW from, NEW step, NEW t \in Times, NEW st, NEW rel,
             ExtractStep(w, from, step, t, [st |-> st, rel |-> rel])
      PROVE  /\ pc[w] = from /\ pc'[w] = step /\ job'[w] = job[w]
             /\ extracts'[t].st = st
  BY <1>0, <1>5 DEF ExtractStep, Goto, FilesOK
<1>6. CASE ExtractCreate(w)
  <2>1. job[w].pub \in Times /\ pc[w] = "extract_create"
    BY <1>0, <1>6 DEF ControlOK, ExtractCreate, ExtractStep
  <2>2. CASE extracts[job[w].pub].st = "absent"
    <3>1. /\ pc'[w] = "extract_write" /\ job'[w] = job[w]
          /\ extracts'[job[w].pub].st = "partial"
      BY <1>5, <1>6, <2>1, <2>2 DEF ExtractCreate
    <3>. QED BY <2>2, <3>1
             DEF Progress, ExtractOf, Writing, Installing, Rebinding
  <2>3. CASE extracts[job[w].pub].st # "absent"
    <3>1. pc'[w] = "extract_verify"
      BY <1>0, <1>6, <2>3 DEF ExtractCreate, Goto
    <3>. QED BY <1>1, <3>1 DEF Telling, Writing, Installing, Rebinding
  <2>. QED BY <2>2, <2>3
<1>7. CASE ExtractWrite(w) \/ ExtractSeal(w)
  <2>1. job[w].pub \in Times
    BY <1>0, <1>7 DEF ControlOK, ExtractWrite, ExtractSeal, ExtractStep
  <2>2. /\ job'[w] = job[w]
        /\ \/ /\ pc[w] = "extract_write" /\ pc'[w] = "extract_seal"
              /\ extracts'[job[w].pub].st = "complete"
           \/ pc[w] = "extract_seal" /\ pc'[w] = "extract_verify"
    BY <1>5, <1>7, <2>1 DEF ExtractWrite, ExtractSeal
  <2>. QED BY <2>2 DEF Progress, ExtractOf, Writing, Installing, Rebinding
<1>8. CASE Append(w)
  <2>1. job[w].now \in Times /\ pc[w] = "append"
    BY <1>0, <1>8 DEF ControlOK, Append
  <2>2. CASE extracts[job[w].now].st = "absent"
    <3>1. /\ pc'[w] = "append_write" /\ job'[w] = job[w]
          /\ extracts'[job[w].now].st = "partial"
      BY <1>5, <1>8, <2>1, <2>2 DEF Append
    <3>. QED BY <2>2, <3>1
             DEF Progress, ExtractOf, Writing, Installing, Rebinding
  <2>3. CASE extracts[job[w].now].st # "absent" /\ ~Refuse(w)
    <3>1. /\ pc'[w] = "rebind_read" /\ job'[w] = job[w]
          /\ extracts'[job[w].now].st \in Readable
      BY <1>0, <1>8, <2>3
      DEF Append, Require, SameContent, Goto, outputs
    <3>. QED BY <3>1 DEF Progress, ExtractOf, Writing, Installing, Rebinding
  <2>. QED BY <1>2, <2>2, <2>3
<1>9. CASE AppendWrite(w) \/ AppendSeal(w)
  <2>1. job[w].now \in Times
    BY <1>0, <1>9 DEF ControlOK, AppendWrite, AppendSeal, ExtractStep
  <2>2. /\ job'[w] = job[w]
        /\ \/ /\ pc[w] = "append_write" /\ pc'[w] = "append_seal"
              /\ extracts'[job[w].now].st = "complete"
           \/ /\ pc[w] = "append_seal" /\ pc'[w] = "rebind_read"
              /\ extracts'[job[w].now].st = "sealed"
    BY <1>5, <1>9, <2>1 DEF AppendWrite, AppendSeal
  <2>. QED BY <2>2 DEF Progress, ExtractOf, Writing, Installing, Rebinding
<1>10. CASE ExtractVerify(w)
  <2>1. CASE ~Refuse(w)
    <3>1. /\ pc'[w] = "runtime_check" /\ job'[w] = job[w]
          /\ extracts'[job[w].pub].st = "sealed"
      BY <1>0, <1>10, <2>1
      DEF ExtractVerify, Require, ExtractsExact, Goto, outputs
    <3>. QED BY <3>1 DEF Progress, ExtractOf, Writing, Installing, Rebinding
  <2>. QED BY <1>2, <2>1
<1>11. CASE \/ RuntimeCheck(w) \/ BundleOpen(w) \/ BundleWrite(w)
            \/ BundleFreeze(w) \/ RuntimeCreate(w) \/ RuntimeWrite(w)
            \/ RuntimeSeal(w)
  <2>1. CASE ~Refuse(w)
    <3>1. /\ UNCHANGED extracts /\ job'[w] = job[w]
          /\ pc[w] \in Installing
          /\ pc'[w] \in Installing
          /\ pc'[w] \in {"runtime_write", "runtime_seal"} =>
                runtime'.st # "absent"
      BY <1>0, <1>11, <2>1
      DEF RuntimeCheck, BundleOpen, BundleWrite, BundleFreeze, BundleStep,
          RuntimeCreate, RuntimeWrite, RuntimeSeal, RuntimeStep, Require, Goto,
          Installing, outputs
    <3>. QED BY <1>0, <3>1
             DEF Progress, ExtractOf, Writing, Installing, Rebinding
  <2>. QED BY <1>2, <2>1
<1>12. CASE \/ RebindRead(w) \/ RollbackOpen(w) \/ RollbackWrite(w)
            \/ RollbackSeal(w) \/ RebindTemp(w)
  <2>1. CASE ~Refuse(w)
    <3>1. /\ UNCHANGED extracts /\ job'[w] = job[w]
          /\ pc[w] \in Rebinding /\ pc'[w] \in Rebinding
      BY <1>0, <1>12, <2>1
      DEF RebindRead, RollbackOpen, RollbackWrite, RollbackSeal, RollbackStep,
          RebindTemp, Require, Goto, Rebinding, outputs
    <3>. QED BY <1>0, <3>1
             DEF Progress, ExtractOf, Writing, Installing, Rebinding
  <2>. QED BY <1>2, <2>1
<1>. QED
  BY <1>3, <1>4, <1>6, <1>7, <1>8, <1>9, <1>10, <1>11, <1>12
  DEF Step, Provision, Publish

\* The inductive invariant holds initially.
LEMMA BoundInvInit == Init => BoundInv
<1> SUFFICES ASSUME Init PROVE BoundInv
  OBVIOUS
<1>1. TypeOK /\ 0 \in Times
  BY InitType, MaxTimeAssumption
<1>2. \A w \in Writers : pc[w] = "idle"
  BY DEF Init
<1>3. CASE Fresh
  BY <1>1, <1>2, <1>3 DEF BoundInv, Fresh, Progress, WritersApart, Writing,
                          Installing, Rebinding, BoundExtractComplete
<1>4. CASE Legacy
  <2>1. runtime.bound = 0 /\ extracts[0].st = "sealed"
    BY <1>1, <1>4 DEF Legacy
  <2>. QED BY <1>1, <1>2, <2>1
           DEF BoundInv, Progress, WritersApart, Writing, Installing, Rebinding,
               BoundExtractComplete
<1>. QED BY <1>3, <1>4 DEF Init

\* Every step keeps the inductive invariant.
LEMMA BoundInvStep == BoundInv /\ [Next]_vars => BoundInv'
<1> SUFFICES ASSUME BoundInv, [Next]_vars PROVE BoundInv'
  OBVIOUS
<1>1. TypeOK'
  BY ControlType, FilesType DEF BoundInv, TypeOK
<1>2. ASSUME NEW w \in Writers, Step(w) PROVE BoundInv'
  <2>1. /\ runtime.st # "absent" => runtime'.st # "absent"
        /\ runtime'.st # "absent" => runtime'.bound \in Times
        /\ BoundExtractComplete'
    BY <1>2, BoundKept DEF BoundExtractComplete
  <2>2. \A v \in Writers : Progress(v)'
    BY <1>2, <2>1, OthersProgress, OwnProgress
  <2>3. WritersApart'
    BY <1>2, OwnProgress, ApartKept
  <2>. QED BY <1>1, <2>1, <2>2, <2>3 DEF BoundInv
<1>3. CASE Tick \/ StepBack \/ GatewayRestart \/ UNCHANGED vars
  <2>1. UNCHANGED <<extracts, runtime, pc, job>>
    BY <1>3 DEF Tick, StepBack, GatewayRestart, vars, outputs
  <2>. QED BY <1>1, <2>1
           DEF BoundInv, Progress, WritersApart, ExtractOf, BoundExtractComplete
<1>. QED BY <1>2, <1>3 DEF Next, Step

\* By any number of writers, killed at any moment: the inductive invariant holds.
THEOREM BoundInvHolds == Spec => []BoundInv
BY BoundInvInit, BoundInvStep, PTL DEF Spec

\* Whatever is killed, repeated or run at once, by any number of writers:
\* runtime.yaml never names an extract that is missing or half written.
THEOREM BoundExtractIsComplete == Spec => []BoundExtractComplete
<1>1. BoundInv => BoundExtractComplete
  BY DEF BoundInv
<1>. QED BY <1>1, BoundInvHolds, PTL

\* By any number of writers, killed at any moment: an extract keeps its bytes
\* once it is published and never becomes less readable.
THEOREM ExtractsAreImmutable == Spec => ExtractsImmutable
<1>1. BoundInv /\ [Next]_vars =>
         \A t \in Times :
            /\ extracts[t].st = "sealed" => extracts'[t] = extracts[t]
            /\ extracts[t].st # "absent" =>
                  /\ extracts'[t].rel = extracts[t].rel
                  /\ extracts[t].st \in Readable => extracts'[t].st \in Readable
  <2> SUFFICES ASSUME BoundInv, [Next]_vars, NEW t \in Times
               PROVE  /\ extracts[t].st = "sealed" => extracts'[t] = extracts[t]
                      /\ extracts[t].st # "absent" =>
                            /\ extracts'[t].rel = extracts[t].rel
                            /\ extracts[t].st \in Readable =>
                                  extracts'[t].st \in Readable
    OBVIOUS
  <2>1. ASSUME NEW w \in Writers, Step(w) PROVE ExtractsGrow(w)
    BY <2>1, Grow
  <2>2. CASE Tick \/ StepBack \/ GatewayRestart \/ UNCHANGED vars
    BY <2>2 DEF Tick, StepBack, GatewayRestart, vars, outputs
  <2>3. CASE \E w \in Writers : Step(w)
    BY <2>1, <2>3 DEF ExtractsGrow
  <2>. QED BY <2>2, <2>3 DEF Next, Step
<1>. QED BY <1>1, BoundInvHolds, PTL DEF Spec, ExtractsImmutable

-----------------------------------------------------------------------------
(* One writer at a time, which starts no command in the second of a killed *)
(* one: what the deployment's operator does.                               *)

OneWriter == \A v, w \in Writers : v = w

\* The steps of a provision that follow the hand-over of its secrets.
SecretsDone ==
    {"extract_check", "extract_create", "extract_write", "extract_seal",
     "extract_verify"} \cup Installing

\* An extract that is not sealed is being written, or was left by a killed command
\* that had started in its second.
UnsealedExplained ==
    \A t \in Times : extracts[t].st \in {"partial", "complete"} =>
        t \in abandoned \/ \E w \in Writers : pc[w] \in Writing /\ ExtractOf(w) = t

\* What runtime.yaml, once it is there, tells of the other outputs.
Installed ==
    /\ everBound \subseteq Times
    /\ runtime.st = "absent" => runtime.bound = NoTime /\ everBound = {}
    /\ runtime.st # "absent" =>
          /\ extracts[runtime.bound].st = "sealed"
          /\ bundle \in {"written", "frozen"}
          /\ secrets \in {"owned", "legacy", "mixed"}

\* What the steps of a command that lie behind it have brought about.
Underway(w) ==
    /\ pc[w] # "idle" => job[w].now \notin abandoned
    /\ pc[w] \in ProvisionSteps \ {"pv_time"} =>
          job[w].pub = job[w].now \/ extracts[job[w].pub].st \in Readable
    /\ pc[w] \in {"extract_write", "extract_seal"} => job[w].pub = job[w].now
    /\ pc[w] \in SecretsDone => secrets = "owned"
    /\ pc[w] \in Installing => extracts[job[w].pub].st = "sealed"
    /\ pc[w] \in {"runtime_create", "runtime_write", "runtime_seal",
                  "bundle_freeze"} => bundle = "written"
    /\ pc[w] = "runtime_write" => runtime.st = "partial"
    /\ pc[w] = "runtime_seal" => runtime.st = "complete"
    /\ pc[w] \in PublishSteps \ {"pb_time"} => job[w].pub < job[w].now
    /\ pc[w] \in Rebinding => extracts[job[w].now].st = "sealed"
    /\ pc[w] \in Rebinding \ {"rebind_read"} =>
          runtime.st # "absent" /\ runtime.bound = job[w].pub
    /\ pc[w] \in {"rebind_temp", "rebind_replace"} =>
          rollback[job[w].pub] = "sealed"

\* The strengthening that makes GatewayRestartable and RollbackReady inductive.
GatewayInv ==
    /\ BoundInv
    /\ UnsealedExplained
    /\ Installed
    /\ RollbackReady
    /\ \A w \in Writers : Underway(w)

\* An extract that is published keeps its state, and one that is there stays.
LEMMA SealedStays ==
    ASSUME BoundInv, NEW w \in Writers, Step(w), NEW t \in Times
    PROVE  /\ extracts[t].st = "sealed" => extracts'[t].st = "sealed"
           /\ extracts[t].st \in Readable => extracts'[t].st \in Readable
BY Grow DEF ExtractsGrow

\* Each step of a command touches one output, if any.
LEMMA Footprint ==
    ASSUME NEW w \in Writers, Step(w)
    PROVE  \/ /\ UNCHANGED <<secrets, extracts, bundle, runtime, rollback,
                             everBound>>
              /\ Kill(w) \/ UNCHANGED <<strayTemp, world>>
           \/ /\ SecretsOpen(w) \/ SecretsWrite(w) \/ SecretsOwn(w)
              /\ UNCHANGED <<extracts, bundle, runtime, rollback, everBound,
                             strayTemp, world>>
           \/ /\ \/ ExtractCreate(w) \/ ExtractWrite(w) \/ ExtractSeal(w)
                 \/ Append(w) \/ AppendWrite(w) \/ AppendSeal(w)
              /\ UNCHANGED <<secrets, bundle, runtime, rollback, everBound,
                             strayTemp, world>>
           \/ /\ BundleOpen(w) \/ BundleWrite(w) \/ BundleFreeze(w)
              /\ UNCHANGED <<secrets, extracts, runtime, rollback, everBound,
                             strayTemp, world>>
           \/ /\ \/ RuntimeCreate(w) \/ RuntimeWrite(w) \/ RuntimeSeal(w)
                 \/ RebindReplace(w)
              /\ UNCHANGED <<secrets, extracts, bundle, rollback, strayTemp,
                             world>>
           \/ /\ RollbackOpen(w) \/ RollbackWrite(w) \/ RollbackSeal(w)
              /\ UNCHANGED <<secrets, extracts, bundle, runtime, everBound,
                             strayTemp, world>>
<1>1. CASE \/ StartProvision(w) \/ StartPublish(w)
           \/ ProvisionTime(w) \/ PublishTime(w)
           \/ ProvisionCheck(w) \/ ExtractCheck(w) \/ ExtractVerify(w)
           \/ RuntimeCheck(w) \/ RebindRead(w) \/ RuntimeVerify(w)
           \/ RebindTemp(w)
  BY <1>1 DEF StartProvision, StartPublish, Start, ProvisionTime, PublishTime,
              AdoptPublication, ProvisionCheck, ExtractCheck, ExtractVerify,
              RuntimeCheck, RebindRead, RuntimeVerify, RebindTemp, Require,
              Refuse, outputs, world
<1>2. CASE SecretsOpen(w) \/ SecretsWrite(w) \/ SecretsOwn(w)
  BY <1>2 DEF SecretsOpen, SecretsWrite, SecretsOwn, Refuse, outputs, world
<1>3. CASE \/ ExtractCreate(w) \/ ExtractWrite(w) \/ ExtractSeal(w)
           \/ Append(w) \/ AppendWrite(w) \/ AppendSeal(w)
  BY <1>3 DEF ExtractCreate, ExtractWrite, ExtractSeal, Append, AppendWrite,
              AppendSeal, ExtractStep, Require, Refuse, outputs, world
<1>4. CASE BundleOpen(w) \/ BundleWrite(w) \/ BundleFreeze(w)
  BY <1>4 DEF BundleOpen, BundleWrite, BundleFreeze, BundleStep, world
<1>5. CASE \/ RuntimeCreate(w) \/ RuntimeWrite(w) \/ RuntimeSeal(w)
           \/ RebindReplace(w)
  BY <1>5 DEF RuntimeCreate, RuntimeWrite, RuntimeSeal, RuntimeStep,
              RebindReplace, outputs, world
<1>6. CASE RollbackOpen(w) \/ RollbackWrite(w) \/ RollbackSeal(w)
  BY <1>6 DEF RollbackOpen, RollbackWrite, RollbackSeal, RollbackStep, Require,
              Refuse, outputs, world
<1>7. CASE Kill(w)
  BY <1>7, Zenon DEF Kill
<1>. QED
  BY <1>1, <1>2, <1>3, <1>4, <1>5, <1>6, <1>7 DEF Step, Provision, Publish

\* Every step keeps what runtime.yaml tells of the other outputs.
LEMMA InstalledKept ==
    ASSUME GatewayInv, NEW w \in Writers, Step(w)
    PROVE  Installed'
<1>0. /\ BoundInv /\ TypeOK /\ FilesOK /\ Installed /\ Underway(w) /\ Progress(w)
      /\ runtime.st # "absent" => runtime.bound \in Times
  BY DEF GatewayInv, BoundInv, TypeOK
<1>1. ASSUME runtime.st # "absent"
      PROVE  /\ bundle' \in {"written", "frozen"}
             /\ secrets' \in {"owned", "legacy", "mixed"}
  <2>1. bundle \in {"written", "frozen"} /\ secrets \in {"owned", "legacy", "mixed"}
    BY <1>0, <1>1 DEF Installed
  <2>2. CASE SecretsOpen(w) \/ SecretsWrite(w) \/ SecretsOwn(w)
    BY <2>1, <2>2 DEF SecretsOpen, SecretsWrite, SecretsOwn, SecretsAccepted,
                      Refuse, outputs
  <2>3. CASE BundleOpen(w) \/ BundleWrite(w) \/ BundleFreeze(w)
    BY <2>1, <2>3 DEF BundleOpen, BundleWrite, BundleFreeze, BundleStep
  <2>. QED BY <2>1, <2>2, <2>3, Footprint
<1>2. CASE UNCHANGED <<runtime, everBound>>
  BY <1>0, <1>1, <1>2, SealedStays DEF Installed
<1>3. CASE RuntimeCreate(w)
  <2>1. CASE runtime.st = "absent"
    <3>1. /\ runtime' = [st |-> "partial", bound |-> job[w].pub]
          /\ pc[w] = "runtime_create"
          /\ UNCHANGED <<extracts, secrets, bundle, everBound>>
      BY <1>3, <2>1 DEF RuntimeCreate, RuntimeStep
    <3>. QED BY <1>0, <3>1 DEF Installed, Underway, Installing, SecretsDone
  <2>2. CASE runtime.st # "absent"
    <3>1. UNCHANGED outputs
      BY <1>3, <2>2 DEF RuntimeCreate, RuntimeStep
    <3>. QED BY <1>2, <3>1 DEF outputs
  <2>. QED BY <2>1, <2>2
<1>4. CASE RuntimeWrite(w) \/ RuntimeSeal(w)
  <2>1. /\ runtime.st # "absent" /\ runtime'.st # "absent"
        /\ runtime'.bound = runtime.bound
        /\ everBound' \subseteq everBound \cup {runtime.bound}
    BY <1>0, <1>4 DEF RuntimeWrite, RuntimeSeal, RuntimeStep, Progress
  <2>. QED BY <1>0, <1>1, <2>1, SealedStays DEF Installed
<1>5. CASE RebindReplace(w)
  <2>1. /\ runtime' = [st |-> "sealed", bound |-> job[w].now]
        /\ everBound' = everBound \cup {job[w].now}
        /\ UNCHANGED extracts
        /\ runtime.st # "absent" /\ extracts[job[w].now].st = "sealed"
        /\ job[w].now \in Times
    BY <1>0, <1>5 DEF RebindReplace, Underway, Rebinding, TypeOK, ControlOK
  <2>. QED BY <1>0, <1>1, <2>1 DEF Installed
<1>. QED BY <1>2, <1>3, <1>4, <1>5, Footprint

\* Every step keeps the superseded bindings ready to be restored.
LEMMA RollbackKept ==
    ASSUME GatewayInv, NEW w \in Writers, Step(w)
    PROVE  RollbackReady'
<1>0. /\ BoundInv /\ TypeOK /\ FilesOK /\ Installed /\ Underway(w) /\ RollbackReady
      /\ ControlOK /\ runtime.st # "absent" => runtime.bound \in Times
      /\ everBound \subseteq Times \cup {NoTime}
      /\ rollback \in [Times -> FileState]
  BY DEF GatewayInv, BoundInv, TypeOK, FilesOK
<1>1. everBound \subseteq Times
  BY <1>0 DEF Installed
<1>2. CASE UNCHANGED <<runtime, rollback, everBound>>
  BY <1>0, <1>1, <1>2, SealedStays DEF RollbackReady
<1>3. CASE RuntimeCreate(w) \/ RuntimeWrite(w) \/ RuntimeSeal(w)
  <2>1. CASE UNCHANGED outputs
    BY <1>2, <2>1 DEF outputs
  <2>2. CASE ~UNCHANGED outputs
    <3>1. /\ UNCHANGED <<extracts, rollback>>
          /\ \/ runtime.st = "absent" /\ everBound' = everBound
             \/ /\ runtime'.bound = runtime.bound
                /\ everBound' \subseteq everBound \cup {runtime.bound}
      BY <1>3, <2>2 DEF RuntimeCreate, RuntimeWrite, RuntimeSeal, RuntimeStep
    <3>. QED BY <1>0, <3>1 DEF RollbackReady, Installed
  <2>. QED BY <2>1, <2>2
<1>4. CASE RebindReplace(w)
  <2>1. /\ runtime' = [st |-> "sealed", bound |-> job[w].now]
        /\ everBound' = everBound \cup {job[w].now}
        /\ UNCHANGED <<extracts, rollback>>
        /\ pc[w] = "rebind_replace"
    BY <1>4 DEF RebindReplace
  <2>2. /\ runtime.bound = job[w].pub /\ rollback[runtime.bound] = "sealed"
        /\ extracts[runtime.bound].st = "sealed"
    BY <1>0, <2>1 DEF Underway, Rebinding, Installed
  <2>. QED BY <1>0, <2>1, <2>2 DEF RollbackReady
<1>5. CASE RollbackOpen(w) \/ RollbackWrite(w) \/ RollbackSeal(w)
  <2>1. CASE UNCHANGED rollback
    BY <1>2, <1>5, <2>1
    DEF RollbackOpen, RollbackWrite, RollbackSeal, RollbackStep, Require,
        Refuse, outputs
  <2>2. CASE ~UNCHANGED rollback
    <3>1. /\ UNCHANGED <<extracts, runtime, everBound>>
          /\ \E state : rollback' = [rollback EXCEPT ![job[w].pub] = state]
          /\ pc[w] \in Rebinding \ {"rebind_read"}
      BY <1>5, <2>2
      DEF RollbackOpen, RollbackWrite, RollbackSeal, RollbackStep, Require,
          Refuse, outputs, Rebinding
    <3>2. runtime.bound = job[w].pub
      BY <1>0, <3>1 DEF Underway
    <3>. QED BY <1>0, <1>1, <3>1, <3>2 DEF RollbackReady
  <2>. QED BY <2>1, <2>2
<1>. QED BY <1>2, <1>3, <1>4, <1>5, Footprint

\* A step that changes the extract output changes one extract.
LEMMA OneExtractChanges ==
    ASSUME TypeOK, NEW w \in Writers, Step(w), ~UNCHANGED extracts
    PROVE  \E t \in Times : \A u \in Times \ {t} : extracts'[u] = extracts[u]
<1>0. FilesOK /\ ControlOK
  BY DEF TypeOK
<1>1. ASSUME NEW t \in Times, NEW from, NEW step, NEW file,
             ExtractStep(w, from, step, t, file)
      PROVE  \A u \in Times \ {t} : extracts'[u] = extracts[u]
  BY <1>0, <1>1 DEF ExtractStep, FilesOK
<1>2. CASE ExtractCreate(w) \/ ExtractWrite(w) \/ ExtractSeal(w)
  <2>1. PICK from, step, file :
            /\ from \in {"extract_create", "extract_write", "extract_seal"}
            /\ ExtractStep(w, from, step, job[w].pub, file)
    BY <1>2 DEF ExtractCreate, ExtractWrite, ExtractSeal, outputs
  <2>2. job[w].pub \in Times
    BY <1>0, <2>1 DEF ExtractStep, ControlOK
  <2>. QED BY <1>1, <2>1, <2>2
<1>3. CASE Append(w) \/ AppendWrite(w) \/ AppendSeal(w)
  <2>1. PICK from, step, file :
            /\ from \in {"append", "append_write", "append_seal"}
            /\ ExtractStep(w, from, step, job[w].now, file)
    BY <1>3 DEF Append, AppendWrite, AppendSeal, Require, Refuse, outputs
  <2>2. job[w].now \in Times
    BY <1>0, <2>1 DEF ExtractStep, ControlOK
  <2>. QED BY <1>1, <2>1, <2>2
<1>. QED BY <1>2, <1>3, ExtractsQuiet

\* A writer in the middle of an extract goes on writing it, or is killed.
LEMMA WhoWrites ==
    ASSUME NEW w \in Writers, Step(w), pc[w] \in Writing
    PROVE  \/ ExtractWrite(w) \/ ExtractSeal(w) \/ AppendWrite(w) \/ AppendSeal(w)
           \/ Kill(w)
BY DEF Step, Provision, Publish, StartProvision, StartPublish, Start,
       ProvisionTime, PublishTime, ProvisionCheck, ExtractCheck, ExtractVerify,
       RuntimeCheck, RebindRead, RuntimeVerify, RebindTemp, SecretsOpen,
       SecretsWrite, SecretsOwn, ExtractCreate, Append, ExtractStep, BundleOpen,
       BundleWrite, BundleFreeze, BundleStep, RuntimeCreate, RuntimeWrite,
       RuntimeSeal, RuntimeStep, RebindReplace, RollbackOpen, RollbackWrite,
       RollbackSeal, RollbackStep, Writing

\* Every step keeps unsealed extracts explained, when there is one writer.
LEMMA UnsealedKept ==
    ASSUME OneWriter, GatewayInv, NEW w \in Writers, Step(w)
    PROVE  UnsealedExplained'
<1>0. /\ BoundInv /\ TypeOK /\ FilesOK /\ ControlOK /\ Underway(w) /\ Progress(w)
      /\ UnsealedExplained
      /\ pc \in [Writers -> {"idle"} \cup ProvisionSteps \cup PublishSteps]
  BY DEF GatewayInv, BoundInv, TypeOK, ControlOK
<1>1. ASSUME NEW t \in Times, extracts[t].st \in {"partial", "complete"}
      PROVE  t \in abandoned \/ (pc[w] \in Writing /\ ExtractOf(w) = t)
  BY <1>0, <1>1 DEF OneWriter, UnsealedExplained
<1>2. ASSUME pc[w] \notin Writing, UNCHANGED extracts, abandoned \subseteq abandoned'
      PROVE  UnsealedExplained'
  BY <1>1, <1>2 DEF UnsealedExplained
<1>3. ASSUME NEW from, NEW step, NEW t \in Times, NEW st, NEW rel,
             ExtractStep(w, from, step, t, [st |-> st, rel |-> rel])
      PROVE  /\ pc[w] = from /\ pc'[w] = step /\ job'[w] = job[w]
             /\ extracts'[t].st = st /\ abandoned' = abandoned
             /\ \A u \in Times \ {t} : extracts'[u] = extracts[u]
  BY <1>0, <1>3 DEF ExtractStep, Goto, FilesOK, world
<1>4. CASE Kill(w)
  <2>1. /\ UNCHANGED extracts /\ abandoned' = abandoned \cup {job[w].now}
    BY <1>4, Zenon DEF Kill
  <2>2. pc[w] \in Writing => ExtractOf(w) = job[w].now
    BY <1>0 DEF Underway, Writing, ExtractOf
  <2>. QED BY <1>1, <2>1, <2>2 DEF UnsealedExplained
<1>5. CASE ExtractWrite(w) \/ ExtractSeal(w) \/ AppendWrite(w) \/ AppendSeal(w)
  <2>1. /\ ExtractOf(w) \in Times /\ pc[w] \in Writing
        /\ ExtractOf(w) = IF ExtractWrite(w) \/ ExtractSeal(w) THEN job[w].pub
                          ELSE job[w].now
    BY <1>0, <1>5, ExtractOfType
    DEF ExtractWrite, ExtractSeal, AppendWrite, AppendSeal, ExtractStep,
        ExtractOf, Writing, Telling
  <2>2. /\ job'[w] = job[w] /\ abandoned' = abandoned
        /\ \A u \in Times \ {ExtractOf(w)} : extracts'[u] = extracts[u]
        /\ \/ extracts'[ExtractOf(w)].st = "sealed"
           \/ pc[w] = "extract_write" /\ pc'[w] = "extract_seal"
           \/ pc[w] = "append_write" /\ pc'[w] = "append_seal"
    BY <1>3, <1>5, <2>1
    DEF ExtractWrite, ExtractSeal, AppendWrite, AppendSeal, ExtractOf, Writing
  <2>3. pc'[w] \in Writing => \/ ExtractOf(w)' = ExtractOf(w)
                             \/ extracts'[ExtractOf(w)].st = "sealed"
    BY <2>2 DEF ExtractOf, Writing
  <2>. QED BY <1>1, <2>2, <2>3 DEF UnsealedExplained, Writing
<1>6. CASE ExtractCreate(w) \/ Append(w)
  <2>0. pc[w] \notin Writing
    BY <1>6 DEF ExtractCreate, Append, ExtractStep, Writing
  <2>1. CASE UNCHANGED <<extracts, abandoned>>
    BY <1>2, <2>0, <2>1
  <2>2. CASE ~UNCHANGED <<extracts, abandoned>>
    <3>1. \/ /\ pc[w] = "extract_create"
             /\ ExtractStep(w, "extract_create", "extract_write", job[w].pub,
                            [st |-> "partial", rel |-> job[w].rel])
          \/ /\ pc[w] = "append"
             /\ ExtractStep(w, "append", "append_write", job[w].now,
                            [st |-> "partial", rel |-> job[w].rel])
      BY <1>6, <2>2
      DEF ExtractCreate, Append, ExtractStep, Require, Refuse, outputs, world
    <3>2. \/ pc[w] = "extract_create" /\ job[w].pub \in Times
          \/ pc[w] = "append" /\ job[w].now \in Times
      BY <1>0, <3>1 DEF ControlOK
    <3>3. CASE pc[w] = "extract_create"
      <4>1. /\ abandoned' = abandoned
            /\ pc'[w] = "extract_write" /\ job'[w] = job[w]
            /\ \A u \in Times \ {job[w].pub} : extracts'[u] = extracts[u]
        BY <1>3, <3>1, <3>2, <3>3
      <4>2. ExtractOf(w)' = job[w].pub /\ pc'[w] \in Writing
        BY <4>1 DEF ExtractOf, Writing
      <4>. QED BY <1>1, <2>0, <4>1, <4>2 DEF UnsealedExplained
    <3>4. CASE pc[w] = "append"
      <4>1. /\ abandoned' = abandoned
            /\ pc'[w] = "append_write" /\ job'[w] = job[w]
            /\ \A u \in Times \ {job[w].now} : extracts'[u] = extracts[u]
        BY <1>3, <3>1, <3>2, <3>4
      <4>2. ExtractOf(w)' = job[w].now /\ pc'[w] \in Writing
        BY <4>1 DEF ExtractOf, Writing
      <4>. QED BY <1>1, <2>0, <4>1, <4>2 DEF UnsealedExplained
    <3>. QED BY <3>2, <3>3, <3>4
  <2>. QED BY <2>1, <2>2
<1>7. CASE /\ ~Kill(w)
           /\ ~(ExtractWrite(w) \/ ExtractSeal(w) \/ AppendWrite(w) \/ AppendSeal(w))
           /\ ~(ExtractCreate(w) \/ Append(w))
  <2>1. UNCHANGED <<extracts, abandoned>>
    BY <1>7, Footprint DEF world
  <2>. QED BY <1>2, <1>7, <2>1, WhoWrites
<1>. QED BY <1>4, <1>5, <1>6, <1>7

\* The publication a command adopts is not after its start, and is an extract that
\* is there in full, unless it is the command's own.
LEMMA PublicationTimeFacts ==
    ASSUME BoundInv, NEW now \in Times, NEW t \in PublicationTime(now)
    PROVE  t \in Times /\ t <= now /\ (t = now \/ extracts[t].st \in Readable)
<1>1. CASE runtime.st = "absent"
  BY <1>1 DEF PublicationTime, ValidExtract
<1>2. CASE runtime.st # "absent"
  BY <1>2 DEF PublicationTime, ValidExtract
<1>. QED BY <1>1, <1>2

\* Every step leaves its writer where it has brought about what it should.
LEMMA UnderwayKept ==
    ASSUME OneWriter, DistinctSeconds, GatewayInv, NEW w \in Writers, Step(w)
    PROVE  Underway(w)'
<1>0. /\ BoundInv /\ TypeOK /\ FilesOK /\ ControlOK /\ Underway(w) /\ Progress(w)
      /\ UnsealedExplained /\ Installed
      /\ pc \in [Writers -> {"idle"} \cup ProvisionSteps \cup PublishSteps]
      /\ job \in [Writers -> Job]
  BY DEF GatewayInv, BoundInv, TypeOK, ControlOK
<1>1. ASSUME pc'[w] = "idle" PROVE Underway(w)'
  BY <1>1 DEF Underway, SecretsDone, Installing, Rebinding
<1>2. ASSUME Refuse(w) \/ Finish(w) PROVE Underway(w)'
  BY <1>0, <1>1, <1>2 DEF Refuse, Finish, Goto
<1>3. CASE RuntimeVerify(w) \/ RebindReplace(w) \/ Kill(w)
  BY <1>2, <1>3 DEF RuntimeVerify, RebindReplace, Kill
<1>4. CASE StartProvision(w) \/ StartPublish(w)
  <2>1. /\ pc'[w] \in {"pv_time", "pb_time"} /\ job'[w].now \notin abandoned
        /\ UNCHANGED abandoned
    BY <1>0, <1>4 DEF StartProvision, StartPublish, Start, Goto, world
  <2>. QED BY <2>1 DEF Underway, SecretsDone, Installing, Rebinding
<1>5. CASE (ProvisionTime(w) \/ PublishTime(w)) /\ ~Refuse(w)
  <2>1. pc[w] \in {"pv_time", "pb_time"} /\ job[w].now \in Times
    BY <1>0, <1>5 DEF ControlOK, ProvisionTime, PublishTime
  <2>2. PICK t \in PublicationTime(job[w].now) :
            \/ AdoptPublication(w, t, "pv_check")
            \/ AdoptPublication(w, t, "append") /\ t # job[w].now
    BY <1>5 DEF ProvisionTime, PublishTime
  <2>3. /\ t \in Times /\ t <= job[w].now
        /\ t = job[w].now \/ extracts[t].st \in Readable
    BY <1>0, <2>1, PublicationTimeFacts
  <2>4. /\ UNCHANGED <<extracts, abandoned>>
        /\ job'[w].now = job[w].now /\ job'[w].pub = t
        /\ \/ pc'[w] = "pv_check"
           \/ pc'[w] = "append" /\ t # job[w].now
    BY <1>0, <1>5, <2>2
    DEF AdoptPublication, Adopting, Goto, outputs, world, ProvisionTime,
        PublishTime
  <2>. QED BY <1>0, <2>1, <2>3, <2>4
           DEF Underway, SecretsDone, Installing, Rebinding
<1>6. CASE /\ ~Refuse(w)
           /\ \/ ProvisionCheck(w) \/ SecretsOpen(w) \/ SecretsWrite(w)
              \/ SecretsOwn(w) \/ ExtractCheck(w)
  <2>1. /\ UNCHANGED <<extracts, abandoned>> /\ job'[w] = job[w]
        /\ pc[w] \in ProvisionSteps \ {"pv_time"}
        /\ \/ pc'[w] \in {"secrets_open", "secrets_write", "secrets_own"}
           \/ pc'[w] = "extract_check" /\ secrets' = "owned"
           \/ /\ pc[w] = "extract_check" /\ pc'[w] = "extract_create"
              /\ secrets' = secrets
    BY <1>0, <1>6
    DEF ProvisionCheck, SecretsOpen, SecretsWrite, SecretsOwn, ExtractCheck,
        Require, Goto, outputs, world
  <2>. QED BY <1>0, <2>1 DEF Underway, SecretsDone, Installing, Rebinding
<1>7. CASE ExtractCreate(w)
  <2>1. /\ pc[w] = "extract_create" /\ job'[w] = job[w]
        /\ UNCHANGED <<secrets, abandoned>>
        /\ \/ pc'[w] = "extract_write" /\ extracts[job[w].pub].st = "absent"
           \/ pc'[w] = "extract_verify" /\ UNCHANGED extracts
    BY <1>0, <1>7 DEF ExtractCreate, ExtractStep, Goto, outputs, world
  <2>. QED BY <1>0, <2>1 DEF Underway, SecretsDone, Installing, Rebinding
<1>8. CASE ExtractWrite(w) \/ ExtractSeal(w)
  <2>1. /\ pc[w] \in {"extract_write", "extract_seal"} /\ job'[w] = job[w]
        /\ pc'[w] \in {"extract_seal", "extract_verify"}
        /\ UNCHANGED <<secrets, abandoned>>
    BY <1>0, <1>8 DEF ExtractWrite, ExtractSeal, ExtractStep, Goto, world
  <2>. QED BY <1>0, <2>1 DEF Underway, SecretsDone, Installing, Rebinding
<1>9. CASE ExtractVerify(w) /\ ~Refuse(w)
  <2>1. /\ pc[w] = "extract_verify" /\ pc'[w] = "runtime_check"
        /\ job'[w] = job[w] /\ UNCHANGED <<extracts, secrets, abandoned>>
        /\ extracts[job[w].pub].st = "sealed"
    BY <1>0, <1>9
    DEF ExtractVerify, Require, ExtractsExact, Goto, outputs, world
  <2>. QED BY <1>0, <2>1 DEF Underway, SecretsDone, Installing, Rebinding
<1>10. CASE /\ ~Refuse(w)
            /\ \/ RuntimeCheck(w) \/ BundleOpen(w) \/ BundleWrite(w)
               \/ BundleFreeze(w) \/ RuntimeCreate(w) \/ RuntimeWrite(w)
               \/ RuntimeSeal(w)
  <2>1. /\ pc[w] \in Installing /\ pc'[w] \in Installing /\ job'[w] = job[w]
        /\ UNCHANGED <<extracts, secrets, abandoned>>
        /\ pc'[w] \in {"runtime_create", "runtime_write", "runtime_seal",
                       "bundle_freeze"} => bundle' = "written"
        /\ pc'[w] = "runtime_write" => runtime'.st = "partial"
        /\ pc'[w] = "runtime_seal" => runtime'.st = "complete"
    BY <1>0, <1>10
    DEF RuntimeCheck, BundleOpen, BundleWrite, BundleFreeze, BundleStep,
        RuntimeCreate, RuntimeWrite, RuntimeSeal, RuntimeStep, Require, Goto,
        outputs, world, Installing, Underway
  <2>. QED BY <1>0, <2>1 DEF Underway, SecretsDone, Installing, Rebinding
<1>11. CASE Append(w) /\ ~Refuse(w)
  <2>1. /\ pc[w] = "append" /\ job'[w] = job[w] /\ UNCHANGED abandoned
        /\ \/ pc'[w] = "append_write"
           \/ /\ pc'[w] = "rebind_read" /\ UNCHANGED extracts
              /\ extracts[job[w].now].st \in Readable
    BY <1>0, <1>11
    DEF Append, ExtractStep, Require, SameContent, Goto, outputs, world
  <2>2. extracts[job[w].now].st # "complete"
    BY <1>0, <2>1
    DEF OneWriter, UnsealedExplained, Underway, ControlOK, Writing
  <2>. QED BY <1>0, <2>1, <2>2 DEF Underway, SecretsDone, Installing, Rebinding
<1>12. CASE AppendWrite(w) \/ AppendSeal(w)
  <2>1. job[w].now \in Times
    BY <1>0, <1>12 DEF ControlOK, AppendWrite, AppendSeal, ExtractStep
  <2>2. extracts \in [Times -> [st : FileState, rel : Releases \cup {NoRelease}]]
    BY <1>0 DEF FilesOK
  <2>3. CASE AppendWrite(w)
    <3>1. /\ pc[w] = "append_write" /\ pc'[w] = "append_seal"
          /\ job'[w] = job[w] /\ UNCHANGED abandoned
      BY <1>0, <2>3 DEF AppendWrite, ExtractStep, Goto, world
    <3>. QED BY <1>0, <3>1 DEF Underway, SecretsDone, Installing, Rebinding
  <2>4. CASE AppendSeal(w)
    <3>1. /\ pc[w] = "append_seal" /\ pc'[w] = "rebind_read"
          /\ job'[w] = job[w] /\ UNCHANGED abandoned
          /\ extracts'[job[w].now].st = "sealed"
      BY <1>0, <2>1, <2>2, <2>4 DEF AppendSeal, ExtractStep, Goto, world
    <3>. QED BY <1>0, <3>1 DEF Underway, SecretsDone, Installing, Rebinding
  <2>. QED BY <1>12, <2>3, <2>4
<1>13. CASE RebindRead(w) /\ ~Refuse(w)
  <2>1. /\ pc[w] = "rebind_read" /\ pc'[w] = "rollback_open"
        /\ job'[w] = job[w] /\ UNCHANGED <<extracts, runtime, abandoned>>
        /\ runtime.st \in Readable /\ runtime.bound = job[w].pub
    BY <1>0, <1>13 DEF RebindRead, Require, Goto, outputs, world
  <2>. QED BY <1>0, <2>1 DEF Underway, SecretsDone, Installing, Rebinding
<1>14. CASE /\ ~Refuse(w)
            /\ \/ RollbackOpen(w) \/ RollbackWrite(w) \/ RollbackSeal(w)
               \/ RebindTemp(w)
  <2>1. job[w].pub \in Times
    BY <1>0, <1>14 DEF ControlOK, RollbackOpen, RollbackWrite, RollbackSeal,
                       RollbackStep, RebindTemp
  <2>2. /\ pc[w] \in {"rollback_open", "rollback_write", "rollback_seal",
                      "rebind_temp"}
        /\ pc'[w] \in Rebinding \ {"rebind_read"}
        /\ job'[w] = job[w] /\ UNCHANGED <<extracts, runtime, abandoned>>
    BY <1>0, <1>14
    DEF RollbackOpen, RollbackWrite, RollbackSeal, RollbackStep, RebindTemp,
        Require, Goto, outputs, world, Rebinding
  <2>3. pc'[w] \in {"rebind_temp", "rebind_replace"} =>
            rollback'[job[w].pub] = "sealed"
    <3>0. rollback \in [Times -> FileState]
      BY <1>0 DEF FilesOK
    <3>1. CASE RollbackOpen(w)
      BY <1>0, <1>14, <2>1, <3>0, <3>1
      DEF RollbackOpen, RollbackStep, Require, Goto, outputs
    <3>2. CASE RollbackWrite(w) \/ RollbackSeal(w)
      BY <1>0, <2>1, <3>0, <3>2 DEF RollbackWrite, RollbackSeal, RollbackStep, Goto
    <3>3. CASE RebindTemp(w)
      BY <1>0, <3>3 DEF RebindTemp, Underway, outputs
    <3>. QED BY <1>14, <3>1, <3>2, <3>3
  <2>. QED BY <1>0, <2>2, <2>3 DEF Underway, SecretsDone, Installing, Rebinding
<1>. QED
  BY <1>2, <1>3, <1>4, <1>5, <1>6, <1>7, <1>8, <1>9, <1>10, <1>11, <1>12,
     <1>13, <1>14
  DEF Step, Provision, Publish

\* One writer, which starts nothing in the second of a killed command: the
\* inductive invariant holds initially and is kept by every step.
THEOREM GatewayInvHolds ==
    ASSUME OneWriter, DistinctSeconds
    PROVE  Spec => []GatewayInv
<1>1. Init => GatewayInv
  <2> SUFFICES ASSUME Init PROVE GatewayInv
    OBVIOUS
  <2>1. BoundInv /\ 0 \in Times
    BY BoundInvInit, MaxTimeAssumption
  <2>2. \A w \in Writers : pc[w] = "idle"
    BY DEF Init
  <2>3. \A w \in Writers : Underway(w)
    BY <2>2 DEF Underway, SecretsDone, Installing, Rebinding
  <2>4. CASE Fresh
    BY <2>1, <2>3, <2>4
    DEF Fresh, Absent, GatewayInv, UnsealedExplained, Installed, RollbackReady
  <2>5. CASE Legacy
    <3>1. /\ \A t \in Times : extracts[t].st \in {"absent", "sealed"}
          /\ extracts[0].st = "sealed" /\ runtime.bound = 0 /\ everBound = {0}
          /\ runtime.st = "sealed" /\ bundle = "frozen" /\ secrets = "legacy"
      BY <2>1, <2>5 DEF Legacy, Absent
    <3>. QED BY <2>1, <2>3, <3>1
             DEF GatewayInv, UnsealedExplained, Installed, RollbackReady
  <2>. QED BY <2>4, <2>5 DEF Init
<1>2. GatewayInv /\ [Next]_vars => GatewayInv'
  <2> SUFFICES ASSUME GatewayInv, [Next]_vars PROVE GatewayInv'
    OBVIOUS
  <2>1. BoundInv'
    BY BoundInvStep DEF GatewayInv
  <2>2. ASSUME NEW w \in Writers, Step(w) PROVE GatewayInv'
    <3>1. \A v \in Writers : Underway(v)'
      <4>1. Underway(w)'
        BY <2>2, UnderwayKept
      <4>. QED BY <2>2, <4>1 DEF OneWriter
    <3>. QED BY <2>1, <2>2, <3>1, InstalledKept, RollbackKept, UnsealedKept
             DEF GatewayInv
  <2>3. CASE Tick \/ StepBack \/ GatewayRestart \/ UNCHANGED vars
    <3>1. UNCHANGED <<outputs, pc, job, abandoned>>
      BY <2>3 DEF Tick, StepBack, GatewayRestart, vars, outputs
    <3>. QED BY <2>1, <3>1
             DEF GatewayInv, UnsealedExplained, Installed, RollbackReady,
                 Underway, ExtractOf, outputs
  <2>. QED BY <2>2, <2>3 DEF Next, Step
<1>. QED BY <1>1, <1>2, PTL DEF Spec

\* One writer, killed wherever it may be: once there is a runtime, its gateway can
\* be restarted at any moment.
THEOREM GatewayStaysRestartable ==
    ASSUME OneWriter, DistinctSeconds
    PROVE  Spec => []GatewayRestartable
<1>1. GatewayInv => GatewayRestartable
  BY DEF GatewayInv, GatewayRestartable, Installed, Startable
<1>. QED BY <1>1, GatewayInvHolds, PTL

\* One writer, killed wherever it may be: each superseded binding has its rollback
\* file and its extract.
THEOREM RollbacksStayReady ==
    ASSUME OneWriter, DistinctSeconds
    PROVE  Spec => []RollbackReady
<1>1. GatewayInv => RollbackReady
  BY DEF GatewayInv
<1>. QED BY <1>1, GatewayInvHolds, PTL

\* One writer, killed wherever it may be, implements the ledger of immutable
\* extracts: what is published stays, the binding moves to a later extract that is
\* published, and a restarted gateway opens what is bound.
THEOREM ProvisionerImplementsLedger ==
    ASSUME OneWriter, DistinctSeconds
    PROVE  Spec => ImplementsLedger
<1> DEFINE Published == {t \in Times : extracts[t].st = "sealed"}
           Bound == IF runtime.st = "sealed" THEN runtime.bound ELSE NoTime
<1>1. Init => Ledger!Init
  <2> SUFFICES ASSUME Init PROVE Ledger!Init
    OBVIOUS
  <2>1. 0 \in Times /\ serving = NoTime
    BY MaxTimeAssumption DEF Init
  <2>2. CASE Fresh
    <3>1. Published = {} /\ Bound = NoTime
      BY <2>2 DEF Fresh, Absent
    <3>. QED BY <2>1, <3>1 DEF Ledger!Init, Ledger!NoTime
  <2>3. CASE Legacy
    <3>1. Published = {0} /\ Bound = 0
      BY <2>1, <2>3 DEF Legacy, Absent
    <3>. QED BY <2>1, <3>1 DEF Ledger!Init, Ledger!NoTime
  <2>. QED BY <2>2, <2>3 DEF Init
<1>2. GatewayInv /\ [Next]_vars => [Ledger!Next]_Ledger!ledgerVars
  <2> SUFFICES ASSUME GatewayInv, [Next]_vars
               PROVE  Ledger!Next \/ UNCHANGED <<Published, Bound, serving>>
    BY DEF Ledger!ledgerVars
  <2>0. /\ BoundInv /\ TypeOK /\ FilesOK /\ ControlOK /\ Installed
        /\ \A w \in Writers : Underway(w)
    BY DEF GatewayInv, BoundInv, TypeOK
  <2>1. CASE GatewayRestart
    <3>1. serving' = Bound /\ UNCHANGED <<Published, Bound>>
      BY <2>0, <2>1 DEF GatewayRestart, Startable, Installed, outputs
    <3>. QED BY <3>1 DEF Ledger!Next, Ledger!Restart
  <2>2. CASE Tick \/ StepBack \/ UNCHANGED vars
    BY <2>2 DEF Tick, StepBack, vars, outputs
  <2>3. ASSUME NEW w \in Writers, Step(w)
        PROVE  Ledger!Next \/ UNCHANGED <<Published, Bound, serving>>
    <3>0. UNCHANGED serving
      <4>1. CASE Kill(w)
        BY <4>1, Zenon DEF Kill
      <4>. QED BY <2>3, <4>1, Footprint DEF world
    <3>1. CASE UNCHANGED runtime
      <4>1. CASE UNCHANGED extracts
        BY <3>0, <3>1, <4>1
      <4>2. CASE ~UNCHANGED extracts
        <5>1. PICK t \in Times : \A u \in Times \ {t} : extracts'[u] = extracts[u]
          BY <2>0, <2>3, <4>2, OneExtractChanges
        <5>2. Published' = Published \/ Published' = Published \cup {t}
          BY <2>0, <2>3, <5>1, SealedStays
        <5>. QED BY <3>0, <3>1, <5>2 DEF Ledger!Next, Ledger!Append
      <4>. QED BY <4>1, <4>2
    <3>2. CASE RuntimeCreate(w) \/ RuntimeWrite(w)
      <4>1. UNCHANGED <<Published, Bound>>
        BY <2>0, <3>2
        DEF RuntimeCreate, RuntimeWrite, RuntimeStep, Underway, outputs
      <4>. QED BY <3>0, <4>1
    <3>3. CASE RuntimeSeal(w) \/ RebindReplace(w)
      <4>1. CASE RuntimeSeal(w)
        <5>1. /\ Bound = NoTime /\ Bound' = runtime.bound /\ UNCHANGED Published
              /\ runtime.st # "absent"
          BY <2>0, <4>1 DEF RuntimeSeal, RuntimeStep, Underway
        <5>2. Bound' \in Published /\ Bound' \in Times
          BY <2>0, <5>1 DEF Installed, BoundInv
        <5>3. Bound < Bound'
          BY <5>1, <5>2
        <5>. QED BY <3>0, <5>1, <5>2, <5>3 DEF Ledger!Next, Ledger!Bind
      <4>2. CASE RebindReplace(w)
        <5>1. /\ Bound' = job[w].now /\ UNCHANGED Published
              /\ pc[w] = "rebind_replace"
          BY <4>2 DEF RebindReplace
        <5>2. /\ job[w].now \in Published /\ job[w].now \in Times
              /\ runtime.bound = job[w].pub /\ job[w].pub < job[w].now
          BY <2>0, <5>1 DEF Underway, Rebinding, ControlOK
        <5>3. Bound < job[w].now
          BY <5>2
        <5>. QED BY <3>0, <5>1, <5>2, <5>3 DEF Ledger!Next, Ledger!Bind
      <4>. QED BY <3>3, <4>1, <4>2
    <3>. QED BY <2>3, <3>1, <3>2, <3>3, Footprint
  <2>. QED BY <2>1, <2>2, <2>3 DEF Next, Step
<1>. QED BY <1>1, <1>2, GatewayInvHolds, PTL
         DEF Spec, ImplementsLedger, Ledger!Spec

-----------------------------------------------------------------------------
(* What the checks ahead of an installation have found holds until the     *)
(* installation relies on it.                                              *)

\* What an installation past its checks may count on, at each of its steps.
Cleared(w) ==
    /\ pc[w] # "idle" => w \notin refused
    /\ pc[w] = "secrets_open" => SecretsAccepted
    /\ pc[w] \in {"secrets_open", "secrets_write", "secrets_own",
                  "extract_check", "extract_create"} => ExtractsAccepted(w)
    /\ pc[w] \in {"extract_write", "extract_seal"} =>
          /\ extracts[job[w].pub].rel = job[w].rel
          /\ \A t \in Times \ {job[w].pub} : extracts[t].st \in {"absent", "sealed"}
    /\ pc[w] = "extract_verify" => ExtractsExact(w)
    /\ pc[w] \in InstallSteps => RollbacksPreserved /\ ~strayTemp
    /\ pc[w] \in InstallSteps \ {"runtime_write", "runtime_seal"} =>
          \/ runtime.st = "absent" /\ pc[w] \notin {"bundle_freeze", "runtime_verify"}
          \/ runtime = [st |-> "sealed", bound |-> job[w].pub]
    /\ pc[w] \in {"runtime_write", "runtime_seal"} => runtime.bound = job[w].pub
    /\ pc[w] \in InstallSteps \ (Installing \ {"runtime_check", "bundle_open"}) =>
          bundle = IF runtime.st = "absent" THEN "absent" ELSE "frozen"
    /\ pc[w] = "runtime_verify" => bundle = "frozen"

ClearedInv == TypeOK /\ \A w \in Writers : Cleared(w)

\* What ExtractsExact and ExtractsAccepted say of each extract.
LEMMA ExtractsRead ==
    ASSUME TypeOK, NEW w \in Writers, job[w].pub \in Times
    PROVE  /\ ExtractsExact(w) <=>
                 /\ extracts[job[w].pub] = [st |-> "sealed", rel |-> job[w].rel]
                 /\ \A t \in Times \ {job[w].pub} :
                       extracts[t].st \in {"absent", "sealed"}
           /\ ActiveExtracts(job[w].pub) = {} <=>
                 /\ extracts[job[w].pub].st = "absent"
                 /\ \A t \in Times \ {job[w].pub} :
                       extracts[t].st \in {"absent", "sealed"}
BY DEF ExtractsExact, ActiveExtracts, Preserved, TypeOK, FilesOK

\* With one writer at its installation, a temporary runtime is a stray one.
LEMMA TempIsStray ==
    ASSUME OneWriter, NEW w \in Writers, pc[w] \in InstallSteps
    PROVE  AnyTemp <=> strayTemp
BY DEF OneWriter, AnyTemp

\* Every step keeps for its writer what it may count on.
LEMMA ClearedKept ==
    ASSUME OneWriter, ClearedInv, NEW w \in Writers, Step(w)
    PROVE  Cleared(w)'
<1>0. /\ TypeOK /\ FilesOK /\ ControlOK /\ Cleared(w)
      /\ pc \in [Writers -> {"idle"} \cup ProvisionSteps \cup PublishSteps]
      /\ job \in [Writers -> Job]
      /\ extracts \in [Times -> [st : FileState, rel : Releases \cup {NoRelease}]]
  BY DEF ClearedInv, TypeOK, ControlOK, FilesOK
<1>1. ASSUME pc'[w] = "idle" PROVE Cleared(w)'
  BY <1>1 DEF Cleared, Installing
<1>2. ASSUME Refuse(w) \/ Finish(w) PROVE Cleared(w)'
  BY <1>0, <1>1, <1>2 DEF Refuse, Finish, Goto
<1>3. CASE RuntimeVerify(w) \/ RebindReplace(w) \/ Kill(w)
  BY <1>2, <1>3 DEF RuntimeVerify, RebindReplace, Kill
<1>4. ASSUME pc'[w] \in {"pv_time", "pv_check"} \cup PublishSteps,
             w \notin refused'
      PROVE  Cleared(w)'
  BY <1>4 DEF Cleared, Installing
<1>5. CASE StartProvision(w) \/ StartPublish(w)
  <2>1. pc'[w] \in {"pv_time", "pb_time"} /\ w \notin refused'
    BY <1>0, <1>5 DEF StartProvision, StartPublish, Start, Goto
  <2>. QED BY <1>4, <2>1
<1>6. CASE (ProvisionTime(w) \/ PublishTime(w)) /\ ~Refuse(w)
  <2>1. pc[w] # "idle" /\ pc'[w] \in {"pv_check", "append"} /\ refused' = refused
    BY <1>0, <1>6 DEF ProvisionTime, PublishTime, AdoptPublication, Goto
  <2>. QED BY <1>0, <1>4, <2>1 DEF Cleared
<1>7. CASE /\ ~Refuse(w)
           /\ \/ Append(w) \/ AppendWrite(w) \/ AppendSeal(w) \/ RebindRead(w)
              \/ RollbackOpen(w) \/ RollbackWrite(w) \/ RollbackSeal(w)
              \/ RebindTemp(w)
  <2>1. pc[w] # "idle" /\ pc'[w] \in PublishSteps /\ refused' = refused
    BY <1>0, <1>7
    DEF Append, AppendWrite, AppendSeal, ExtractStep, RebindRead, RollbackOpen,
        RollbackWrite, RollbackSeal, RollbackStep, RebindTemp, Require, Goto
  <2>. QED BY <1>0, <1>4, <2>1 DEF Cleared
<1>8. CASE ProvisionCheck(w) /\ ~Refuse(w)
  <2>1. /\ pc[w] = "pv_check" /\ pc'[w] = "secrets_open"
        /\ UNCHANGED <<outputs, job, refused>>
        /\ SecretsAccepted /\ ExtractsAccepted(w) /\ RuntimeAccepted(w)
    BY <1>0, <1>8 DEF ProvisionCheck, Require, Goto
  <2>2. /\ SecretsAccepted' /\ ExtractsAccepted(w)' /\ RollbacksPreserved'
        /\ ~strayTemp' /\ w \notin refused'
    BY <1>0, <2>1
    DEF Cleared, RuntimeAccepted, RuntimeExact, AnyTemp, SecretsAccepted,
        ExtractsAccepted, ExtractsExact, ActiveExtracts, Preserved,
        RollbacksPreserved, outputs
  <2>3. /\ \/ runtime'.st = "absent"
           \/ runtime' = [st |-> "sealed", bound |-> job'[w].pub]
        /\ bundle' = IF runtime'.st = "absent" THEN "absent" ELSE "frozen"
    BY <2>1 DEF RuntimeAccepted, RuntimeExact, outputs
  <2>. QED BY <2>1, <2>2, <2>3 DEF Cleared, Installing
<1>9. CASE /\ ~Refuse(w)
           /\ \/ SecretsOpen(w) \/ SecretsWrite(w) \/ SecretsOwn(w)
              \/ ExtractCheck(w)
  <2>1. /\ UNCHANGED <<extracts, bundle, runtime, rollback, strayTemp, refused>>
        /\ job'[w] = job[w]
        /\ pc[w] \in {"secrets_open", "secrets_write", "secrets_own",
                      "extract_check"}
        /\ pc'[w] \in {"secrets_write", "secrets_own", "extract_check",
                       "extract_create"}
    BY <1>0, <1>9 DEF SecretsOpen, SecretsWrite, SecretsOwn, ExtractCheck,
                      Require, Goto, outputs
  <2>2. ExtractsAccepted(w)' /\ RollbacksPreserved'
    BY <1>0, <2>1 DEF Cleared, ExtractsAccepted, ExtractsExact, ActiveExtracts,
                      Preserved, RollbacksPreserved
  <2>. QED BY <1>0, <2>1, <2>2 DEF Cleared, Installing
<1>10. CASE ExtractCreate(w) \/ ExtractWrite(w) \/ ExtractSeal(w)
  <2>1. /\ pc[w] \in {"extract_create", "extract_write", "extract_seal"}
        /\ UNCHANGED <<bundle, runtime, rollback, strayTemp, refused>>
        /\ job'[w] = job[w] /\ job[w].pub \in Times
        /\ pc'[w] \in {"extract_write", "extract_seal", "extract_verify"}
    BY <1>0, <1>10 DEF ExtractCreate, ExtractWrite, ExtractSeal, ExtractStep,
                       Goto, outputs, ControlOK
  <2>2. /\ RollbacksPreserved' /\ TypeOK'
    BY <1>0, <1>10, <2>1, ControlType, FilesType
    DEF Cleared, RollbacksPreserved, TypeOK, Next, Provision
  <2> DEFINE pub == job[w].pub
             others == \A t \in Times \ {pub} :
                           extracts[t].st \in {"absent", "sealed"}
  <2>3. ASSUME NEW from, NEW step, NEW file, ExtractStep(w, from, step, pub, file)
        PROVE  /\ extracts'[pub] = file /\ pc[w] = from /\ pc'[w] = step
               /\ others => others'
    BY <1>0, <2>1, <2>3 DEF ExtractStep, Goto
  <2>4. CASE ExtractCreate(w)
    <3>1. ExtractsAccepted(w) /\ pc[w] = "extract_create"
      BY <1>0, <2>4 DEF ExtractCreate, Cleared
    <3>2. CASE extracts[pub].st = "absent"
      <4>1. others
        BY <1>0, <2>1, <3>1, <3>2, ExtractsRead DEF ExtractsAccepted
      <4>2. ExtractStep(w, "extract_create", "extract_write", pub,
                        [st |-> "partial", rel |-> job[w].rel])
        BY <2>4, <3>2 DEF ExtractCreate
      <4>3. /\ extracts'[pub] = [st |-> "partial", rel |-> job[w].rel]
            /\ pc'[w] = "extract_write" /\ others'
        BY <2>3, <4>1, <4>2
      <4>. QED BY <1>0, <2>1, <2>2, <4>3 DEF Cleared, Installing
    <3>3. CASE extracts[pub].st # "absent"
      <4>1. ExtractsExact(w)
        BY <1>0, <2>1, <3>1, <3>3, ExtractsRead DEF ExtractsAccepted
      <4>2. UNCHANGED extracts /\ pc'[w] = "extract_verify"
        BY <1>0, <2>4, <3>3 DEF ExtractCreate, outputs, Goto
      <4>3. ExtractsExact(w)'
        BY <2>1, <4>1, <4>2 DEF ExtractsExact, ActiveExtracts, Preserved
      <4>. QED BY <1>0, <2>1, <2>2, <4>2, <4>3 DEF Cleared, Installing
    <3>. QED BY <3>2, <3>3
  <2>5. CASE ExtractWrite(w)
    <3>1. /\ extracts'[pub] = [st |-> "complete", rel |-> extracts[pub].rel]
          /\ pc[w] = "extract_write" /\ pc'[w] = "extract_seal"
          /\ others => others'
      BY <2>3, <2>5 DEF ExtractWrite
    <3>2. others' /\ extracts'[pub].rel = job[w].rel
      BY <1>0, <3>1 DEF Cleared
    <3>. QED BY <1>0, <2>1, <2>2, <3>1, <3>2 DEF Cleared, Installing
  <2>6. CASE ExtractSeal(w)
    <3>1. /\ extracts'[pub] = [st |-> "sealed", rel |-> extracts[pub].rel]
          /\ pc[w] = "extract_seal" /\ pc'[w] = "extract_verify"
          /\ others => others'
      BY <2>3, <2>6 DEF ExtractSeal
    <3>2. others' /\ extracts'[pub] = [st |-> "sealed", rel |-> job[w].rel]
      BY <1>0, <3>1 DEF Cleared
    <3>3. ExtractsExact(w)'
      BY <2>1, <3>2 DEF ExtractsExact, ActiveExtracts, Preserved
    <3>. QED BY <1>0, <2>1, <2>2, <3>1, <3>3 DEF Cleared, Installing
  <2>. QED BY <1>10, <2>4, <2>5, <2>6
<1>11. CASE ExtractVerify(w) /\ ~Refuse(w)
  <2>1. /\ pc[w] = "extract_verify" /\ pc'[w] = "runtime_check"
        /\ UNCHANGED <<bundle, runtime, rollback, strayTemp, refused>>
        /\ job'[w] = job[w]
    BY <1>0, <1>11 DEF ExtractVerify, Require, Goto, outputs
  <2>. QED BY <1>0, <2>1 DEF Cleared, Installing, RollbacksPreserved
<1>12. CASE /\ ~Refuse(w)
            /\ \/ RuntimeCheck(w) \/ BundleOpen(w) \/ BundleWrite(w)
               \/ BundleFreeze(w)
  <2>1. /\ UNCHANGED <<runtime, rollback, strayTemp, refused>>
        /\ job'[w] = job[w]
        /\ \/ /\ pc[w] = "runtime_check" /\ pc'[w] = "bundle_open"
              /\ bundle' = bundle
           \/ pc[w] = "bundle_open" /\ pc'[w] = "bundle_write"
           \/ pc[w] = "bundle_write" /\ pc'[w] = "runtime_create"
           \/ /\ pc[w] = "bundle_freeze" /\ pc'[w] = "runtime_verify"
              /\ bundle' = "frozen"
    BY <1>0, <1>12 DEF RuntimeCheck, BundleOpen, BundleWrite, BundleFreeze,
                       BundleStep, Require, Goto, outputs
  <2>. QED BY <1>0, <2>1 DEF Cleared, Installing, RollbacksPreserved
<1>13. CASE RuntimeCreate(w) \/ RuntimeWrite(w) \/ RuntimeSeal(w)
  <2>1. /\ UNCHANGED <<rollback, strayTemp, refused>>
        /\ job'[w] = job[w]
        /\ \/ /\ pc[w] = "runtime_create" /\ pc'[w] = "runtime_write"
              /\ runtime'.bound = job[w].pub
           \/ /\ pc[w] = "runtime_create" /\ pc'[w] = "bundle_freeze"
              /\ runtime' = runtime /\ runtime.st # "absent"
           \/ /\ pc[w] = "runtime_write" /\ pc'[w] = "runtime_seal"
              /\ runtime'.bound = runtime.bound
           \/ /\ pc[w] = "runtime_seal" /\ pc'[w] = "bundle_freeze"
              /\ runtime' = [st |-> "sealed", bound |-> runtime.bound]
    BY <1>0, <1>13 DEF RuntimeCreate, RuntimeWrite, RuntimeSeal, RuntimeStep,
                       Goto, outputs
  <2>. QED BY <1>0, <2>1 DEF Cleared, Installing, RollbacksPreserved
<1>. QED
  BY <1>2, <1>3, <1>5, <1>6, <1>7, <1>8, <1>9, <1>10, <1>11, <1>12, <1>13
  DEF Step, Provision, Publish

\* Before the first command nothing is counted on.
LEMMA ClearedInvInit == Init => ClearedInv
<1> SUFFICES ASSUME Init PROVE ClearedInv
  OBVIOUS
<1>1. \A w \in Writers : pc[w] = "idle"
  BY DEF Init
<1>. QED BY <1>1, InitType DEF ClearedInv, Cleared, Installing

\* Every step keeps what a command may count on.
LEMMA ClearedInvStep ==
    ASSUME OneWriter, ClearedInv, [Next]_vars
    PROVE  ClearedInv'
<1>1. TypeOK'
  BY ControlType, FilesType DEF ClearedInv, TypeOK
<1>2. ASSUME NEW w \in Writers, Step(w) PROVE ClearedInv'
  <2>1. Cleared(w)'
    BY <1>2, ClearedKept
  <2>. QED BY <1>1, <1>2, <2>1 DEF OneWriter, ClearedInv
<1>3. CASE Tick \/ StepBack \/ GatewayRestart \/ UNCHANGED vars
  <2>1. UNCHANGED <<outputs, pc, job, refused>>
    BY <1>3 DEF Tick, StepBack, GatewayRestart, vars, outputs
  <2>. QED BY <1>1, <2>1
           DEF ClearedInv, Cleared, SecretsAccepted, ExtractsAccepted,
               ExtractsExact, ActiveExtracts, Preserved, RollbacksPreserved,
               outputs
<1>. QED BY <1>2, <1>3 DEF Next, Step

\* One writer: what its checks have found holds until it relies on it.
THEOREM ClearedInvHolds ==
    ASSUME OneWriter
    PROVE  Spec => []ClearedInv
<1>1. ClearedInv /\ [Next]_vars => ClearedInv'
  BY ClearedInvStep
<1>. QED BY <1>1, ClearedInvInit, PTL DEF Spec

\* The check of a step an installation has come to finds what it asks for.
LEMMA ChecksPass ==
    ASSUME OneWriter, ClearedInv, NEW w \in Writers
    PROVE  /\ pc[w] \in {"secrets_open"} => SecretsAccepted
           /\ pc[w] = "extract_check" => ExtractsAccepted(w)
           /\ pc[w] = "extract_verify" => ExtractsExact(w)
           /\ pc[w] = "runtime_check" => RuntimeAccepted(w)
           /\ pc[w] = "runtime_verify" => RuntimeExact(w)
BY TempIsStray DEF ClearedInv, Cleared, RuntimeAccepted, RuntimeExact, Installing

\* One writer: a provision that is past the checks ahead of its installation is
\* not refused, whatever was killed before it.
THEOREM PreflightHolds ==
    ASSUME OneWriter
    PROVE  Spec => PreflightDecides
<1>1. ClearedInv /\ [Next]_vars
        => [\A w \in Writers : pc[w] \in InstallSteps => w \notin refused']_vars
  <2> SUFFICES ASSUME ClearedInv, [Next]_vars, NEW w \in Writers,
                      pc[w] \in InstallSteps
               PROVE  w \notin refused'
    OBVIOUS
  <2>0. w \notin refused
    BY DEF ClearedInv, Cleared
  <2>1. CASE Step(w)
    <3>1. CASE \/ SecretsOpen(w) \/ ExtractCheck(w) \/ ExtractVerify(w)
               \/ RuntimeCheck(w) \/ RuntimeVerify(w)
      BY <2>0, <3>1, ChecksPass
      DEF SecretsOpen, ExtractCheck, ExtractVerify, RuntimeCheck, RuntimeVerify,
          Require, Finish
    <3>2. CASE \/ SecretsWrite(w) \/ SecretsOwn(w) \/ ExtractCreate(w)
               \/ ExtractWrite(w) \/ ExtractSeal(w) \/ BundleOpen(w)
               \/ BundleWrite(w) \/ RuntimeCreate(w) \/ RuntimeWrite(w)
               \/ RuntimeSeal(w) \/ BundleFreeze(w)
      BY <2>0, <3>2
      DEF SecretsWrite, SecretsOwn, ExtractCreate, ExtractWrite, ExtractSeal,
          ExtractStep, BundleOpen, BundleWrite, BundleFreeze, BundleStep,
          RuntimeCreate, RuntimeWrite, RuntimeSeal, RuntimeStep
    <3>3. CASE Kill(w)
      BY <2>0, <3>3, Zenon DEF Kill, Finish
    <3>4. CASE \/ StartProvision(w) \/ ProvisionTime(w) \/ ProvisionCheck(w)
               \/ Publish(w)
      BY <3>4
      DEF StartProvision, ProvisionTime, ProvisionCheck, Publish, StartPublish,
          Start, PublishTime, Append, AppendWrite, AppendSeal, ExtractStep,
          RebindRead, RollbackOpen, RollbackWrite, RollbackSeal, RollbackStep,
          RebindTemp, RebindReplace
    <3>. QED BY <2>1, <3>1, <3>2, <3>3, <3>4 DEF Step, Provision
  <2>2. CASE Tick \/ StepBack \/ GatewayRestart \/ UNCHANGED vars
    BY <2>0, <2>2 DEF Tick, StepBack, GatewayRestart, vars
  <2>3. ASSUME NEW v \in Writers, Step(v) PROVE v = w
    BY DEF OneWriter
  <2>. QED BY <2>1, <2>2, <2>3 DEF Next, Step
<1>. QED BY <1>1, ClearedInvHolds, PTL DEF Spec, PreflightDecides

-----------------------------------------------------------------------------
(* As long as no command was killed, what a command leaves is whole.       *)

Publishing == PublishSteps \ {"pb_time"}

\* The outputs are as some finished command left them, but for what the command
\* under way has come to.
AtRest(w) ==
    /\ pc[w] \in ProvisionSteps => job[w].cmd = "provision"
    /\ pc[w] \in PublishSteps => job[w].cmd = "publish"
    /\ ~strayTemp
    /\ pc[w] \notin {"secrets_write", "secrets_own"} =>
          secrets \in {"absent", "owned", "legacy"}
    /\ \A t \in Times :
          \/ extracts[t].st \in {"absent", "sealed"}
          \/ pc[w] \in Writing /\ t = ExtractOf(w)
    /\ pc[w] \notin {"runtime_write", "runtime_seal"} =>
          runtime.st \in {"absent", "sealed"}
    /\ \A t \in Times : extracts[t].st # "absent" =>
          \/ runtime.st # "absent" /\ t <= runtime.bound
          \/ /\ pc[w] \in {"extract_write", "extract_seal", "extract_verify"}
                            \cup Installing
             /\ t = job[w].pub
          \/ pc[w] \in Publishing \ {"append"} /\ t = job[w].now
    /\ pc[w] \notin Installing \ {"runtime_check", "bundle_open"} =>
          bundle = IF runtime.st = "absent" THEN "absent" ELSE "frozen"
    /\ \A t \in Times :
          \/ rollback[t] \in {"absent", "sealed"}
          \/ pc[w] \in {"rollback_write", "rollback_seal"} /\ t = job[w].pub
    /\ pc[w] \in Publishing =>
          /\ runtime.st = "sealed"
          /\ runtime.bound = job[w].pub
          /\ job[w].pub < job[w].now
    /\ (pc[w] \in ProvisionSteps \ {"pv_time"} /\ runtime.st # "absent") =>
          runtime.bound = job[w].pub

\* The strengthening that makes RefusalsExplained inductive.
UndisturbedInv ==
    /\ BoundInv
    /\ ClearedInv
    /\ abandoned = {} => (\A w \in Writers : AtRest(w)) /\ RefusalsExplained

\* Undisturbed, a command is refused where it settles its publication time or
\* checks its outputs, and nowhere later.
LEMMA RefusalsEarly ==
    ASSUME OneWriter, BoundInv, ClearedInv, NEW w \in Writers, AtRest(w),
           Step(w), Refuse(w), ~Kill(w), w \notin refused
    PROVE  \/ ProvisionTime(w) \/ ProvisionCheck(w) \/ PublishTime(w)
<1>0. /\ TypeOK /\ ControlOK /\ FilesOK
      /\ pc \in [Writers -> {"idle"} \cup ProvisionSteps \cup PublishSteps]
  BY DEF BoundInv, TypeOK, ControlOK
<1>1. pc'[w] = "idle" /\ w \in refused'
  BY <1>0 DEF Refuse, Goto
<1>2. CASE StartProvision(w) \/ StartPublish(w)
  BY <1>0, <1>1, <1>2 DEF StartProvision, StartPublish, Start, Goto
<1>3. CASE \/ SecretsOpen(w) \/ ExtractCheck(w) \/ ExtractVerify(w)
           \/ RuntimeCheck(w) \/ RuntimeVerify(w)
  BY <1>1, <1>3, ChecksPass
  DEF SecretsOpen, ExtractCheck, ExtractVerify, RuntimeCheck, RuntimeVerify,
      Require, Finish
<1>4. CASE \/ SecretsWrite(w) \/ SecretsOwn(w) \/ ExtractCreate(w)
           \/ ExtractWrite(w) \/ ExtractSeal(w) \/ BundleOpen(w)
           \/ BundleWrite(w) \/ RuntimeCreate(w) \/ RuntimeWrite(w)
           \/ RuntimeSeal(w) \/ BundleFreeze(w) \/ AppendWrite(w)
           \/ AppendSeal(w) \/ RollbackWrite(w) \/ RollbackSeal(w)
           \/ RebindTemp(w) \/ RebindReplace(w)
  BY <1>1, <1>4
  DEF SecretsWrite, SecretsOwn, ExtractCreate, ExtractWrite, ExtractSeal,
      ExtractStep, BundleOpen, BundleWrite, BundleFreeze, BundleStep,
      RuntimeCreate, RuntimeWrite, RuntimeSeal, RuntimeStep, AppendWrite,
      AppendSeal, RollbackWrite, RollbackSeal, RollbackStep, RebindTemp,
      RebindReplace, Finish
<1>5. CASE Append(w)
  <2>1. pc[w] = "append" /\ job[w].now \in Times /\ job[w].pub \in Times
    BY <1>0, <1>5 DEF Append, ControlOK
  <2>2. extracts[job[w].now].st = "absent"
    BY <1>0, <2>1 DEF AtRest, Publishing, Installing, BoundInv
  <2>. QED BY <1>1, <1>5, <2>2 DEF Append, ExtractStep
<1>6. CASE RebindRead(w)
  BY <1>1, <1>6 DEF RebindRead, Require, AtRest, Publishing
<1>7. CASE RollbackOpen(w)
  <2>1. pc[w] = "rollback_open" /\ job[w].pub \in Times
    BY <1>0, <1>7 DEF RollbackOpen, ControlOK
  <2>2. rollback[job[w].pub] \in {"absent", "sealed"}
    BY <2>1 DEF AtRest
  <2>. QED BY <1>1, <1>7, <2>2 DEF RollbackOpen, RollbackStep, Require
<1>. QED
  BY <1>2, <1>3, <1>4, <1>5, <1>6, <1>7 DEF Step, Provision, Publish

\* Undisturbed, each of these refusals is one of those RefusalsExplained lists.
LEMMA RefusalReasons ==
    ASSUME OneWriter, BoundInv, ClearedInv, NEW w \in Writers, AtRest(w), Refuse(w),
           \/ ProvisionTime(w) \/ ProvisionCheck(w) \/ PublishTime(w),
           w \notin refused
    PROVE  \/ job[w].now < runtime.bound
           \/ /\ job[w].cmd = "provision"
              /\ runtime.bound \in Times
              /\ extracts[runtime.bound].rel # job[w].rel
           \/ /\ job[w].cmd = "publish"
              /\ runtime.st = "absent" \/ runtime.bound = job[w].now
<1>0. /\ TypeOK /\ ControlOK /\ FilesOK
      /\ pc \in [Writers -> {"idle"} \cup ProvisionSteps \cup PublishSteps]
      /\ runtime.st # "absent" =>
            runtime.bound \in Times /\ extracts[runtime.bound].st \in Readable
  BY DEF BoundInv, TypeOK, ControlOK, BoundExtractComplete
<1>1. pc'[w] = "idle" /\ w \in refused'
  BY <1>0 DEF Refuse, Goto
<1>2. CASE ProvisionTime(w) \/ PublishTime(w)
  <2>1. job[w].now \in Times /\ pc[w] \in {"pv_time", "pb_time"}
    BY <1>0, <1>2 DEF ProvisionTime, PublishTime, ControlOK
  <2>2. runtime.st = "absent" => \A t \in Times : extracts[t].st = "absent"
    BY <2>1 DEF AtRest, Installing, Publishing
  <2>3. \/ pc[w] = "pv_time" /\ PublicationTime(job[w].now) = {}
        \/ pc[w] = "pb_time" /\ PublicationTime(job[w].now) \subseteq {job[w].now}
    BY <1>1, <1>2 DEF ProvisionTime, PublishTime, AdoptPublication
  <2>4. job[w].cmd = IF pc[w] = "pv_time" THEN "provision" ELSE "publish"
    BY <2>1 DEF AtRest
  <2>5. CASE runtime.st = "absent"
    <3>1. PublicationTime(job[w].now) = {job[w].now}
      BY <2>2, <2>5 DEF PublicationTime
    <3>. QED BY <2>3, <2>4, <2>5, <3>1
  <2>6. CASE runtime.st # "absent"
    <3>1. runtime.st \in Readable
      BY <1>0, <2>1, <2>6 DEF AtRest
    <3>2. runtime.bound <= job[w].now =>
              PublicationTime(job[w].now) = {runtime.bound}
      BY <1>0, <2>6, <3>1 DEF PublicationTime, ValidExtract
    <3>. QED BY <1>0, <2>1, <2>3, <2>4, <2>6, <3>2
  <2>. QED BY <2>5, <2>6
<1>3. CASE ProvisionCheck(w)
  <2>1. pc[w] = "pv_check" /\ job[w].pub \in Times /\ job[w].cmd = "provision"
    BY <1>0, <1>3 DEF ProvisionCheck, ControlOK, AtRest
  <2>2. ~(SecretsAccepted /\ ExtractsAccepted(w) /\ RuntimeAccepted(w))
    BY <1>1, <1>3 DEF ProvisionCheck, Require
  <2>3. SecretsAccepted
    BY <2>1 DEF SecretsAccepted, AtRest
  <2>4. ~AnyTemp /\ RollbacksPreserved
    BY <2>1 DEF AnyTemp, RollbacksPreserved, AtRest, OneWriter
  <2>5. RuntimeAccepted(w)
    BY <1>0, <2>1, <2>4
    DEF RuntimeAccepted, RuntimeExact, AtRest, Installing, FilesOK
  <2>6. ~ExtractsAccepted(w)
    BY <2>2, <2>3, <2>5
  <2>7. \A t \in Times : extracts[t].st \in {"absent", "sealed"}
    BY <2>1 DEF AtRest, Writing
  <2>8. /\ extracts[job[w].pub].st = "sealed"
        /\ extracts[job[w].pub].rel # job[w].rel
    <3>1. extracts[job[w].pub] \in [st : FileState, rel : Releases \cup {NoRelease}]
      BY <1>0, <2>1 DEF FilesOK
    <3>2. ActiveExtracts(job[w].pub) # {} /\ ~ExtractsExact(w)
      BY <2>6 DEF ExtractsAccepted
    <3>3. extracts[job[w].pub].st = "sealed"
      BY <1>0, <2>1, <2>7, <3>2, ExtractsRead
    <3>. QED BY <1>0, <2>1, <2>7, <3>1, <3>2, <3>3, ExtractsRead
  <2>9. runtime.bound = job[w].pub
    <3>1. runtime.st # "absent"
      BY <2>1, <2>8 DEF AtRest, Installing, Publishing
    <3>. QED BY <2>1, <3>1 DEF AtRest
  <2>. QED BY <2>1, <2>8, <2>9
<1>. QED BY <1>2, <1>3

\* Undisturbed, every step that does not kill its writer leaves the outputs so.
LEMMA AtRestKept ==
    ASSUME OneWriter, BoundInv, ClearedInv, NEW w \in Writers, AtRest(w), Step(w),
           ~Kill(w), w \in refused => pc[w] = "idle"
    PROVE  AtRest(w)'
<1>0. /\ TypeOK /\ ControlOK /\ FilesOK /\ Cleared(w)
      /\ pc \in [Writers -> {"idle"} \cup ProvisionSteps \cup PublishSteps]
      /\ job \in [Writers -> Job]
      /\ extracts \in [Times -> [st : FileState, rel : Releases \cup {NoRelease}]]
      /\ runtime.st # "absent" => runtime.bound \in Times
  BY DEF BoundInv, TypeOK, ControlOK, FilesOK, ClearedInv
<1>1. CASE Refuse(w)
  <2>1. w \notin refused =>
            ProvisionTime(w) \/ ProvisionCheck(w) \/ PublishTime(w)
    BY <1>1, RefusalsEarly
  <2>2. pc[w] = "idle" => w \notin refused'
    BY <1>0
    DEF Step, Provision, Publish, StartProvision, StartPublish, Start,
        ProvisionTime, PublishTime, ProvisionCheck, ExtractCheck, ExtractVerify,
        RuntimeCheck, RebindRead, RuntimeVerify, RebindTemp, SecretsOpen,
        SecretsWrite, SecretsOwn, ExtractCreate, ExtractWrite, ExtractSeal,
        Append, AppendWrite, AppendSeal, ExtractStep, BundleOpen, BundleWrite,
        BundleFreeze, BundleStep, RuntimeCreate, RuntimeWrite, RuntimeSeal,
        RuntimeStep, RebindReplace, RollbackOpen, RollbackWrite, RollbackSeal,
        RollbackStep
  <2>3. /\ pc[w] \in {"pv_time", "pv_check", "pb_time"} /\ pc'[w] = "idle"
        /\ UNCHANGED outputs
    BY <1>0, <1>1, <2>1, <2>2
    DEF ProvisionTime, ProvisionCheck, PublishTime, Refuse, Goto
  <2>. QED BY <2>3 DEF AtRest, outputs, Installing, Publishing, Writing
<1>2. CASE (RuntimeVerify(w) \/ RebindReplace(w)) /\ ~Refuse(w)
  <2>1. CASE RuntimeVerify(w)
    <3>1. /\ pc[w] = "runtime_verify" /\ pc'[w] = "idle" /\ UNCHANGED outputs
          /\ RuntimeExact(w) /\ job[w].pub \in Times
      BY <1>0, <1>2, <2>1 DEF RuntimeVerify, Finish, Goto, ControlOK
    <3>. QED BY <3>1 DEF AtRest, outputs, Installing, Publishing, Writing,
                         RuntimeExact
  <2>2. CASE RebindReplace(w)
    <3>1. /\ pc[w] = "rebind_replace" /\ pc'[w] = "idle"
          /\ runtime' = [st |-> "sealed", bound |-> job[w].now]
          /\ UNCHANGED <<secrets, extracts, bundle, rollback, strayTemp>>
          /\ job[w].now \in Times /\ job[w].pub \in Times
      BY <1>0, <2>2 DEF RebindReplace, Finish, Goto, ControlOK
    <3>. QED BY <3>1 DEF AtRest, Installing, Publishing, Writing
  <2>. QED BY <1>2, <2>1, <2>2
<1>3. CASE StartProvision(w) \/ StartPublish(w)
  <2>1. /\ pc[w] = "idle" /\ UNCHANGED outputs
        /\ \/ pc'[w] = "pv_time" /\ job'[w].cmd = "provision"
           \/ pc'[w] = "pb_time" /\ job'[w].cmd = "publish"
    BY <1>0, <1>3 DEF StartProvision, StartPublish, Start, Goto
  <2>. QED BY <2>1 DEF AtRest, outputs, Installing, Publishing, Writing
<1>4. CASE (ProvisionTime(w) \/ PublishTime(w)) /\ ~Refuse(w)
  <2>1. /\ pc[w] \in {"pv_time", "pb_time"} /\ job[w].now \in Times
        /\ UNCHANGED outputs
    BY <1>0, <1>4
    DEF ProvisionTime, PublishTime, ControlOK, AdoptPublication
  <2>2. PICK t \in PublicationTime(job[w].now) :
            /\ job'[w] = Adopting(job[w], t)
            /\ \/ pc[w] = "pv_time" /\ pc'[w] = "pv_check"
               \/ pc[w] = "pb_time" /\ pc'[w] = "append" /\ t # job[w].now
    BY <1>0, <1>4 DEF ProvisionTime, PublishTime, AdoptPublication, Goto
  <2>3. /\ job'[w].cmd = job[w].cmd /\ job'[w].now = job[w].now
        /\ job'[w].pub = t
    BY <2>2 DEF Adopting
  <2>4. runtime.st = "absent" => \A u \in Times : extracts[u].st = "absent"
    BY <2>1 DEF AtRest, Installing, Publishing
  <2>5. runtime.st # "absent" =>
            t = runtime.bound /\ t <= job[w].now /\ t \in Times
    BY DEF PublicationTime, ValidExtract
  <2>6. runtime.st = "absent" => t = job[w].now
    BY <2>4 DEF PublicationTime
  <2>7. pc[w] = "pb_time" =>
            runtime.st = "sealed" /\ runtime.bound = t /\ t < job[w].now
    BY <2>1, <2>2, <2>5, <2>6 DEF AtRest
  <2>. QED BY <2>1, <2>2, <2>3, <2>5, <2>6, <2>7
           DEF AtRest, outputs, Installing, Publishing, Writing
<1>5. CASE /\ ~Refuse(w)
           /\ \/ ProvisionCheck(w) \/ ExtractCheck(w) \/ ExtractVerify(w)
              \/ RuntimeCheck(w) \/ RebindRead(w) \/ RebindTemp(w)
  <2>1. /\ UNCHANGED outputs /\ job'[w] = job[w]
        /\ \/ pc[w] = "pv_check" /\ pc'[w] = "secrets_open"
           \/ pc[w] = "extract_check" /\ pc'[w] = "extract_create"
           \/ pc[w] = "extract_verify" /\ pc'[w] = "runtime_check"
           \/ pc[w] = "runtime_check" /\ pc'[w] = "bundle_open"
           \/ pc[w] = "rebind_read" /\ pc'[w] = "rollback_open"
           \/ pc[w] = "rebind_temp" /\ pc'[w] = "rebind_replace"
    BY <1>0, <1>5
    DEF ProvisionCheck, ExtractCheck, ExtractVerify, RuntimeCheck, RebindRead,
        RebindTemp, Require, Goto
  <2>. QED BY <1>0, <2>1 DEF AtRest, outputs, Installing, Publishing, Writing
<1>6. CASE (SecretsOpen(w) \/ SecretsWrite(w) \/ SecretsOwn(w)) /\ ~Refuse(w)
  <2>1. /\ UNCHANGED <<extracts, bundle, runtime, rollback, strayTemp>>
        /\ job'[w] = job[w]
        /\ \/ pc[w] = "secrets_open" /\ pc'[w] = "secrets_write"
           \/ pc[w] = "secrets_write" /\ pc'[w] = "secrets_own"
           \/ /\ pc[w] = "secrets_own" /\ pc'[w] = "extract_check"
              /\ secrets' = "owned"
    BY <1>0, <1>6 DEF SecretsOpen, SecretsWrite, SecretsOwn, Goto
  <2>. QED BY <1>0, <2>1 DEF AtRest, Installing, Publishing, Writing
<1>7. ASSUME NEW from, NEW step, NEW t \in Times, NEW st, NEW rel,
             ExtractStep(w, from, step, t, [st |-> st, rel |-> rel]),
             \/ from \in {"append", "append_write", "append_seal"} /\ t = job[w].now
             \/ /\ from \in {"extract_create", "extract_write", "extract_seal"}
                /\ t = job[w].pub,
             \/ from = "append" /\ step = "append_write"
             \/ from = "append_write" /\ step = "append_seal"
             \/ from = "append_seal" /\ step = "rebind_read" /\ st = "sealed"
             \/ from = "extract_create" /\ step = "extract_write"
             \/ from = "extract_write" /\ step = "extract_seal"
             \/ from = "extract_seal" /\ step = "extract_verify" /\ st = "sealed"
      PROVE  AtRest(w)'
  <2>1. /\ pc[w] = from /\ pc'[w] = step /\ job'[w] = job[w]
        /\ extracts'[t].st = st
        /\ \A u \in Times \ {t} : extracts'[u] = extracts[u]
        /\ UNCHANGED <<secrets, bundle, runtime, rollback, strayTemp>>
    BY <1>0, <1>7 DEF ExtractStep, Goto
  <2>2. /\ \A u \in Times \ {t} : extracts[u].st \in {"absent", "sealed"}
        /\ step \in Writing => ExtractOf(w)' = t
    BY <1>7, <2>1 DEF AtRest, Writing, ExtractOf
  <2>3. \A u \in Times :
            \/ extracts'[u].st \in {"absent", "sealed"}
            \/ pc'[w] \in Writing /\ u = ExtractOf(w)'
    BY <1>7, <2>1, <2>2 DEF Writing
  <2>4. \A u \in Times : extracts'[u].st # "absent" =>
          \/ runtime.st # "absent" /\ u <= runtime.bound
          \/ /\ step \in {"extract_write", "extract_seal", "extract_verify"}
             /\ u = job[w].pub
          \/ step \in Publishing \ {"append"} /\ u = job[w].now
    BY <1>7, <2>1 DEF AtRest, Installing, Publishing
  <2>. QED BY <1>7, <2>1, <2>3, <2>4 DEF AtRest, Installing, Publishing
<1>8. CASE ExtractCreate(w) \/ ExtractWrite(w) \/ ExtractSeal(w)
  <2>1. job[w].pub \in Times
    BY <1>0, <1>8
    DEF ExtractCreate, ExtractWrite, ExtractSeal, ExtractStep, ControlOK
  <2>2. CASE ExtractCreate(w) /\ extracts[job[w].pub].st # "absent"
    <3>1. /\ UNCHANGED outputs /\ job'[w] = job[w]
          /\ pc[w] = "extract_create" /\ pc'[w] = "extract_verify"
      BY <1>0, <2>2 DEF ExtractCreate, Goto
    <3>. QED BY <3>1 DEF AtRest, outputs, Installing, Publishing, Writing
  <2>3. CASE ExtractCreate(w) /\ extracts[job[w].pub].st = "absent"
    BY <1>7, <2>1, <2>3 DEF ExtractCreate
  <2>. QED BY <1>7, <1>8, <2>1, <2>2, <2>3 DEF ExtractWrite, ExtractSeal
<1>9. CASE (Append(w) \/ AppendWrite(w) \/ AppendSeal(w)) /\ ~Refuse(w)
  <2>1. job[w].now \in Times
    BY <1>0, <1>9 DEF Append, AppendWrite, AppendSeal, ExtractStep, ControlOK
  <2>2. CASE Append(w)
    <3>1. pc[w] = "append" /\ job[w].pub \in Times
      BY <1>0, <2>2 DEF Append, ControlOK
    <3>2. extracts[job[w].now].st = "absent"
      BY <1>0, <2>1, <3>1 DEF AtRest, Publishing, Installing
    <3>. QED BY <1>7, <2>1, <2>2, <3>2 DEF Append
  <2>. QED BY <1>7, <1>9, <2>1, <2>2 DEF AppendWrite, AppendSeal
<1>10. CASE BundleOpen(w) \/ BundleWrite(w) \/ BundleFreeze(w)
  <2>1. /\ UNCHANGED <<secrets, extracts, runtime, rollback, strayTemp>>
        /\ job'[w] = job[w]
        /\ \/ pc[w] = "bundle_open" /\ pc'[w] = "bundle_write"
           \/ pc[w] = "bundle_write" /\ pc'[w] = "runtime_create"
           \/ pc[w] = "bundle_freeze" /\ pc'[w] = "runtime_verify"
    BY <1>0, <1>10 DEF BundleOpen, BundleWrite, BundleFreeze, BundleStep, Goto
  <2>. QED BY <1>0, <2>1 DEF AtRest, Installing, Publishing, Writing
<1>11. CASE RuntimeCreate(w) \/ RuntimeWrite(w) \/ RuntimeSeal(w)
  <2>1. /\ UNCHANGED <<secrets, extracts, bundle, rollback, strayTemp>>
        /\ job'[w] = job[w] /\ job[w].pub \in Times
        /\ \/ /\ pc[w] = "runtime_create" /\ pc'[w] = "runtime_write"
              /\ runtime.st = "absent" /\ runtime'.st # "absent"
              /\ runtime'.bound = job[w].pub
           \/ /\ pc[w] = "runtime_create" /\ pc'[w] = "bundle_freeze"
              /\ runtime' = runtime
           \/ /\ pc[w] = "runtime_write" /\ pc'[w] = "runtime_seal"
              /\ runtime.st # "absent" /\ runtime'.st # "absent"
              /\ runtime'.bound = runtime.bound
           \/ /\ pc[w] = "runtime_seal" /\ pc'[w] = "bundle_freeze"
              /\ runtime.st # "absent" /\ runtime'.st = "sealed"
              /\ runtime'.bound = runtime.bound
    BY <1>0, <1>11 DEF RuntimeCreate, RuntimeWrite, RuntimeSeal, RuntimeStep,
                       Goto, outputs, ControlOK, BoundInv, Progress
  <2>. QED BY <1>0, <2>1 DEF AtRest, Installing, Publishing, Writing
<1>12. CASE (RollbackOpen(w) \/ RollbackWrite(w) \/ RollbackSeal(w)) /\ ~Refuse(w)
  <2>1. /\ UNCHANGED <<secrets, extracts, bundle, runtime, strayTemp>>
        /\ job'[w] = job[w]
        /\ pc[w] \in {"rollback_open", "rollback_write", "rollback_seal"}
        /\ pc'[w] \in {"rollback_write", "rollback_seal", "rebind_temp"}
    BY <1>0, <1>12 DEF RollbackOpen, RollbackWrite, RollbackSeal, RollbackStep,
                       Require, Goto, outputs
  <2>2. \A t \in Times :
          \/ rollback'[t] \in {"absent", "sealed"}
          \/ pc'[w] \in {"rollback_write", "rollback_seal"} /\ t = job[w].pub
    <3>0. rollback \in [Times -> FileState] /\ job[w].pub \in Times
      BY <1>0, <2>1 DEF FilesOK, ControlOK
    <3>1. \A t \in Times \ {job[w].pub} : rollback[t] \in {"absent", "sealed"}
      BY DEF AtRest
    <3>2. CASE RollbackOpen(w)
      BY <1>0, <1>12, <3>0, <3>1, <3>2
      DEF RollbackOpen, RollbackStep, Require, Goto, outputs
    <3>3. CASE RollbackWrite(w)
      BY <1>0, <3>0, <3>1, <3>3 DEF RollbackWrite, RollbackStep, Goto
    <3>4. CASE RollbackSeal(w)
      BY <1>0, <3>0, <3>1, <3>4 DEF RollbackSeal, RollbackStep, Goto
    <3>. QED BY <1>12, <3>2, <3>3, <3>4
  <2>. QED BY <1>0, <2>1, <2>2 DEF AtRest, Installing, Publishing, Writing
<1>. QED
  BY <1>1, <1>2, <1>3, <1>4, <1>5, <1>6, <1>8, <1>9, <1>10, <1>11, <1>12
  DEF Step, Provision, Publish

\* Undisturbed, a refusal on record stays explained, and a new one is.
LEMMA ExplainedKept ==
    ASSUME OneWriter, BoundInv, ClearedInv, NEW w \in Writers, AtRest(w), Step(w),
           ~Kill(w), abandoned = {}, RefusalsExplained
    PROVE  RefusalsExplained'
<1>0. /\ pc \in [Writers -> {"idle"} \cup ProvisionSteps \cup PublishSteps]
      /\ w \in refused => pc[w] = "idle"
  BY DEF BoundInv, TypeOK, ControlOK, ClearedInv, Cleared
<1>1. CASE Refuse(w) /\ w \notin refused
  <2>1. /\ \/ ProvisionTime(w) \/ ProvisionCheck(w) \/ PublishTime(w)
        /\ UNCHANGED <<outputs, job>>
    BY <1>1, RefusalsEarly DEF Refuse
  <2>. QED BY <1>1, <2>1, RefusalReasons DEF RefusalsExplained, OneWriter, outputs
<1>2. CASE ~Refuse(w) \/ w \in refused
  <2>1. w \notin refused'
    <3>1. CASE StartProvision(w) \/ StartPublish(w)
      BY <3>1 DEF StartProvision, StartPublish, Start
    <3>2. CASE ~(StartProvision(w) \/ StartPublish(w))
      <4>1. pc[w] # "idle"
        BY <3>2
        DEF Step, Provision, Publish, ProvisionTime, PublishTime,
            ProvisionCheck, ExtractCheck, ExtractVerify, RuntimeCheck,
            RebindRead, RuntimeVerify, RebindTemp, SecretsOpen, SecretsWrite,
            SecretsOwn, ExtractCreate, ExtractWrite, ExtractSeal, Append,
            AppendWrite, AppendSeal, ExtractStep, BundleOpen, BundleWrite,
            BundleFreeze, BundleStep, RuntimeCreate, RuntimeWrite, RuntimeSeal,
            RuntimeStep, RebindReplace, RollbackOpen, RollbackWrite,
            RollbackSeal, RollbackStep
      <4>2. refused' = refused
        BY <1>0, <1>2, <3>2, <4>1
        DEF Step, Provision, Publish, ProvisionTime, PublishTime,
            ProvisionCheck, ExtractCheck, ExtractVerify, RuntimeCheck,
            RebindRead, RuntimeVerify, RebindTemp, SecretsOpen, SecretsWrite,
            SecretsOwn, ExtractCreate, ExtractWrite, ExtractSeal, Append,
            AppendWrite, AppendSeal, ExtractStep, BundleOpen, BundleWrite,
            BundleFreeze, BundleStep, RuntimeCreate, RuntimeWrite, RuntimeSeal,
            RuntimeStep, RebindReplace, RollbackOpen, RollbackWrite,
            RollbackSeal, RollbackStep, AdoptPublication, Require, Finish
      <4>. QED BY <1>0, <4>1, <4>2
    <3>. QED BY <3>1, <3>2
  <2>. QED BY <2>1 DEF RefusalsExplained, OneWriter
<1>. QED BY <1>1, <1>2

\* One writer, none of whose commands was killed: a provision is refused only for a
\* clock behind the bound publication or for other rows, a publication only when
\* there is no runtime to rebind or it would not be newer.
THEOREM RefusalsStayExplained ==
    ASSUME OneWriter
    PROVE  Spec => []RefusalsExplained
<1>1. Init => UndisturbedInv
  <2> SUFFICES ASSUME Init PROVE UndisturbedInv
    OBVIOUS
  <2>1. BoundInv /\ 0 \in Times
    BY BoundInvInit, MaxTimeAssumption
  <2>2. ClearedInv
    BY ClearedInvInit
  <2>3. RefusalsExplained
    BY DEF Init, RefusalsExplained
  <2>4. \A w \in Writers : pc[w] = "idle"
    BY DEF Init
  <2>5. ASSUME NEW w \in Writers PROVE AtRest(w)
    <3>1. CASE Fresh
      BY <2>4, <3>1 DEF Init, Fresh, Absent, AtRest, Installing, Publishing
    <3>2. CASE Legacy
      <4>1. /\ \A t \in Times \ {0} : extracts[t].st = "absent"
            /\ extracts[0].st = "sealed" /\ runtime.bound = 0
            /\ runtime.st = "sealed" /\ bundle = "frozen" /\ secrets = "legacy"
            /\ ~strayTemp /\ \A t \in Times : rollback[t] = "absent"
        BY <2>1, <3>2 DEF Init, Legacy, Absent
      <4>. QED BY <2>1, <2>4, <4>1 DEF AtRest, Installing, Publishing
    <3>. QED BY <3>1, <3>2 DEF Init
  <2>. QED BY <2>1, <2>2, <2>3, <2>5 DEF UndisturbedInv
<1>2. UndisturbedInv /\ [Next]_vars => UndisturbedInv'
  <2> SUFFICES ASSUME UndisturbedInv, [Next]_vars PROVE UndisturbedInv'
    OBVIOUS
  <2>1. BoundInv' /\ ClearedInv'
    BY BoundInvStep, ClearedInvStep DEF UndisturbedInv
  <2>2. ASSUME NEW w \in Writers, Step(w), abandoned' = {}
        PROVE  (\A v \in Writers : AtRest(v)') /\ RefusalsExplained'
    <3>1. ~Kill(w) /\ abandoned = {}
      <4>1. ASSUME Kill(w) PROVE FALSE
        <5>1. job[w].now \in abandoned'
          BY <4>1, Zenon DEF Kill
        <5>. QED BY <2>2, <5>1
      <4>. QED BY <2>2, <4>1, Footprint DEF world
    <3>2. AtRest(w) /\ RefusalsExplained /\ BoundInv /\ ClearedInv
      BY <3>1 DEF UndisturbedInv
    <3>3. w \in refused => pc[w] = "idle"
      BY <3>2 DEF ClearedInv, Cleared
    <3>4. AtRest(w)' /\ RefusalsExplained'
      BY <2>2, <3>1, <3>2, <3>3, AtRestKept, ExplainedKept
    <3>. QED BY <3>4 DEF OneWriter
  <2>3. CASE Tick \/ StepBack \/ GatewayRestart \/ UNCHANGED vars
    <3>1. UNCHANGED <<outputs, pc, job, refused, abandoned>>
      BY <2>3 DEF Tick, StepBack, GatewayRestart, vars, outputs
    <3>. QED BY <2>1, <3>1
             DEF UndisturbedInv, AtRest, RefusalsExplained, ExtractOf, outputs
  <2>. QED BY <2>1, <2>2, <2>3 DEF Next, Step, UndisturbedInv
<1>3. UndisturbedInv => RefusalsExplained
  BY DEF UndisturbedInv, RefusalsExplained
<1>. QED BY <1>1, <1>2, <1>3, PTL DEF Spec
=============================================================================
