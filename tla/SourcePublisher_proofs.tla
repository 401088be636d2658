----------------------- MODULE SourcePublisher_proofs -----------------------
(***************************************************************************)
(* Proofs about SourcePublisher, for any set of containers: a backup is    *)
(* never recaptured, whatever runs at once; and as long as one container   *)
(* runs at a time, the original row is never lost, and the publisher       *)
(* implements a session on the row.                                        *)
(***************************************************************************)
EXTENDS SourcePublisher, TLAPS

Inv == PublisherTypeOK /\ PublisherInv

LEMMA FirstStepType == \A v \in Verbs : FirstStep[v] \in
                          {"seed_check", "begin_check", "set_check", "restore_check"}
BY DEF FirstStep, Verbs

LEMMA InitInv == PublisherInit => Inv
BY DEF PublisherInit, Inv, PublisherTypeOK, PublisherInv, OriginalRecoverable,
       Sound, Rows, Steps, ProofSteps, HoldingSteps

LEMMA TypeStep == PublisherTypeOK /\ [PublisherNext]_publisherVars => PublisherTypeOK'
<1> SUFFICES ASSUME PublisherTypeOK, [PublisherNext]_publisherVars
             PROVE PublisherTypeOK'
  OBVIOUS
<1> USE DEF PublisherTypeOK, Steps, Rows, ProofSteps, HoldingSteps
<1>1. ASSUME NEW c \in Containers, NEW verb \in Verbs, Launch(c, verb)
      PROVE PublisherTypeOK'
  BY <1>1, FirstStepType DEF Launch, files
<1>2. ASSUME NEW c \in Containers, Work(c)
      PROVE PublisherTypeOK'
  <2> USE DEF On, Exit, files
  <2>1. CASE SeedCheck(c)
    BY <2>1 DEF SeedCheck
  <2>2. CASE SeedLink(c)
    BY <2>2 DEF SeedLink
  <2>3. CASE BeginCheck(c)
    BY <2>3 DEF BeginCheck
  <2>4. CASE BeginKnown(c)
    BY <2>4 DEF BeginKnown
  <2>5. CASE BeginRead(c)
    BY <2>5 DEF BeginRead
  <2>6. CASE BeginLink(c)
    BY <2>6 DEF BeginLink
  <2>7. CASE SetCheck(c)
    BY <2>7 DEF SetCheck
  <2>8. CASE SetCommit(c)
    BY <2>8 DEF SetCommit
  <2>9. CASE RestoreCheck(c)
    BY <2>9 DEF RestoreCheck
  <2>10. CASE RestoreRead(c)
    BY <2>10 DEF RestoreRead
  <2>11. CASE RestoreCommit(c)
    BY <2>11 DEF RestoreCommit
  <2>12. CASE RestoreUnlink(c)
    BY <2>12 DEF RestoreUnlink
  <2> QED
    BY <1>2, <2>1, <2>2, <2>3, <2>4, <2>5, <2>6, <2>7, <2>8, <2>9, <2>10, <2>11,
       <2>12 DEF Work
<1>3. ASSUME NEW c \in Containers, Die(c)
      PROVE PublisherTypeOK'
  BY <1>3 DEF Die, Exit, files
<1>4. CASE UNCHANGED publisherVars
  BY <1>4 DEF publisherVars
<1> QED
  BY <1>1, <1>2, <1>3, <1>4 DEF PublisherNext

\* The container that takes a step is the only one there is: the others are idle
\* and stay so.
LEMMA SoloStep ==
    ASSUME Inv, ~Overlap, NEW c \in Containers, step[c] # "idle",
           NEW d \in Containers, d # c
    PROVE  step[d] = "idle"
BY DEF Inv, PublisherInv

LEMMA InvStep == ~Overlap /\ Inv /\ [PublisherNext]_publisherVars => Inv'
<1> SUFFICES ASSUME ~Overlap, Inv, [PublisherNext]_publisherVars
             PROVE PublisherInv'
  BY TypeStep DEF Inv, PublisherInv
<1> DEFINE Good == /\ OriginalRecoverable
                   /\ backup # "none" => database # "absent"
                   /\ \A c \in Containers : Sound(c)
                   /\ \A c, d \in Containers :
                        step[c] # "idle" /\ step[d] # "idle" => c = d
<1>0. Good /\ PublisherTypeOK
  BY DEF Inv, PublisherInv
<1>1. ASSUME NEW c \in Containers, NEW verb \in Verbs, Launch(c, verb)
      PROVE Good'
  BY <1>0, <1>1, FirstStepType
     DEF Launch, files, OriginalRecoverable, Sound, PublisherTypeOK
<1>2. ASSUME NEW c \in Containers, Work(c)
      PROVE Good'
  <2>0. /\ \A d \in Containers \ {c} : step[d] = "idle" /\ step'[d] = "idle"
        /\ step[c] # "idle"
    <3>1. step[c] # "idle" /\ \A d \in Containers \ {c} : step'[d] = step[d]
      BY <1>0, <1>2
         DEF Work, SeedCheck, SeedLink, BeginCheck, BeginKnown, BeginRead,
             BeginLink, SetCheck, SetCommit, RestoreCheck, RestoreRead,
             RestoreCommit, RestoreUnlink, On, Exit, PublisherTypeOK
    <3> QED
      BY <3>1, SoloStep
  <2>1. \A d \in Containers \ {c} : Sound(d)'
    BY <2>0 DEF Sound
  <2> USE <1>0
      DEF On, Exit, files, OriginalRecoverable, Sound, PublisherTypeOK, Steps,
          Rows, ProofSteps, HoldingSteps
  <2>2. OriginalRecoverable' /\ Sound(c)' /\ (backup # "none" => database # "absent")'
    <3>1. CASE SeedCheck(c)
      BY <3>1 DEF SeedCheck
    <3>2. CASE SeedLink(c)
      BY <3>2 DEF SeedLink
    <3>3. CASE BeginCheck(c)
      BY <3>3 DEF BeginCheck
    <3>4. CASE BeginKnown(c)
      BY <3>4 DEF BeginKnown
    <3>5. CASE BeginRead(c)
      BY <3>5 DEF BeginRead
    <3>6. CASE BeginLink(c)
      BY <3>6 DEF BeginLink
    <3>7. CASE SetCheck(c)
      BY <3>7 DEF SetCheck
    <3>8. CASE SetCommit(c)
      BY <3>8 DEF SetCommit
    <3>9. CASE RestoreCheck(c)
      BY <3>9 DEF RestoreCheck
    <3>10. CASE RestoreRead(c)
      BY <3>10 DEF RestoreRead
    <3>11. CASE RestoreCommit(c)
      BY <3>11 DEF RestoreCommit
    <3>12. CASE RestoreUnlink(c)
      BY <3>12 DEF RestoreUnlink
    <3> QED
      BY <1>2, <3>1, <3>2, <3>3, <3>4, <3>5, <3>6, <3>7, <3>8, <3>9, <3>10, <3>11,
         <3>12 DEF Work
  <2> QED
    BY <2>0, <2>1, <2>2 DEF Good
<1>3. ASSUME NEW c \in Containers, Die(c)
      PROVE Good'
  BY <1>0, <1>3
     DEF Die, Exit, files, OriginalRecoverable, Sound, PublisherTypeOK
<1>4. ASSUME UNCHANGED publisherVars
      PROVE Good'
  BY <1>0, <1>4 DEF publisherVars, OriginalRecoverable, Sound
<1> QED
  <2>1. Good'
    <3> HIDE DEF Good
    <3> QED
      BY <1>1, <1>2, <1>3, <1>4 DEF PublisherNext
  <2> QED
    BY <2>1 DEF PublisherInv

\* Whatever runs at once and dies at whatever step: a container past its check of
\* the source has a source to work on, and a row to write where it writes one.
THEOREM PublisherTypes == PublisherSpec => []PublisherTypeOK
<1>1. PublisherInit => PublisherTypeOK
  BY InitInv DEF Inv
<1> QED
  BY <1>1, TypeStep, PTL DEF PublisherSpec

\* As long as no container is started while another runs, the original row can
\* be recovered, whatever verb died at whatever step.
THEOREM PublisherInvHolds ==
    ASSUME ~Overlap
    PROVE  PublisherSpec => []PublisherInv
<1>1. Inv /\ [PublisherNext]_publisherVars => Inv'
  BY InvStep
<1>2. Inv => PublisherInv
  BY DEF Inv
<1> QED
  BY InitInv, <1>1, <1>2, PTL DEF PublisherSpec

\* begin-proof links its backup, so that it never replaces one.
THEOREM BackupsAreKept == PublisherSpec => BackupKept
<1>1. [PublisherNext]_publisherVars =>
          [backup # "none" => backup' \in {backup, "none"}]_publisherVars
  <2> SUFFICES ASSUME PublisherNext, backup # "none"
               PROVE backup' \in {backup, "none"}
    BY DEF publisherVars
  <2> QED
    BY DEF PublisherNext, Launch, Work, Die, files, SeedCheck, SeedLink, BeginCheck,
           BeginKnown, BeginRead, BeginLink, SetCheck, SetCommit, RestoreCheck,
           RestoreRead, RestoreCommit, RestoreUnlink
<1> QED
  BY <1>1, PTL DEF PublisherSpec, BackupKept

\* ensure-seeded links the source it has prepared, so that containers that seed at
\* once never replace what the source has come to hold.
THEOREM SeedingKeepsContent == PublisherSpec => SeedKeepsContent
<1>1. PublisherTypeOK /\ [PublisherNext]_publisherVars =>
          [\A c \in Containers :
              step[c] \in {"seed_check", "seed_link"} /\ step'[c] # step[c] =>
                  database' = database \/ database = "absent"]_publisherVars
  <2> SUFFICES ASSUME PublisherTypeOK, PublisherNext, NEW c \in Containers,
                      step[c] \in {"seed_check", "seed_link"}, step'[c] # step[c]
               PROVE  database' = database \/ database = "absent"
    BY DEF publisherVars
  <2>1. ASSUME NEW d \in Containers, Work(d)
        PROVE  database' = database \/ database = "absent"
    <3>1. d = c
      BY <2>1
         DEF PublisherTypeOK, Work, SeedCheck, SeedLink, BeginCheck, BeginKnown,
             BeginRead, BeginLink, SetCheck, SetCommit, RestoreCheck,
             RestoreRead, RestoreCommit, RestoreUnlink, On, Exit
    <3>2. SeedCheck(c) \/ SeedLink(c)
      BY <2>1, <3>1
         DEF Work, BeginCheck, BeginKnown, BeginRead, BeginLink, SetCheck,
             SetCommit, RestoreCheck, RestoreRead, RestoreCommit,
             RestoreUnlink, On, Exit
    <3> QED
      BY <3>2 DEF SeedCheck, SeedLink, files
  <2> QED
    BY <2>1 DEF PublisherNext, Launch, Die, files
<1> QED
  BY <1>1, PublisherTypes, PTL DEF PublisherSpec, SeedKeepsContent

\* One container at a time, the publisher implements a session on the row that is
\* open as long as there is a backup.
THEOREM PublisherImplementsSession ==
    ASSUME ~Overlap
    PROVE  PublisherSpec => ImplementsSession
<1>1. PublisherInit => Session!Init
  BY DEF PublisherInit, Session!Init
<1>2. Inv /\ [PublisherNext]_publisherVars => [Session!Next]_Session!sessionVars
  <2> SUFFICES ASSUME Inv, PublisherNext
               PROVE Session!Next \/ UNCHANGED <<database, backup>>
    BY DEF publisherVars, Session!sessionVars
  <2>1. ASSUME NEW c \in Containers, Work(c)
        PROVE Session!Next \/ UNCHANGED <<database, backup>>
    <3>1. OriginalRecoverable /\ Sound(c) /\ PublisherTypeOK
      BY DEF Inv, PublisherInv
    <3> QED
      BY <2>1, <3>1
         DEF Work, SeedCheck, SeedLink, BeginCheck, BeginKnown, BeginRead,
             BeginLink, SetCheck, SetCommit, RestoreCheck, RestoreRead,
             RestoreCommit, RestoreUnlink, On, Exit, files, OriginalRecoverable,
             Sound, PublisherTypeOK, ProofSteps, HoldingSteps, Rows, Session!Next,
             Session!Seed, Session!Open, Session!Change, Session!Restore,
             Session!Close
  <2> QED
    BY <2>1 DEF PublisherNext, Launch, Die, files
<1>3. Inv /\ [PublisherNext]_publisherVars => Inv'
  BY InvStep
<1> QED
  BY InitInv, <1>1, <1>2, <1>3, PTL
     DEF PublisherSpec, ImplementsSession, Session!Spec
=============================================================================
