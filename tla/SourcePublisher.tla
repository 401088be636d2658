-------------------------- MODULE SourcePublisher --------------------------
(***************************************************************************)
(* The publisher of the MoSD Relay's SQLite source (scripts/local-relay-   *)
(* source-publisher.py): it seeds the source once, and lets a lifecycle    *)
(* proof change one control row of it and put it back, by way of a backup  *)
(* file beside the database.  Each verb runs in a container of its own,    *)
(* which may die at any step; SQLite rolls back a transaction that did not *)
(* commit.                                                                 *)
(*                                                                         *)
(* Of the database only the control row is kept: the seed's, or changed.   *)
(***************************************************************************)
EXTENDS Naturals

CONSTANTS
    Containers,        \* publisher containers
    Overlap            \* whether one may be started while another runs

ASSUME OverlapAssumption == Overlap \in BOOLEAN

VARIABLES
    database,          \* the control row, "absent" before the source is seeded
    backup,            \* the row kept in the backup file, or "none"
    step,              \* where each container is in its verb
    held,              \* the row it holds in memory
    result             \* how its last verb ended, until another is started

files == <<database, backup>>

publisherVars == <<database, backup, step, held, result>>

-----------------------------------------------------------------------------
Rows == {"original", "changed"}

Verbs == {"ensure-seeded", "begin-proof", "set-proof-state", "restore-proof"}

FirstStep == [v \in Verbs |->
    CASE v = "ensure-seeded"   -> "seed_check"
      [] v = "begin-proof"     -> "begin_check"
      [] v = "set-proof-state" -> "set_check"
      [] v = "restore-proof"   -> "restore_check"]

Steps == {"seed_check", "seed_link",
          "begin_check", "begin_known", "begin_read", "begin_link",
          "set_check", "set_commit",
          "restore_check", "restore_read", "restore_commit", "restore_unlink"}

\* The steps of a proof verb once it has found the source seeded, and those at
\* which it holds a row.
HoldingSteps == {"begin_link", "set_commit", "restore_commit", "restore_unlink"}

ProofSteps == {"begin_known", "begin_read", "restore_read"} \cup HoldingSteps

\* What the files, and a container between two steps, can hold: nothing takes the
\* source away again, so that a container that found it seeded has a row to write.
PublisherTypeOK ==
    /\ database \in Rows \cup {"absent"}
    /\ backup \in Rows \cup {"none"}
    /\ step \in [Containers -> Steps \cup {"idle"}]
    /\ held \in [Containers -> Rows \cup {"none"}]
    /\ result \in [Containers -> {"none", "ok", "failed"}]
    /\ \A c \in Containers : step[c] \in ProofSteps => database # "absent"
    /\ \A c \in Containers : step[c] \in HoldingSteps => held[c] \in Rows

PublisherInit ==
    /\ database = "absent"
    /\ backup = "none"
    /\ step = [c \in Containers |-> "idle"]
    /\ held = [c \in Containers |-> "none"]
    /\ result = [c \in Containers |-> "none"]

-----------------------------------------------------------------------------
(* A container starts, moves on and ends *)

\* A container is removed when it has ended: how an earlier one ended can no
\* longer be told.
Launch(c, verb) ==
    /\ step[c] = "idle"
    /\ ~Overlap => \A d \in Containers : step[d] = "idle"
    /\ step' = [step EXCEPT ![c] = FirstStep[verb]]
    /\ held' = [held EXCEPT ![c] = "none"]
    /\ result' = [d \in Containers |-> "none"]
    /\ UNCHANGED files

\* On to another step, holding `row`.
On(c, from, to, row) ==
    /\ step[c] = from
    /\ step' = [step EXCEPT ![c] = to]
    /\ held' = [held EXCEPT ![c] = row]
    /\ UNCHANGED result

Exit(c, from, how) ==
    /\ step[c] = from
    /\ step' = [step EXCEPT ![c] = "idle"]
    /\ result' = [result EXCEPT ![c] = how]
    /\ UNCHANGED held

\* The container is killed, or its verb fails: it leaves what it has written.
Die(c) ==
    /\ step[c] # "idle"
    /\ Exit(c, step[c], "failed")
    /\ UNCHANGED files

-----------------------------------------------------------------------------
(* ensure-seeded *)

SeedCheck(c) ==
    /\ \/ database # "absent" /\ Exit(c, "seed_check", "ok")
       \/ database = "absent" /\ On(c, "seed_check", "seed_link", "none")
    /\ UNCHANGED files

\* Mutant: the seeded copy is moved over whatever is there by now.
SeedReplace(c) ==
    /\ database' = "original"
    /\ Exit(c, "seed_link", "ok")
    /\ UNCHANGED backup

\* A link does not replace what another container has linked meanwhile.
SeedLink(c) ==
    /\ database' = IF database = "absent" THEN "original" ELSE database
    /\ Exit(c, "seed_link", "ok")
    /\ UNCHANGED backup

-----------------------------------------------------------------------------
(* begin-proof *)

BeginCheck(c) ==
    /\ \/ database = "absent" /\ Exit(c, "begin_check", "failed")
       \/ /\ database # "absent"
          /\ backup # "none"
          /\ On(c, "begin_check", "begin_known", "none")
       \/ /\ database # "absent"
          /\ backup = "none"
          /\ On(c, "begin_check", "begin_read", "none")
    /\ UNCHANGED files

\* A backup that is already there is read back and kept.
BeginKnown(c) ==
    /\ Exit(c, "begin_known", IF backup = "none" THEN "failed" ELSE "ok")
    /\ UNCHANGED files

BeginRead(c) ==
    /\ On(c, "begin_read", "begin_link", database)
    /\ UNCHANGED files

\* Mutant: the backup is moved into place over an earlier one.
BeginReplace(c) ==
    /\ backup' = held[c]
    /\ Exit(c, "begin_link", "ok")
    /\ UNCHANGED database

BeginLink(c) ==
    \/ /\ backup = "none"
       /\ backup' = held[c]
       /\ Exit(c, "begin_link", "ok")
       /\ UNCHANGED database
    \/ /\ backup # "none"
       /\ On(c, "begin_link", "begin_known", held[c])
       /\ UNCHANGED files

-----------------------------------------------------------------------------
(* set-proof-state *)

SetCheck(c) ==
    /\ LET ready == database # "absent" /\ backup # "none"
       IN  \/ ready /\ On(c, "set_check", "set_commit", backup)
           \/ ~ready /\ Exit(c, "set_check", "failed")
    /\ UNCHANGED files

\* One transaction: a row that is changed already stays as it is.
SetCommit(c) ==
    /\ database' = "changed"
    /\ Exit(c, "set_commit", "ok")
    /\ UNCHANGED backup

-----------------------------------------------------------------------------
(* restore-proof *)

RestoreCheck(c) ==
    /\ \/ database = "absent" /\ Exit(c, "restore_check", "failed")
       \/ /\ database # "absent"
          /\ backup = "none"
          /\ Exit(c, "restore_check", "ok")
       \/ /\ database # "absent"
          /\ backup # "none"
          /\ On(c, "restore_check", "restore_read", "none")
    /\ UNCHANGED files

\* Mutant: the backup found a moment ago is taken to be there still.
RestoreReadBlindly(c) ==
    /\ On(c, "restore_read", "restore_commit", backup)
    /\ UNCHANGED files

RestoreRead(c) ==
    /\ \/ backup # "none" /\ On(c, "restore_read", "restore_commit", backup)
       \/ backup = "none" /\ Exit(c, "restore_read", "failed")
    /\ UNCHANGED files

\* Mutant: the backup is dropped before its row is back.
RestoreUnlinksFirst(c) ==
    /\ backup' = "none"
    /\ On(c, "restore_commit", "restore_unlink", held[c])
    /\ UNCHANGED database

RestoreCommit(c) ==
    /\ database' = held[c]
    /\ On(c, "restore_commit", "restore_unlink", held[c])
    /\ UNCHANGED backup

RestoreUnlink(c) ==
    /\ Exit(c, "restore_unlink", IF backup = "none" THEN "failed" ELSE "ok")
    /\ backup' = "none"
    /\ UNCHANGED database

-----------------------------------------------------------------------------
Work(c) ==
    \/ SeedCheck(c) \/ SeedLink(c)
    \/ BeginCheck(c) \/ BeginKnown(c) \/ BeginRead(c) \/ BeginLink(c)
    \/ SetCheck(c) \/ SetCommit(c)
    \/ RestoreCheck(c) \/ RestoreRead(c) \/ RestoreCommit(c) \/ RestoreUnlink(c)

PublisherNext ==
    \E c \in Containers :
        (\E verb \in Verbs : Launch(c, verb)) \/ Work(c) \/ Die(c)

PublisherSpec == PublisherInit /\ [][PublisherNext]_publisherVars

-----------------------------------------------------------------------------
(* Properties *)

\* A container that is going to write the row, or the backup, holds the
\* original one, and the backup it relies on is there.
Sound(c) ==
    /\ step[c] \in {"begin_read", "begin_link"} => backup = "none"
    /\ step[c] = "begin_link" => held[c] = "original"
    /\ step[c] \in {"set_commit", "restore_read", "restore_commit",
           "restore_unlink"} => backup # "none"
    /\ step[c] \in {"restore_commit", "restore_unlink"} => held[c] = "original"
    /\ step[c] = "restore_unlink" => database = "original"

\* The row a proof has found is never lost: it is in the database, or in the
\* backup that the next restore, or the next proof, puts back; whatever verb
\* died at whatever step.
OriginalRecoverable ==
    /\ backup # "none" => backup = "original"
    /\ backup = "none" => database # "changed"

\* As long as one container runs at a time.
PublisherInv ==
    ~Overlap =>
        /\ OriginalRecoverable
        /\ backup # "none" => database # "absent"
        /\ \A c \in Containers : Sound(c)
        /\ \A c, d \in Containers : step[c] # "idle" /\ step[d] # "idle" => c = d

\* Seeding again, also by several containers at once, never discards what the
\* source has come to hold.
SeedKeepsContent ==
    [][\A c \in Containers :
          step[c] \in {"seed_check", "seed_link"} /\ step'[c] # step[c] =>
              database' = database \/ database = "absent"]_publisherVars

\* A backup is never recaptured: it keeps its row until a restore removes it,
\* also when several proofs begin at once.
BackupKept == [][backup # "none" => backup' \in {backup, "none"}]_publisherVars

Session == INSTANCE RowSession WITH row <- database, open <- backup # "none"

\* The backup is what keeps a session on the row open.
ImplementsSession == Session!Spec
=============================================================================
