--------------------------- MODULE TransitSocket ---------------------------
(***************************************************************************)
(* The Unix socket of a hosted Transit signer, and the key it is started   *)
(* with.  A signer's container runs scripts/hosted-transit-signer.py,      *)
(* which takes over a stale socket, consumes the key it was given, and     *)
(* becomes scripts/local-transit-proxy.py, which binds the socket and      *)
(* serves.  The containers of several deployments may use one socket path. *)
(*                                                                         *)
(* A socket file is its inode and whether its mode is final; an inode that *)
(* is neither linked nor open may be used again.  Each action is one       *)
(* system call on the path, or one step on the key.                        *)
(***************************************************************************)
EXTENDS Naturals

CONSTANTS
    Signers,           \* signer containers that are given the same path
    Inodes,
    NoInode

ASSUME NoInodeAssumption == NoInode \notin Inodes

VARIABLES
    path,              \* the socket file at the path
    pc,                \* where each container's process is
    known,             \* the socket file a process has looked at
    sock,              \* the inode a process has bound
    inputs,            \* the key inputs in a container
    staged,            \* staged copies of the key: this process's, and orphans
    broken,            \* whether a process of the container was killed, or
                       \* failed and could not clear up what it had staged
    outcome,           \* how a container's last process ended
    overlap            \* whether a container may start or stop while another
                       \* one is starting or stopping, now and for ever

keys == <<inputs, staged>>

vars == <<path, pc, known, sock, inputs, staged, broken, outcome, overlap>>

-----------------------------------------------------------------------------
(* Types *)

File == [ino : Inodes \cup {NoInode}, final : BOOLEAN]

Absent == [ino |-> NoInode, final |-> FALSE]

Exists == path # Absent

TakeoverSteps == {"verify", "exists", "identify", "connect", "exists_again",
                  "identify_again", "unlink"}

HoldingSteps == {"consume_private", "consume_public", "exec", "load"}

BindSteps == {"bind_check", "bind", "listen", "chmod", "stat", "unbind"}

CloseSteps == {"close_look", "close_unlink"}

StartSteps == TakeoverSteps \cup {"stage"} \cup HoldingSteps \cup BindSteps

Steps == {"idle", "serve"} \cup StartSteps \cup CloseSteps

Outcomes == {"none", "refused", "failed", "spoilt", "stopped", "killed"}

\* An inode is bound by one process at most, and only from bind to close.
SocketsApart ==
    /\ \A s \in Signers : sock[s] # NoInode =>
          pc[s] \in {"listen", "chmod", "stat", "unbind", "serve"}
    /\ \A s, t \in Signers : s # t /\ sock[s] # NoInode => sock[s] # sock[t]

\* What the path and the containers can hold.
TypeOK ==
    /\ path \in File
    /\ pc \in [Signers -> Steps]
    /\ known \in [Signers -> File]
    /\ sock \in [Signers -> Inodes \cup {NoInode}]
    /\ inputs \in [Signers -> SUBSET {"private", "public"}]
    /\ staged \in [Signers -> SUBSET {"own", "orphan"}]
    /\ broken \in [Signers -> BOOLEAN]
    /\ outcome \in [Signers -> Outcomes]
    /\ overlap \in BOOLEAN
    /\ SocketsApart

\* A socket of an earlier deployment may have been left at the path.
Init ==
    /\ path \in {Absent} \cup {[ino |-> i, final |-> b] : i \in Inodes, b \in BOOLEAN}
    /\ pc = [s \in Signers |-> "idle"]
    /\ known = [s \in Signers |-> Absent]
    /\ sock = [s \in Signers |-> NoInode]
    /\ inputs = [s \in Signers |-> {}]
    /\ staged = [s \in Signers |-> {}]
    /\ broken = [s \in Signers |-> FALSE]
    /\ outcome = [s \in Signers |-> "none"]
    /\ overlap \in BOOLEAN

-----------------------------------------------------------------------------
(* How a process moves on and ends *)

Listening(i) == \E s \in Signers : sock[s] = i /\ pc[s] \in {"chmod", "stat", "serve"}

Goto(s, from, to) ==
    /\ pc[s] = from
    /\ pc' = [pc EXCEPT ![s] = to]
    /\ UNCHANGED <<broken, outcome>>

\* The exit of a process closes its socket.
End(s, from, how) ==
    /\ pc[s] = from
    /\ pc' = [pc EXCEPT ![s] = "idle"]
    /\ sock' = [sock EXCEPT ![s] = NoInode]
    /\ outcome' = [outcome EXCEPT ![s] = how]
    /\ broken' = [broken EXCEPT ![s] = @ \/ how \in {"killed", "spoilt"}]
    /\ UNCHANGED known

\* A SignerError or ProxyError before the key was staged, or after it was loaded.
Refuse(s, from) ==
    /\ End(s, from, "refused")
    /\ UNCHANGED <<path, keys>>

\* A step that only looks: on to `to` when it finds `condition`.
Require(s, from, condition, to) ==
    \/ /\ condition
       /\ Goto(s, from, to)
       /\ UNCHANGED <<path, known, sock, keys>>
    \/ ~condition /\ Refuse(s, from)

Settled(s) == \A t \in Signers \ {s} : pc[t] \in {"idle", "serve"}

\* A process starts; a copy that an earlier one has staged is an orphan now.
Begin(s) ==
    /\ pc[s] = "idle"
    /\ overlap \/ Settled(s)
    /\ pc' = [pc EXCEPT ![s] = "verify"]
    /\ outcome' = [outcome EXCEPT ![s] = "none"]
    /\ known' = [known EXCEPT ![s] = Absent]
    /\ UNCHANGED <<path, sock>>

\* A container is created anew, with its key inputs.
Create(s) ==
    /\ Begin(s)
    /\ inputs' = [inputs EXCEPT ![s] = {"private", "public"}]
    /\ staged' = [staged EXCEPT ![s] = {}]
    /\ broken' = [broken EXCEPT ![s] = FALSE]

\* The daemon restarts a container with what its last process has left in it.
Restart(s) ==
    /\ Begin(s)
    /\ staged' = [staged EXCEPT ![s] = IF @ = {} THEN {} ELSE {"orphan"}]
    /\ UNCHANGED <<inputs, broken>>

-----------------------------------------------------------------------------
(* hosted-transit-signer.py *)

Verify(s) == Require(s, "verify", inputs[s] = {"private", "public"}, "exists")

PathExists(s) ==
    /\ Goto(s, "exists", IF Exists THEN "identify" ELSE "stage")
    /\ UNCHANGED <<path, known, sock, keys>>

Identify(s) ==
    \/ /\ Exists
       /\ known' = [known EXCEPT ![s] = path]
       /\ Goto(s, "identify", "connect")
       /\ UNCHANGED <<path, sock, keys>>
    \/ ~Exists /\ Refuse(s, "identify")

\* Mutant: whatever the connection does, the socket is taken for stale.
ConnectIgnored(s) ==
    /\ Goto(s, "connect", "exists_again")
    /\ UNCHANGED <<path, known, sock, keys>>

\* A socket that nobody listens on refuses the connection.
Connect(s) == Require(s, "connect", ~Listening(path.ino), "exists_again")

ExistsAgain(s) ==
    /\ Goto(s, "exists_again", IF Exists THEN "identify_again" ELSE "stage")
    /\ UNCHANGED <<path, known, sock, keys>>

IdentifyAgain(s) == Require(s, "identify_again", path = known[s], "unlink")

\* Mutant: the stale socket is left to the proxy's own check.
UnlinkNot(s) ==
    /\ Goto(s, "unlink", "stage")
    /\ UNCHANGED <<path, known, sock, keys>>

Unlink(s) ==
    \/ /\ Exists
       /\ path' = Absent
       /\ Goto(s, "unlink", "stage")
       /\ UNCHANGED <<known, sock, keys>>
    \/ ~Exists /\ Refuse(s, "unlink")

Stage(s) ==
    /\ staged' = [staged EXCEPT ![s] = @ \cup {"own"}]
    /\ Goto(s, "stage", "consume_private")
    /\ UNCHANGED <<path, known, sock, inputs>>

Consume(s, from, input, to) ==
    /\ inputs' = [inputs EXCEPT ![s] = @ \ {input}]
    /\ Goto(s, from, to)
    /\ UNCHANGED <<path, known, sock, staged>>

\* Mutant: the inputs are left where they are.
ConsumePrivateNot(s) == Consume(s, "consume_private", "none", "consume_public")

ConsumePrivate(s) == Consume(s, "consume_private", "private", "consume_public")

ConsumePublic(s) == Consume(s, "consume_public", "public", "exec")

\* Writing the copy fails; what there is of it is not removed.
StageFails(s) ==
    /\ staged' = [staged EXCEPT ![s] = @ \cup {"own"}]
    /\ End(s, "stage", "spoilt")
    /\ UNCHANGED <<path, inputs>>

\* Consuming an input fails, or execve does: the copy is discarded, unless that
\* fails as well.
Discard(s) ==
    \E from \in {"consume_private", "consume_public", "exec"} :
        \/ /\ End(s, from, "failed")
           /\ staged' = [staged EXCEPT ![s] = @ \ {"own"}]
           /\ UNCHANGED <<path, inputs>>
        \/ /\ End(s, from, "spoilt")
           /\ UNCHANGED <<path, keys>>

Exec(s) ==
    /\ Goto(s, "exec", "load")
    /\ UNCHANGED <<path, known, sock, keys>>

-----------------------------------------------------------------------------
(* local-transit-proxy.py *)

\* The key is read, and its staged copy removed, before the socket is looked at;
\* when either fails, the copy stays.
Load(s) ==
    \/ /\ staged' = [staged EXCEPT ![s] = @ \ {"own"}]
       /\ Goto(s, "load", "bind_check")
       /\ UNCHANGED <<path, known, sock, inputs>>
    \/ /\ End(s, "load", "spoilt")
       /\ UNCHANGED <<path, keys>>

BindCheck(s) == Require(s, "bind_check", ~Exists, "bind")

\* Binding or setting up the socket fails.
Unbind(s, from) ==
    /\ Goto(s, from, "unbind")
    /\ UNCHANGED <<path, known, sock, keys>>

\* The handler of such a failure: the path is removed, whosever it is.
UnlinkAnyhow(s) ==
    /\ path' = Absent
    /\ End(s, "unbind", "refused")
    /\ UNCHANGED keys

\* Mutant: a socket can be bound where there is one.
BindOver(s) ==
    /\ \E i \in Inodes : path' = [ino |-> i, final |-> FALSE]
                        /\ sock' = [sock EXCEPT ![s] = i]
    /\ Goto(s, "bind", "listen")
    /\ UNCHANGED <<known, keys>>

Bind(s) ==
    \/ /\ ~Exists
       /\ \E i \in {j \in Inodes : \A t \in Signers : sock[t] # j} :
             /\ path' = [ino |-> i, final |-> FALSE]
             /\ sock' = [sock EXCEPT ![s] = i]
       /\ Goto(s, "bind", "listen")
       /\ UNCHANGED <<known, keys>>
    \/ Exists /\ Unbind(s, "bind")

Listen(s) ==
    /\ Goto(s, "listen", "chmod")
    /\ UNCHANGED <<path, known, sock, keys>>

Chmod(s) ==
    \/ /\ Exists
       /\ path' = [path EXCEPT !.final = TRUE]
       /\ Goto(s, "chmod", "stat")
       /\ UNCHANGED <<known, sock, keys>>
    \/ ~Exists /\ Unbind(s, "chmod")

Stat(s) ==
    \/ /\ Exists /\ path.final
       /\ known' = [known EXCEPT ![s] = path]
       /\ Goto(s, "stat", "serve")
       /\ UNCHANGED <<path, sock, keys>>
    \/ ~(Exists /\ path.final) /\ Unbind(s, "stat")

\* SIGTERM: the socket is closed, and its path removed if it is still the one.
Stop(s) ==
    /\ overlap \/ Settled(s)
    /\ Goto(s, "serve", "close_look")
    /\ sock' = [sock EXCEPT ![s] = NoInode]
    /\ UNCHANGED <<path, known, keys>>

CloseLook(s) ==
    /\ \/ Exists /\ path.ino = known[s].ino /\ Goto(s, "close_look", "close_unlink")
          /\ UNCHANGED <<known, sock>>
       \/ ~(Exists /\ path.ino = known[s].ino) /\ End(s, "close_look", "stopped")
    /\ UNCHANGED <<path, keys>>

CloseUnlink(s) ==
    /\ path' = Absent
    /\ End(s, "close_unlink", "stopped")
    /\ UNCHANGED keys

-----------------------------------------------------------------------------
\* The process is killed: the kernel closes its socket, every file stays.
Kill(s) ==
    /\ pc[s] # "idle"
    /\ End(s, pc[s], "killed")
    /\ UNCHANGED <<path, keys>>

Takeover(s) ==
    \/ Verify(s) \/ PathExists(s) \/ Identify(s) \/ Connect(s)
    \/ ExistsAgain(s) \/ IdentifyAgain(s) \/ Unlink(s)

Confine(s) ==
    Stage(s) \/ StageFails(s) \/ ConsumePrivate(s) \/ ConsumePublic(s)
    \/ Discard(s) \/ Exec(s)

Proxy(s) ==
    \/ Load(s) \/ BindCheck(s) \/ Bind(s) \/ Listen(s) \/ Chmod(s) \/ Stat(s)
    \/ UnlinkAnyhow(s)
    \/ Stop(s) \/ CloseLook(s) \/ CloseUnlink(s)

Next ==
    /\ \E s \in Signers :
          \/ Create(s) \/ Restart(s) \/ Kill(s)
          \/ Takeover(s) \/ Confine(s) \/ Proxy(s)
    /\ UNCHANGED overlap

Spec == Init /\ [][Next]_vars

-----------------------------------------------------------------------------
(* Properties *)

\* As long as containers start and stop one at a time, a signer that serves can
\* be reached: the path is its socket's, and stays so while others are started
\* beside it, refused, or killed.
ServingReachable ==
    ~overlap => \A s \in Signers : pc[s] = "serve" =>
        path = [ino |-> sock[s], final |-> TRUE]

\* Whatever an earlier signer has left at the path, a signer that was given its
\* key is refused only while another one serves.
FreshSignerStarts ==
    [][~overlap => \A s \in Signers :
          (pc[s] \notin {"idle", "verify"} /\ outcome[s] # outcome'[s]
              /\ outcome'[s] = "refused") =>
              \E t \in Signers \ {s} : pc[t] = "serve"]_vars

\* A key that is in use is in the memory of its proxy only: the inputs are gone,
\* and a copy is left staged only by a process that was killed, or that could not
\* clear up after a failure.
KeyConfined ==
    \A s \in Signers :
        /\ pc[s] \in {"load", "serve"} \cup BindSteps \cup CloseSteps =>
              inputs[s] = {}
        /\ staged[s] # {} /\ pc[s] \notin HoldingSteps => broken[s]

\* "a signer refuses to start on a socket that accepts a connection rather than
\* removing another process's listener": no step of one process takes away a path
\* on which another one is listening.
ListenerKept ==
    [][\A s \in Signers :
          (pc'[s] = pc[s] /\ pc[s] \in {"chmod", "stat", "serve"}
              /\ path.ino = sock[s]) => path'.ino = sock[s]]_vars
=============================================================================
