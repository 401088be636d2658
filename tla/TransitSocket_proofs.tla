----------------------- MODULE TransitSocket_proofs -----------------------
(***************************************************************************)
(* Proofs about TransitSocket, for any number of signers and inodes.       *)
(***************************************************************************)
EXTENDS TransitSocket, TLAPS

-----------------------------------------------------------------------------
(* Types *)

\* The variables beside those that Goto and End change.
Rest ==
    /\ path \in File
    /\ known \in [Signers -> File]
    /\ inputs \in [Signers -> SUBSET {"private", "public"}]
    /\ staged \in [Signers -> SUBSET {"own", "orphan"}]

LEMMA InitTypeOK == Init => TypeOK
<1> SUFFICES ASSUME Init PROVE TypeOK
  OBVIOUS
<1>1. Absent \in File
  BY DEF Absent, File
<1>2. path \in File
  <2>1. CASE path = Absent
    BY <1>1, <2>1
  <2>2. ASSUME NEW i \in Inodes, NEW b \in BOOLEAN, path = [ino |-> i, final |-> b]
        PROVE  path \in File
    BY <2>2 DEF File
  <2>3. QED
    BY <2>1, <2>2 DEF Init
<1>3. "idle" \in Steps /\ "none" \in Outcomes
  BY DEF Steps, Outcomes
<1>4. SocketsApart
  BY DEF Init, SocketsApart
<1>5. QED
  BY <1>1, <1>2, <1>3, <1>4 DEF Init, TypeOK

\* A process that ends holds no socket.
LEMMA EndTypeOK ==
    ASSUME TypeOK, NEW s \in Signers, NEW from, NEW how \in Outcomes,
           End(s, from, how),
           UNCHANGED overlap, path' \in File,
           inputs' \in [Signers -> SUBSET {"private", "public"}],
           staged' \in [Signers -> SUBSET {"own", "orphan"}]
    PROVE  TypeOK'
<1>1. pc' \in [Signers -> Steps]
  BY DEF TypeOK, End, Steps
<1>2. sock' \in [Signers -> Inodes \cup {NoInode}]
  BY DEF TypeOK, End
<1>3. broken' \in [Signers -> BOOLEAN]
  BY DEF TypeOK, End
<1>4. outcome' \in [Signers -> Outcomes]
  BY DEF TypeOK, End
<1>5. SocketsApart'
  BY DEF TypeOK, End, SocketsApart
<1>6. known' \in [Signers -> File]
  BY DEF TypeOK, End
<1>7. QED
  BY <1>1, <1>2, <1>3, <1>4, <1>5, <1>6 DEF TypeOK

\* A step that leaves the sockets alone takes no process that holds one to where
\* none is held.
LEMMA GotoTypeOK ==
    ASSUME TypeOK, NEW s \in Signers, NEW from, NEW to \in Steps,
           Goto(s, from, to), UNCHANGED <<sock, overlap>>, Rest',
           from \in {"listen", "chmod", "stat"} =>
               to \in {"chmod", "stat", "unbind", "serve"},
           from \notin {"serve", "unbind"}
    PROVE  TypeOK'
<1>1. pc' \in [Signers -> Steps]
  BY DEF TypeOK, Goto
<1>2. SocketsApart'
  BY DEF TypeOK, Goto, SocketsApart
<1>3. QED
  BY <1>1, <1>2 DEF TypeOK, Goto, Rest

LEMMA RefuseTypeOK ==
    ASSUME TypeOK, NEW s \in Signers, NEW from, Refuse(s, from),
           UNCHANGED overlap
    PROVE  TypeOK'
<1>1. "refused" \in Outcomes
  BY DEF Outcomes
<1>2. QED
  BY <1>1, EndTypeOK DEF Refuse, TypeOK, keys

LEMMA RequireTypeOK ==
    ASSUME TypeOK, NEW s \in Signers, NEW from, NEW condition \in BOOLEAN,
           NEW to \in Steps,
           Require(s, from, condition, to), UNCHANGED overlap,
           from \notin {"listen", "chmod", "stat", "serve", "unbind"}
    PROVE  TypeOK'
<1>1. CASE Refuse(s, from)
  BY <1>1, RefuseTypeOK
<1>2. CASE /\ Goto(s, from, to)
           /\ UNCHANGED <<path, known, sock, keys>>
  BY <1>2, GotoTypeOK DEF Rest, TypeOK, keys
<1>3. QED
  BY <1>1, <1>2 DEF Require

\* Each step of a signer keeps the types; a socket that is bound gets an inode
\* that nobody has bound.
LEMMA NextTypeOK == TypeOK /\ [Next]_vars => TypeOK'
<1> SUFFICES ASSUME TypeOK, [Next]_vars PROVE TypeOK'
  OBVIOUS
<1>o. UNCHANGED overlap
  BY DEF Next, vars
<1> USE <1>o
<1>s. Steps = {"idle", "serve", "stage"} \cup TakeoverSteps \cup HoldingSteps
                \cup BindSteps \cup CloseSteps
  BY DEF Steps, StartSteps
<1>a. Absent \in File
  BY DEF Absent, File
<1>1. CASE UNCHANGED vars
  BY <1>1 DEF vars, TypeOK, SocketsApart
<1>2. ASSUME NEW s \in Signers, Create(s) \/ Restart(s) \/ Kill(s)
      PROVE  TypeOK'
  <2>1. CASE Create(s) \/ Restart(s)
    <3>1. pc' \in [Signers -> Steps] /\ outcome' \in [Signers -> Outcomes]
      BY <2>1, <1>s DEF Create, Restart, Begin, TypeOK, Outcomes, TakeoverSteps
    <3>2. known' \in [Signers -> File]
      <4>1. known' = [known EXCEPT ![s] = Absent]
        BY <2>1 DEF Create, Restart, Begin
      <4>2. QED
        BY <4>1, <1>a DEF TypeOK
    <3>3. /\ inputs' \in [Signers -> SUBSET {"private", "public"}]
          /\ broken' \in [Signers -> BOOLEAN]
      <4>1. /\ inputs \in [Signers -> SUBSET {"private", "public"}]
            /\ broken \in [Signers -> BOOLEAN]
        BY DEF TypeOK
      <4>2. CASE Create(s)
        BY <4>1, <4>2 DEF Create
      <4>3. CASE Restart(s)
        BY <4>1, <4>3 DEF Restart
      <4>4. QED
        BY <2>1, <4>2, <4>3
    <3>4. staged' \in [Signers -> SUBSET {"own", "orphan"}]
      <4>1. staged \in [Signers -> SUBSET {"own", "orphan"}]
        BY DEF TypeOK
      <4>2. \E x \in {{}, {"orphan"}} : staged' = [staged EXCEPT ![s] = x]
        BY <2>1, <4>1 DEF Create, Restart
      <4>3. QED
        BY <4>1, <4>2
    <3>5. SocketsApart'
      BY <2>1 DEF Create, Restart, Begin, TypeOK, SocketsApart
    <3>6. QED
      BY <2>1, <3>1, <3>2, <3>3, <3>4, <3>5 DEF Create, Restart, Begin, TypeOK
  <2>2. CASE Kill(s)
    BY <2>2, EndTypeOK DEF Kill, TypeOK, keys, Outcomes
  <2>3. QED
    BY <1>2, <2>1, <2>2
<1>3. ASSUME NEW s \in Signers, Takeover(s)
      PROVE  TypeOK'
  <2> USE <1>s DEF TakeoverSteps
  <2>1. CASE Verify(s)
    BY <2>1, RequireTypeOK DEF Verify
  <2>2. CASE PathExists(s)
    BY <2>2, GotoTypeOK DEF PathExists, Rest, TypeOK, keys
  <2>3. CASE Identify(s)
    <3>1. CASE Refuse(s, "identify")
      BY <3>1, RefuseTypeOK
    <3>2. CASE ~Refuse(s, "identify")
      BY <2>3, <3>2, GotoTypeOK DEF Identify, Rest, TypeOK, keys
    <3>3. QED
      BY <3>1, <3>2
  <2>4. CASE Connect(s)
    BY <2>4, RequireTypeOK DEF Connect
  <2>5. CASE ExistsAgain(s)
    BY <2>5, GotoTypeOK DEF ExistsAgain, Rest, TypeOK, keys
  <2>6. CASE IdentifyAgain(s)
    BY <2>6, RequireTypeOK DEF IdentifyAgain
  <2>7. CASE Unlink(s)
    <3>1. CASE Refuse(s, "unlink")
      BY <3>1, RefuseTypeOK
    <3>2. CASE ~Refuse(s, "unlink")
      BY <2>7, <3>2, <1>a, GotoTypeOK DEF Unlink, Rest, TypeOK, keys
    <3>3. QED
      BY <3>1, <3>2
  <2>8. QED
    BY <1>3, <2>1, <2>2, <2>3, <2>4, <2>5, <2>6, <2>7 DEF Takeover
<1>4. ASSUME NEW s \in Signers, Confine(s)
      PROVE  TypeOK'
  <2> USE <1>s DEF HoldingSteps
  <2>1. CASE Stage(s)
    BY <2>1, GotoTypeOK DEF Stage, Rest, TypeOK
  <2>2. CASE StageFails(s)
    BY <2>2, EndTypeOK DEF StageFails, TypeOK, Outcomes
  <2>3. CASE ConsumePrivate(s)
    BY <2>3, GotoTypeOK DEF ConsumePrivate, Consume, Rest, TypeOK
  <2>4. CASE ConsumePublic(s)
    BY <2>4, GotoTypeOK DEF ConsumePublic, Consume, Rest, TypeOK
  <2>5. CASE Discard(s)
    BY <2>5, EndTypeOK DEF Discard, TypeOK, keys, Outcomes
  <2>6. CASE Exec(s)
    BY <2>6, GotoTypeOK DEF Exec, Rest, TypeOK, keys
  <2>7. QED
    BY <1>4, <2>1, <2>2, <2>3, <2>4, <2>5, <2>6 DEF Confine
<1>5. ASSUME NEW s \in Signers, Proxy(s)
      PROVE  TypeOK'
  <2> USE <1>s DEF BindSteps, CloseSteps
  <2>u. ASSUME NEW from \in {"bind", "chmod", "stat"}, Unbind(s, from)
        PROVE  TypeOK'
    BY <2>u, GotoTypeOK DEF Unbind, Rest, TypeOK, keys
  <2>1. CASE Load(s)
    <3>1. CASE End(s, "load", "spoilt") /\ UNCHANGED <<path, keys>>
      BY <3>1, EndTypeOK DEF TypeOK, keys, Outcomes
    <3>2. CASE ~(End(s, "load", "spoilt") /\ UNCHANGED <<path, keys>>)
      BY <2>1, <3>2, GotoTypeOK DEF Load, Rest, TypeOK
    <3>3. QED
      BY <3>1, <3>2
  <2>2. CASE BindCheck(s)
    BY <2>2, RequireTypeOK DEF BindCheck, Exists
  <2>3. CASE Bind(s)
    <3>1. CASE Unbind(s, "bind")
      BY <3>1, <2>u
    <3>2. ASSUME NEW i \in Inodes, \A t \in Signers : sock[t] # i,
                 path' = [ino |-> i, final |-> FALSE],
                 sock' = [sock EXCEPT ![s] = i],
                 Goto(s, "bind", "listen"), UNCHANGED <<known, keys>>
          PROVE  TypeOK'
      <4>1. path' \in File
        BY <3>2 DEF File
      <4>2. /\ pc' \in [Signers -> Steps]
            /\ sock' \in [Signers -> Inodes \cup {NoInode}]
        BY <3>2 DEF Goto, TypeOK
      <4>3. SocketsApart'
        BY <3>2 DEF Goto, TypeOK, SocketsApart
      <4>4. QED
        BY <3>2, <4>1, <4>2, <4>3 DEF Goto, TypeOK, keys
    <3>3. QED
      BY <2>3, <3>1, <3>2 DEF Bind
  <2>4. CASE Listen(s)
    BY <2>4, GotoTypeOK DEF Listen, Rest, TypeOK, keys
  <2>5. CASE Chmod(s)
    <3>1. CASE Unbind(s, "chmod")
      BY <3>1, <2>u
    <3>2. CASE ~Unbind(s, "chmod")
      <4>1. path' \in File
        BY <2>5, <3>2 DEF Chmod, TypeOK, File
      <4>2. QED
        BY <2>5, <3>2, <4>1, GotoTypeOK DEF Chmod, Rest, TypeOK, keys
    <3>3. QED
      BY <3>1, <3>2
  <2>6. CASE Stat(s)
    <3>1. CASE Unbind(s, "stat")
      BY <3>1, <2>u
    <3>2. CASE ~Unbind(s, "stat")
      BY <2>6, <3>2, GotoTypeOK DEF Stat, Rest, TypeOK, keys
    <3>3. QED
      BY <3>1, <3>2
  <2>7. CASE UnlinkAnyhow(s)
    BY <2>7, <1>a, EndTypeOK DEF UnlinkAnyhow, TypeOK, keys, Outcomes
  <2>8. CASE Stop(s)
    <3>1. /\ pc' \in [Signers -> Steps]
          /\ sock' \in [Signers -> Inodes \cup {NoInode}]
      BY <2>8 DEF Stop, Goto, TypeOK
    <3>2. SocketsApart'
      BY <2>8 DEF Stop, Goto, TypeOK, SocketsApart
    <3>3. QED
      BY <2>8, <3>1, <3>2 DEF Stop, Goto, TypeOK, keys
  <2>9. CASE CloseLook(s)
    <3>1. CASE End(s, "close_look", "stopped") /\ UNCHANGED <<path, keys>>
      BY <3>1, EndTypeOK DEF TypeOK, keys, Outcomes
    <3>2. CASE ~(End(s, "close_look", "stopped") /\ UNCHANGED <<path, keys>>)
      BY <2>9, <3>2, GotoTypeOK DEF CloseLook, Rest, TypeOK, keys
    <3>3. QED
      BY <3>1, <3>2
  <2>10. CASE CloseUnlink(s)
    BY <2>10, <1>a, EndTypeOK DEF CloseUnlink, TypeOK, keys, Outcomes
  <2>11. QED
    BY <1>5, <2>1, <2>2, <2>3, <2>4, <2>5, <2>6, <2>7, <2>8, <2>9, <2>10 DEF Proxy
<1>6. QED
  BY <1>1, <1>2, <1>3, <1>4, <1>5 DEF Next

\* The path and the containers keep to their types, and no two processes ever hold
\* the same inode, however they overlap.
THEOREM TypesKept == Spec => []TypeOK
BY InitTypeOK, NextTypeOK, PTL DEF Spec

-----------------------------------------------------------------------------
(* The key *)

\* Past the consumption of an input it is gone, and a staged copy is that of a
\* process at work, or the container was broken.
KeyInv ==
    \A s \in Signers :
        /\ pc[s] \in {"consume_public", "exec", "load", "serve"}
                      \cup BindSteps \cup CloseSteps =>
              "private" \notin inputs[s]
        /\ pc[s] \in {"exec", "load", "serve"} \cup BindSteps \cup CloseSteps =>
              "public" \notin inputs[s]
        /\ "own" \in staged[s] => pc[s] \in HoldingSteps \/ broken[s]
        /\ "orphan" \in staged[s] => broken[s]

LEMMA NextKeyInv == TypeOK /\ KeyInv /\ [Next]_vars => KeyInv'
<1> SUFFICES ASSUME TypeOK, KeyInv, [Next]_vars PROVE KeyInv'
  OBVIOUS
<1>1. CASE UNCHANGED vars
  BY <1>1 DEF vars, KeyInv
<1>2. ASSUME NEW s \in Signers,
             \/ Create(s) \/ Restart(s) \/ Kill(s)
             \/ Takeover(s) \/ Confine(s) \/ Proxy(s)
      PROVE  KeyInv'
  <2> USE DEF TypeOK, KeyInv, keys, HoldingSteps, BindSteps, CloseSteps
  <2>1. CASE Create(s)
    BY <2>1 DEF Create, Begin
  <2>2. CASE Restart(s)
    BY <2>2 DEF Restart, Begin
  <2>3. CASE Kill(s)
    BY <2>3 DEF Kill, End
  <2>4. CASE Verify(s)
    BY <2>4 DEF Verify, Require, Refuse, Goto, End
  <2>5. CASE PathExists(s)
    BY <2>5 DEF PathExists, Goto
  <2>6. CASE Identify(s)
    BY <2>6 DEF Identify, Goto, Refuse, End
  <2>7. CASE Connect(s)
    BY <2>7 DEF Connect, Require, Refuse, Goto, End
  <2>8. CASE ExistsAgain(s)
    BY <2>8 DEF ExistsAgain, Goto
  <2>9. CASE IdentifyAgain(s)
    BY <2>9 DEF IdentifyAgain, Require, Refuse, Goto, End
  <2>10. CASE Unlink(s)
    BY <2>10 DEF Unlink, Goto, Refuse, End
  <2>11. CASE Stage(s)
    BY <2>11 DEF Stage, Goto
  <2>12. CASE StageFails(s)
    BY <2>12 DEF StageFails, End
  <2>13. CASE ConsumePrivate(s)
    BY <2>13 DEF ConsumePrivate, Consume, Goto
  <2>14. CASE ConsumePublic(s)
    BY <2>14 DEF ConsumePublic, Consume, Goto
  <2>15. CASE Discard(s)
    <3>1. PICK from \in {"consume_private", "consume_public", "exec"} :
             \/ End(s, from, "failed") /\ staged' = [staged EXCEPT ![s] = @ \ {"own"}]
             \/ End(s, from, "spoilt") /\ staged' = staged
      BY <2>15 DEF Discard
    <3>i. UNCHANGED inputs
      BY <2>15 DEF Discard
    <3>2. CASE End(s, from, "failed") /\ staged' = [staged EXCEPT ![s] = @ \ {"own"}]
      BY <3>i, <3>2 DEF End
    <3>3. CASE End(s, from, "spoilt") /\ staged' = staged
      BY <3>i, <3>3 DEF End
    <3>4. QED
      BY <3>1, <3>2, <3>3
  <2>16. CASE Exec(s)
    BY <2>16 DEF Exec, Goto
  <2>17. CASE Load(s)
    <3>1. CASE End(s, "load", "spoilt") /\ UNCHANGED <<path, keys>>
      BY <3>1 DEF End
    <3>2. CASE Goto(s, "load", "bind_check")
      BY <2>17, <3>2 DEF Load, Goto, End
    <3>3. QED
      BY <2>17, <3>1, <3>2 DEF Load
  <2>18. CASE BindCheck(s)
    BY <2>18 DEF BindCheck, Require, Refuse, Goto, End
  <2>19. CASE Bind(s)
    BY <2>19 DEF Bind, Goto, Unbind
  <2>20. CASE Listen(s)
    BY <2>20 DEF Listen, Goto
  <2>21. CASE Chmod(s)
    BY <2>21 DEF Chmod, Goto, Unbind
  <2>22. CASE Stat(s)
    BY <2>22 DEF Stat, Goto, Unbind
  <2>23. CASE UnlinkAnyhow(s)
    BY <2>23 DEF UnlinkAnyhow, End
  <2>24. CASE Stop(s)
    BY <2>24 DEF Stop, Goto
  <2>25. CASE CloseLook(s)
    BY <2>25 DEF CloseLook, Goto, End
  <2>26. CASE CloseUnlink(s)
    BY <2>26 DEF CloseUnlink, End
  <2>27. QED
    BY <1>2, <2>1, <2>2, <2>3, <2>4, <2>5, <2>6, <2>7, <2>8, <2>9, <2>10,
       <2>11, <2>12, <2>13, <2>14, <2>15, <2>16, <2>17, <2>18, <2>19, <2>20,
       <2>21, <2>22, <2>23, <2>24, <2>25, <2>26
    DEF Takeover, Confine, Proxy
<1>3. QED
  BY <1>1, <1>2 DEF Next

\* A key in use is in its proxy's memory only, for any number of signers, started,
\* failed and killed in any order.
THEOREM KeysAreConfined == Spec => []KeyConfined
<1>1. Init => KeyInv
  <2> SUFFICES ASSUME Init, NEW s \in Signers
               PROVE  pc[s] = "idle" /\ staged[s] = {}
    BY DEF KeyInv, BindSteps, CloseSteps
  <2>1. QED
    BY DEF Init
<1>2. TypeOK /\ KeyInv => KeyConfined
  <2> SUFFICES ASSUME TypeOK, KeyInv, NEW s \in Signers
               PROVE  /\ pc[s] \in {"load", "serve"} \cup BindSteps \cup CloseSteps
                            => inputs[s] = {}
                      /\ staged[s] # {} /\ pc[s] \notin HoldingSteps => broken[s]
    BY DEF KeyConfined
  <2>1. inputs[s] \subseteq {"private", "public"} /\ staged[s] \subseteq {"own", "orphan"}
    BY DEF TypeOK
  <2>2. QED
    BY <2>1 DEF KeyInv
<1>3. QED
  BY <1>1, <1>2, TypesKept, NextKeyInv, PTL DEF Spec

-----------------------------------------------------------------------------
(* One at a time *)

Resting == {"idle", "serve"}

\* Without overlap one process at most is starting or stopping; what it has seen at
\* the path is still so, no other one serves once it has found the path free or
\* stale, and a process that serves has its own socket at the path.
At(s) ==
    /\ pc[s] \in {"identify", "connect", "exists_again", "identify_again",
                  "unlink"} => Exists
    /\ pc[s] \in {"connect", "exists_again", "identify_again", "unlink"} =>
          known[s] = path
    /\ pc[s] \in {"stage", "bind_check", "bind"} \cup HoldingSteps => ~Exists
    /\ pc[s] \in {"listen", "chmod", "stat", "serve"} =>
          sock[s] # NoInode /\ path.ino = sock[s]
    /\ pc[s] \in {"stat", "serve"} => path.final
    /\ pc[s] # "unbind"
    /\ pc[s] \in (StartSteps \cup CloseSteps)
                   \ {"verify", "exists", "identify", "connect"} =>
          \A t \in Signers \ {s} : pc[t] # "serve"

Alone ==
    /\ \A s, t \in Signers : s # t => pc[s] \in Resting \/ pc[t] \in Resting
    /\ \A s \in Signers : At(s)

\* A step that leaves the others and the path they serve at alone.
LEMMA MoveAlone ==
    ASSUME Alone, NEW s \in Signers,
           \A t \in Signers \ {s} : /\ pc[t] \in Resting /\ pc'[t] = pc[t]
                                    /\ known'[t] = known[t] /\ sock'[t] = sock[t],
           path' = path \/ \A t \in Signers \ {s} : pc[t] # "serve",
           At(s)'
    PROVE  Alone'
<1>1. ASSUME NEW t \in Signers \ {s} PROVE At(t)'
  BY <1>1 DEF Alone, At, Resting, Exists, StartSteps, TakeoverSteps, HoldingSteps,
              BindSteps, CloseSteps
<1>2. QED
  BY <1>1 DEF Alone

LEMMA EndAlone ==
    ASSUME TypeOK, Alone, NEW s \in Signers, NEW from, from \notin Resting, NEW how,
           End(s, from, how),
           path' = path \/ \A t \in Signers \ {s} : pc[t] # "serve"
    PROVE  Alone'
<1>1. \A t \in Signers \ {s} : /\ pc[t] \in Resting /\ pc'[t] = pc[t]
                                /\ known'[t] = known[t] /\ sock'[t] = sock[t]
  BY DEF End, TypeOK, Alone
<1>2. pc'[s] = "idle"
  BY DEF End, TypeOK
<1>3. At(s)'
  BY <1>2 DEF At, StartSteps, TakeoverSteps, HoldingSteps, BindSteps, CloseSteps
<1>4. QED
  BY <1>1, <1>3, MoveAlone

LEMMA GotoAlone ==
    ASSUME TypeOK, Alone, NEW s \in Signers, NEW from, NEW to, from \notin Resting,
           Goto(s, from, to),
           \A t \in Signers \ {s} : known'[t] = known[t] /\ sock'[t] = sock[t],
           path' = path \/ \A t \in Signers \ {s} : pc[t] # "serve",
           At(s)'
    PROVE  Alone'
<1>1. \A t \in Signers \ {s} : pc[t] \in Resting /\ pc'[t] = pc[t]
  BY DEF Goto, TypeOK, Alone
<1>2. QED
  BY <1>1, MoveAlone

LEMMA NextAlone == ~overlap /\ TypeOK /\ Alone /\ [Next]_vars => Alone'
<1> SUFFICES ASSUME ~overlap, TypeOK, Alone, [Next]_vars PROVE Alone'
  OBVIOUS
<1>1. CASE UNCHANGED vars
  BY <1>1 DEF vars, Alone, At, Exists
<1>2. ASSUME NEW s \in Signers,
             \/ Create(s) \/ Restart(s) \/ Kill(s)
             \/ Takeover(s) \/ Confine(s) \/ Proxy(s)
      PROVE  Alone'
  <2> USE NoInodeAssumption DEF TypeOK, SocketsApart, At, Exists, Absent, File, keys,
            Resting, StartSteps, TakeoverSteps, HoldingSteps, BindSteps, CloseSteps
  <2>1. CASE Create(s)
    <3>1. \A t \in Signers \ {s} : /\ pc[t] \in Resting /\ pc'[t] = pc[t]
                                    /\ known'[t] = known[t] /\ sock'[t] = sock[t]
      BY <2>1 DEF Create, Begin, Settled
    <3>2. At(s)' /\ path' = path
      BY <2>1 DEF Create, Begin
    <3>3. QED
      BY <3>1, <3>2, MoveAlone
  <2>2. CASE Restart(s)
    <3>1. \A t \in Signers \ {s} : /\ pc[t] \in Resting /\ pc'[t] = pc[t]
                                    /\ known'[t] = known[t] /\ sock'[t] = sock[t]
      BY <2>2 DEF Restart, Begin, Settled
    <3>2. At(s)' /\ path' = path
      BY <2>2 DEF Restart, Begin
    <3>3. QED
      BY <3>1, <3>2, MoveAlone
  <2>3. CASE Kill(s)
    BY <2>3 DEF Kill, End, Alone
  <2>4. CASE Verify(s)
    <3>1. CASE Refuse(s, "verify")
      BY <3>1, EndAlone DEF Refuse
    <3>2. CASE Goto(s, "verify", "exists") /\ UNCHANGED <<path, known, sock>>
      <4>1. At(s)'
        BY <2>4, <3>2 DEF Verify, Require, Refuse, Goto, End, Alone
      <4>2. QED
        BY <3>2, <4>1, GotoAlone
    <3>3. QED
      BY <2>4, <3>1, <3>2 DEF Verify, Require
  <2>5. CASE PathExists(s)
    BY <2>5 DEF PathExists, Goto, Alone
  <2>6. CASE Identify(s)
    <3>1. CASE Refuse(s, "identify")
      BY <3>1, EndAlone DEF Refuse
    <3>2. CASE Exists /\ Goto(s, "identify", "connect")
      <4>1. known' = [known EXCEPT ![s] = path] /\ path' = path /\ sock' = sock
        BY <2>6, <3>2 DEF Identify, Refuse, End, Goto
      <4>2. At(s)'
        BY <3>2, <4>1 DEF Goto, Alone
      <4>3. QED
        BY <3>2, <4>1, <4>2, GotoAlone
    <3>3. QED
      BY <2>6, <3>1, <3>2 DEF Identify
  <2>7. CASE Connect(s)
    <3>1. CASE Refuse(s, "connect")
      BY <3>1, EndAlone DEF Refuse
    <3>2. CASE /\ ~Listening(path.ino)
               /\ Goto(s, "connect", "exists_again") /\ UNCHANGED <<path, known, sock>>
      <4>1. ASSUME NEW t \in Signers \ {s}, pc[t] = "serve" PROVE FALSE
        BY <3>2, <4>1 DEF Listening, Alone
      <4>2. At(s)'
        BY <3>2, <4>1 DEF Goto, Alone
      <4>3. QED
        BY <3>2, <4>2, GotoAlone
    <3>3. QED
      BY <2>7, <3>1, <3>2 DEF Connect, Require
  <2>8. CASE ExistsAgain(s)
    BY <2>8 DEF ExistsAgain, Goto, Alone
  <2>9. CASE IdentifyAgain(s)
    <3>1. CASE Refuse(s, "identify_again")
      BY <3>1, EndAlone DEF Refuse
    <3>2. CASE Goto(s, "identify_again", "unlink") /\ UNCHANGED <<path, known, sock>>
      <4>1. At(s)'
        BY <2>9, <3>2 DEF IdentifyAgain, Require, Refuse, Goto, End, Alone
      <4>2. QED
        BY <3>2, <4>1, GotoAlone
    <3>3. QED
      BY <2>9, <3>1, <3>2 DEF IdentifyAgain, Require
  <2>10. CASE Unlink(s)
    <3>1. CASE Refuse(s, "unlink")
      BY <3>1, EndAlone DEF Refuse
    <3>2. CASE Goto(s, "unlink", "stage") /\ path' = Absent /\ UNCHANGED <<known, sock>>
      <4>0. pc[s] = "unlink" /\ pc' = [pc EXCEPT ![s] = "stage"]
        BY <3>2 DEF Goto
      <4>1. \A t \in Signers \ {s} : pc[t] # "serve" /\ pc'[t] = pc[t]
        <5>1. \A t \in Signers \ {s} : pc[t] # "serve"
          BY <4>0 DEF Alone
        <5>2. QED
          BY <4>0, <5>1
      <4>2. pc'[s] = "stage" /\ ~Exists'
        BY <3>2, <4>0
      <4>3. At(s)'
        BY <4>1, <4>2
      <4>4. QED
        BY SMTT(20), <3>2, <4>1, <4>3, GotoAlone
    <3>3. QED
      BY <2>10, <3>1, <3>2 DEF Unlink
  <2>11. CASE Stage(s)
    BY <2>11 DEF Stage, Goto, Alone
  <2>12. CASE StageFails(s)
    BY <2>12 DEF StageFails, End, Alone
  <2>13. CASE ConsumePrivate(s)
    BY <2>13 DEF ConsumePrivate, Consume, Goto, Alone
  <2>14. CASE ConsumePublic(s)
    BY <2>14 DEF ConsumePublic, Consume, Goto, Alone
  <2>15. CASE Discard(s)
    BY <2>15, EndAlone DEF Discard
  <2>16. CASE Exec(s)
    BY <2>16 DEF Exec, Goto, Alone
  <2>17. CASE Load(s)
    <3>1. CASE End(s, "load", "spoilt") /\ path' = path
      BY <3>1, EndAlone
    <3>2. CASE Goto(s, "load", "bind_check") /\ UNCHANGED <<path, known, sock>>
      <4>1. At(s)'
        BY <3>2 DEF Goto, Alone
      <4>2. QED
        BY <3>2, <4>1, GotoAlone
    <3>3. QED
      BY <2>17, <3>1, <3>2 DEF Load
  <2>18. CASE BindCheck(s)
    <3>1. CASE Refuse(s, "bind_check")
      BY <3>1, EndAlone DEF Refuse
    <3>2. CASE Goto(s, "bind_check", "bind") /\ UNCHANGED <<path, known, sock>>
      <4>1. At(s)'
        BY <2>18, <3>2 DEF BindCheck, Require, Refuse, Goto, End, Alone
      <4>2. QED
        BY <3>2, <4>1, GotoAlone
    <3>3. QED
      BY <2>18, <3>1, <3>2 DEF BindCheck, Require
  <2>19. CASE Bind(s)
    <3>1. ~Exists /\ \A t \in Signers \ {s} : pc[t] # "serve"
      BY <2>19 DEF Bind, Goto, Unbind, Alone
    <3>2. PICK i \in Inodes : /\ path' = [ino |-> i, final |-> FALSE]
                              /\ sock' = [sock EXCEPT ![s] = i]
      BY <2>19, <3>1 DEF Bind
    <3>3. Goto(s, "bind", "listen") /\ known' = known
      BY <2>19, <3>1 DEF Bind
    <3>4. At(s)'
      BY <3>1, <3>2, <3>3 DEF Goto
    <3>5. \A t \in Signers \ {s} : sock'[t] = sock[t]
      BY <3>2
    <3>6. QED
      BY <3>1, <3>3, <3>4, <3>5, GotoAlone
  <2>20. CASE Listen(s)
    BY <2>20 DEF Listen, Goto, Alone
  <2>21. CASE Chmod(s)
    <3>1. Exists /\ pc[s] = "chmod" /\ \A t \in Signers \ {s} : pc[t] # "serve"
      BY <2>21 DEF Chmod, Goto, Unbind, Alone
    <3>2. Goto(s, "chmod", "stat") /\ UNCHANGED <<known, sock>>
      BY <2>21, <3>1 DEF Chmod, Unbind
    <3>3. path' = [path EXCEPT !.final = TRUE]
      BY <2>21, <3>1 DEF Chmod, Unbind
    <3>4. path'.ino = path.ino /\ path'.final
      BY <3>3
    <3>5. sock[s] # NoInode /\ path.ino = sock[s]
      BY <3>1 DEF Alone
    <3>6. At(s)'
      BY <3>1, <3>2, <3>4, <3>5 DEF Goto
    <3>7. QED
      BY <3>1, <3>2, <3>6, GotoAlone
  <2>22. CASE Stat(s)
    <3>1. Exists /\ pc[s] = "stat"
      BY <2>22 DEF Stat, Goto, Unbind, Alone
    <3>2. path.final
      BY <3>1 DEF Alone
    <3>3. Goto(s, "stat", "serve") /\ UNCHANGED <<path, sock>>
      BY <2>22, <3>1, <3>2 DEF Stat, Unbind
    <3>4. \A t \in Signers \ {s} : known'[t] = known[t]
      BY <2>22, <3>1, <3>2 DEF Stat, Unbind
    <3>5. At(s)'
      BY <3>1, <3>2, <3>3 DEF Goto, Alone
    <3>6. QED
      BY <3>3, <3>4, <3>5, GotoAlone
  <2>23. CASE UnlinkAnyhow(s)
    BY <2>23 DEF UnlinkAnyhow, End, Alone
  <2>24. CASE Stop(s)
    BY <2>24 DEF Stop, Goto, Settled, Alone
  <2>25. CASE CloseLook(s)
    <3>1. CASE End(s, "close_look", "stopped") /\ path' = path
      BY <3>1, EndAlone
    <3>2. CASE Goto(s, "close_look", "close_unlink") /\ UNCHANGED <<path, known, sock>>
      <4>1. pc[s] = "close_look" /\ pc' = [pc EXCEPT ![s] = "close_unlink"]
        BY <3>2 DEF Goto
      <4>2. \A t \in Signers \ {s} : pc[t] # "serve"
        BY <4>1 DEF Alone
      <4>3. At(s)'
        BY <4>1, <4>2
      <4>4. QED
        BY <3>2, <4>3, GotoAlone
    <3>3. QED
      BY <2>25, <3>1, <3>2 DEF CloseLook
  <2>26. CASE CloseUnlink(s)
    <3>1. End(s, "close_unlink", "stopped") /\ pc[s] = "close_unlink"
      BY <2>26 DEF CloseUnlink, End
    <3>2. \A t \in Signers \ {s} : pc[t] # "serve"
      BY <3>1 DEF Alone
    <3>3. QED
      BY <3>1, <3>2, EndAlone
  <2>27. QED
    BY <1>2, <2>1, <2>2, <2>3, <2>4, <2>5, <2>6, <2>7, <2>8, <2>9, <2>10,
       <2>11, <2>12, <2>13, <2>14, <2>15, <2>16, <2>17, <2>18, <2>19, <2>20,
       <2>21, <2>22, <2>23, <2>24, <2>25, <2>26
    DEF Takeover, Confine, Proxy
<1>3. QED
  BY <1>1, <1>2 DEF Next

LEMMA InitAlone == Init => Alone
<1> SUFFICES ASSUME Init PROVE Alone
  OBVIOUS
<1>1. \A s \in Signers : pc[s] = "idle"
  BY DEF Init
<1>2. QED
  BY <1>1 DEF Alone, At, Resting, StartSteps, TakeoverSteps, HoldingSteps, BindSteps,
              CloseSteps

\* Containers that start and stop one at a time never see one another half way.
THEOREM StartsAlone == Spec => [](~overlap => Alone)
<1>1. (~overlap => Alone) /\ TypeOK /\ [Next]_vars => (~overlap => Alone)'
  <2>1. [Next]_vars => overlap' = overlap
    BY DEF Next, vars
  <2>2. QED
    BY <2>1, NextAlone
<1>2. QED
  BY <1>1, InitAlone, TypesKept, PTL DEF Spec

\* As long as containers start and stop one at a time, a signer that serves can be
\* reached at the path, for any number of signers, however many are started beside
\* it, refused, or killed.
THEOREM ServingIsReachable == Spec => []ServingReachable
<1>1. (~overlap => Alone) /\ TypeOK => ServingReachable
  <2> SUFFICES ASSUME Alone, TypeOK, NEW s \in Signers, pc[s] = "serve"
               PROVE  path = [ino |-> sock[s], final |-> TRUE]
    BY DEF ServingReachable
  <2>1. path.ino = sock[s] /\ path.final
    BY DEF Alone, At
  <2>2. path \in [ino : Inodes \cup {NoInode}, final : BOOLEAN]
    BY DEF TypeOK, File
  <2>3. QED
    BY <2>1, <2>2
<1>2. QED
  BY <1>1, StartsAlone, TypesKept, PTL

\* As long as containers start and stop one at a time, a signer that was given its key
\* is refused only while another one serves, whatever an earlier one has left at the
\* path.
THEOREM FreshSignersStart == Spec => FreshSignerStarts
<1> DEFINE Reason(s) == \E t \in Signers \ {s} : pc[t] = "serve"
           Explained == ~overlap => \A s \in Signers :
                (pc[s] \notin {"idle", "verify"} /\ outcome[s] # outcome'[s]
                    /\ outcome'[s] = "refused") => Reason(s)
<1>1. ASSUME TypeOK, Alone, [Next]_vars PROVE Explained
  <2> SUFFICES ASSUME NEW u \in Signers, pc[u] \notin {"idle", "verify"},
                      outcome[u] # outcome'[u], outcome'[u] = "refused"
               PROVE  Reason(u)
    OBVIOUS
  <2>0. PICK s \in Signers : \/ Create(s) \/ Restart(s) \/ Kill(s)
                            \/ Takeover(s) \/ Confine(s) \/ Proxy(s)
    BY <1>1 DEF Next, vars
  <2>1. CASE Create(s) \/ Restart(s) \/ Kill(s)
    BY <1>1, <2>1 DEF Create, Restart, Begin, Kill, End, TypeOK
  <2>r. ASSUME NEW from, Refuse(s, from) PROVE u = s /\ pc[s] = from
    BY <1>1, <2>r DEF Refuse, End, TypeOK
  <2>2. CASE Takeover(s)
    <3>1. CASE Verify(s)
      BY <2>r, <3>1 DEF Verify, Require, Goto
    <3>2. CASE PathExists(s) \/ ExistsAgain(s)
      BY <3>2 DEF PathExists, ExistsAgain, Goto
    <3>3. CASE Identify(s)
      BY <1>1, <2>r, <3>3 DEF Identify, Goto, Alone, At
    <3>4. CASE Connect(s)
      <4>1. u = s /\ pc[s] = "connect" /\ Listening(path.ino)
        BY <2>r, <3>4 DEF Connect, Require, Goto
      <4>2. PICK t \in Signers : sock[t] = path.ino /\ pc[t] \in {"chmod", "stat", "serve"}
        BY <4>1 DEF Listening
      <4>3. t # s
        BY <4>1, <4>2
      <4>4. pc[t] = "serve"
        BY <1>1, <4>1, <4>2, <4>3 DEF Alone, Resting
      <4>5. QED
        BY <4>1, <4>3, <4>4
    <3>5. CASE IdentifyAgain(s)
      BY <1>1, <2>r, <3>5 DEF IdentifyAgain, Require, Goto, Alone, At
    <3>6. CASE Unlink(s)
      BY <1>1, <2>r, <3>6 DEF Unlink, Goto, Alone, At
    <3>7. QED
      BY <2>2, <3>1, <3>2, <3>3, <3>4, <3>5, <3>6 DEF Takeover
  <2>3. CASE Confine(s)
    <3>1. CASE Stage(s) \/ ConsumePrivate(s) \/ ConsumePublic(s) \/ Exec(s)
      BY <3>1 DEF Stage, ConsumePrivate, ConsumePublic, Consume, Exec, Goto
    <3>2. CASE StageFails(s) \/ Discard(s)
      BY <1>1, <3>2 DEF StageFails, Discard, End, TypeOK
    <3>3. QED
      BY <2>3, <3>1, <3>2 DEF Confine
  <2>4. CASE Proxy(s)
    <3>1. CASE Load(s) \/ CloseLook(s) \/ CloseUnlink(s)
      BY <1>1, <3>1 DEF Load, CloseLook, CloseUnlink, Goto, End, TypeOK
    <3>2. CASE BindCheck(s)
      BY <1>1, <2>r, <3>2 DEF BindCheck, Require, Goto, Alone, At
    <3>3. CASE Bind(s) \/ Listen(s) \/ Chmod(s) \/ Stat(s) \/ Stop(s)
      BY <3>3 DEF Bind, Listen, Chmod, Stat, Stop, Unbind, Goto
    <3>4. CASE UnlinkAnyhow(s)
      BY <1>1, <3>4 DEF UnlinkAnyhow, End, Alone, At
    <3>5. QED
      BY <2>4, <3>1, <3>2, <3>3, <3>4 DEF Proxy
  <2>5. QED
    BY <2>0, <2>1, <2>2, <2>3, <2>4
<1>2. TypeOK /\ (~overlap => Alone) /\ [Next]_vars => [Explained]_vars
  BY <1>1
<1>3. QED
  BY <1>2, StartsAlone, TypesKept, PTL DEF Spec, FreshSignerStarts
=============================================================================
