------------------------- MODULE TransitSupervisor -------------------------
(***************************************************************************)
(* `just signers-up` and `just signers-down` (local-transit-signers.py),   *)
(* beside the recipes of LocalRuntime, which make the keys that the        *)
(* proxies load.  A proxy is known by its pid, which it writes nowhere:    *)
(* the supervisor keeps a pid file for each provider, and believes it when *)
(* the process of that pid is a proxy, of whichever provider.  Pids are    *)
(* used again.  A command may be killed at any step; the proxies it has    *)
(* started go on.                                                          *)
(*                                                                         *)
(* Nothing but proxies is found at a socket's path.                        *)
(***************************************************************************)
EXTENDS LocalRuntime, SequencesExt

CONSTANTS
    Pids,              \* of proxies
    NoPid,
    Abandoned          \* a socket whose process has died

ASSUME PidAssumption == NoPid \notin Pids /\ Abandoned \notin Pids /\ NoPid # Abandoned

VARIABLES
    proxy,             \* what each process does, and for which provider
    socket,            \* who has bound each provider's socket
    pidfile,           \* each provider's pid file
    command,           \* what is run: start or stop
    phase,             \* where it is
    queue,             \* the providers it has left
    started,           \* those it has started proxies for
    child,             \* the process it waits for
    exit,              \* how the last command ended
    cut,               \* whether a command was ever killed
    disturbed          \* whether a proxy has lost its socket since it began

processes == <<proxy, socket>>

progress == <<command, phase, queue, started, child, exit, cut>>

supervisorVars == <<processes, pidfile, progress, disturbed>>

stackVars == <<runtimeVars, supervisorVars>>

-----------------------------------------------------------------------------
States == {"none", "loading", "validated", "bound", "serving", "closing"}

Phases == {"idle", "own", "look", "spawn", "record", "wait", "stop", "signal", "await"}

SupervisorTypeOK ==
    /\ proxy \in [Pids -> [does : States, of : Places]]
    /\ socket \in [Places -> Pids \cup {NoPid, Abandoned}]
    /\ pidfile \in [Places -> Pids \cup {NoPid}]
    /\ command \in {"none", "up", "down"}
    /\ phase \in Phases
    /\ {queue, started} \subseteq Seq(Places)
    /\ child \in Pids \cup {NoPid}
    /\ exit \in {"none", "ok", "failed", "killed"}
    /\ {cut, disturbed} \subseteq BOOLEAN

NoProxy == [does |-> "none", of |-> Cells[1]]

SupervisorInit ==
    /\ proxy = [i \in Pids |-> NoProxy]
    /\ socket = [p \in Places |-> NoPid]
    /\ pidfile = [p \in Places |-> NoPid]
    /\ command = "none"
    /\ phase = "idle"
    /\ queue = <<>>
    /\ started = <<>>
    /\ child = NoPid
    /\ exit = "none"
    /\ cut = FALSE
    /\ disturbed = FALSE

-----------------------------------------------------------------------------
(* local-transit-proxy.py *)

Runs(i) == proxy[i].does # "none"

\* Its socket accepts a connection.
Reachable(p) ==
    /\ socket[p] \in Pids
    /\ proxy[socket[p]].does \in {"bound", "serving"}

Becomes(i, from, to) ==
    /\ proxy[i].does = from
    /\ proxy' = [proxy EXCEPT ![i].does = to]

Ended(i) == proxy' = [proxy EXCEPT ![i] = NoProxy]

\* The process ends without closing its socket.
Left(i) == [p \in Places |-> IF socket[p] = i THEN Abandoned ELSE socket[p]]

\* It reads its key and finds nothing at the path, or it gives up.
Loadable(p) == keyfile[p] = "whole" /\ socket[p] = NoPid

Load(i) ==
    /\ Loadable(proxy[i].of)
    /\ Becomes(i, "loading", "validated")
    /\ UNCHANGED <<socket, pidfile, progress, disturbed>>

LoadFails(i) ==
    /\ proxy[i].does = "loading"
    /\ ~Loadable(proxy[i].of)
    /\ Ended(i)
    /\ UNCHANGED <<socket, pidfile, progress, disturbed>>

Bind(i) ==
    /\ socket[proxy[i].of] = NoPid
    /\ Becomes(i, "validated", "bound")
    /\ socket' = [socket EXCEPT ![proxy[i].of] = i]
    /\ UNCHANGED <<pidfile, progress, disturbed>>

\* Another one has bound meanwhile: the error handler unlinks the other's path.
BindFails(i) ==
    /\ proxy[i].does = "validated"
    /\ socket[proxy[i].of] # NoPid
    /\ Ended(i)
    /\ socket' = [socket EXCEPT ![proxy[i].of] = NoPid]
    /\ disturbed' = TRUE
    /\ UNCHANGED <<pidfile, progress>>

\* SIGTERM is handled from here on.
HandleSignals(i) ==
    /\ Becomes(i, "bound", "serving")
    /\ UNCHANGED <<socket, pidfile, progress, disturbed>>

\* server_close: the socket is unlinked when it is this one's.
Close(i) ==
    /\ proxy[i].does = "closing"
    /\ Ended(i)
    /\ socket' = [p \in Places |-> IF socket[p] = i THEN NoPid ELSE socket[p]]
    /\ UNCHANGED <<pidfile, progress, disturbed>>

\* SIGKILL, a reboot, or a crash.
Die(i) ==
    /\ Runs(i)
    /\ Ended(i)
    /\ socket' = Left(i)
    /\ disturbed' = TRUE
    /\ UNCHANGED <<pidfile, progress>>

Proxy(i) ==
    \/ Load(i) \/ LoadFails(i) \/ Bind(i) \/ BindFails(i)
    \/ HandleSignals(i) \/ Close(i) \/ Die(i)

\* SIGTERM: a proxy that does not handle it yet, or is closing already, may end
\* at once and leave its socket.
Terminated(i) ==
    \/ /\ proxy[i].does # "serving"
       /\ Ended(i)
       /\ socket' = Left(i)
    \/ /\ proxy[i].does \in {"serving", "closing"}
       /\ proxy' = [proxy EXCEPT ![i].does = "closing"]
       /\ UNCHANGED socket

-----------------------------------------------------------------------------
(* start *)

Turn == Head(queue)

In(f) == phase = f /\ queue # <<>>

Advance(f, left) ==
    /\ phase' = f
    /\ queue' = left
    /\ UNCHANGED <<command, exit, cut>>

\* Mutant: a proxy that does not answer is taken for dead.
OwnedReachable(p) == pidfile[p] # NoPid /\ Runs(pidfile[p]) /\ Reachable(p)

\* owned_process
Owned(p) == pidfile[p] # NoPid /\ Runs(pidfile[p])

Run(c) ==
    /\ phase = "idle"
    /\ command' = c
    /\ IF c = "up" THEN phase' = "own" /\ queue' = Cells
       ELSE phase' = "stop" /\ queue' = Reverse(Cells)
    /\ disturbed' = FALSE
    /\ UNCHANGED <<processes, pidfile, started, child, exit, cut>>

Finish(how) ==
    /\ command' = "none"
    /\ phase' = "idle"
    /\ queue' = <<>>
    /\ started' = <<>>
    /\ child' = NoPid
    /\ exit' = how

\* Mutant: what it has started goes on.
GiveUpAtOnce ==
    /\ Finish("failed")
    /\ UNCHANGED cut

\* stop(started): what this command has started is stopped.
GiveUp ==
    /\ Advance("stop", Reverse(started))
    /\ UNCHANGED started

\* Mutant: a pid file is enough.
KeepRecorded ==
    /\ In("own")
    /\ Owned(Turn)
    /\ Advance("own", Tail(queue))
    /\ UNCHANGED <<processes, pidfile, started, child, disturbed>>

KeepProxy ==
    /\ In("own")
    /\ Owned(Turn) /\ Reachable(Turn)
    /\ Advance("own", Tail(queue))
    /\ UNCHANGED <<processes, pidfile, started, child, disturbed>>

ForgetProxy ==
    /\ In("own")
    /\ ~(Owned(Turn) /\ Reachable(Turn))
    /\ pidfile' = [pidfile EXCEPT ![Turn] = NoPid]
    /\ Advance("look", queue)
    /\ UNCHANGED <<processes, started, child, disturbed>>

\* There must be no socket, which is not ours, and there must be a key.
Look ==
    /\ In("look")
    /\ IF socket[Turn] = NoPid /\ keyfile[Turn] # "absent"
       THEN Advance("spawn", queue) /\ UNCHANGED started
       ELSE GiveUp
    /\ UNCHANGED <<processes, pidfile, child, disturbed>>

Spawn(i) ==
    /\ In("spawn")
    /\ ~Runs(i)
    /\ proxy' = [proxy EXCEPT ![i] = [does |-> "loading", of |-> Turn]]
    /\ child' = i
    /\ Advance("record", queue)
    /\ UNCHANGED <<socket, pidfile, started, disturbed>>

Record ==
    /\ In("record")
    /\ pidfile' = [pidfile EXCEPT ![Turn] = child]
    /\ started' = Append(started, Turn)
    /\ Advance("wait", queue)
    /\ UNCHANGED <<processes, child, disturbed>>

\* Somebody accepts a connection.
Ready ==
    /\ In("wait")
    /\ Reachable(Turn)
    /\ child' = NoPid
    /\ Advance("own", Tail(queue))
    /\ UNCHANGED <<processes, pidfile, started, disturbed>>

\* Nobody does in time.
NotReady ==
    /\ In("wait")
    /\ ~Reachable(Turn)
    /\ child' = NoPid
    /\ GiveUp
    /\ UNCHANGED <<processes, pidfile, disturbed>>

UpDone ==
    /\ phase = "own" /\ queue = <<>>
    /\ Finish("ok")
    /\ UNCHANGED <<processes, pidfile, cut, disturbed>>

-----------------------------------------------------------------------------
(* stop *)

NothingToStop ==
    /\ In("stop")
    /\ ~Owned(Turn)
    /\ pidfile' = [pidfile EXCEPT ![Turn] = NoPid]
    /\ Advance("stop", Tail(queue))
    /\ UNCHANGED <<processes, started, child, disturbed>>

FindProxy ==
    /\ In("stop")
    /\ Owned(Turn)
    /\ child' = pidfile[Turn]
    /\ Advance("signal", queue)
    /\ UNCHANGED <<processes, pidfile, started, disturbed>>

Terminate ==
    /\ In("signal")
    /\ Runs(child)
    /\ Terminated(child)
    /\ Advance("await", queue)
    /\ UNCHANGED <<pidfile, started, child, disturbed>>

\* It has ended since it was looked at, and its parent has not waited for it yet: the
\* signal is without effect.  The parent is `up` itself, for all that `up` stops.
TerminateLate ==
    /\ In("signal")
    /\ ~Runs(child)
    /\ Advance("await", queue)
    /\ UNCHANGED <<processes, pidfile, started, child, disturbed>>

\* Or it is gone altogether: os.kill raises, and `down` leaves the rest as it is.
TerminateRaises ==
    /\ In("signal")
    /\ command = "down"
    /\ ~Runs(child)
    /\ Finish("failed")
    /\ UNCHANGED <<processes, pidfile, cut, disturbed>>

\* The process is gone, or it is not within five seconds.
Awaited ==
    /\ In("await")
    /\ pidfile' = [pidfile EXCEPT ![Turn] = NoPid]
    /\ child' = NoPid
    /\ Advance("stop", Tail(queue))
    /\ UNCHANGED <<processes, started, disturbed>>

StopDone ==
    /\ phase = "stop" /\ queue = <<>>
    /\ Finish(IF command = "up" THEN "failed" ELSE "ok")
    /\ UNCHANGED <<processes, pidfile, cut, disturbed>>

\* The proxies are in sessions of their own.
Interrupt ==
    /\ phase # "idle"
    /\ Finish("killed")
    /\ cut' = TRUE
    /\ UNCHANGED <<processes, pidfile, disturbed>>

-----------------------------------------------------------------------------
Supervise ==
    \/ KeepProxy \/ ForgetProxy \/ Look \/ Record \/ Ready \/ NotReady \/ UpDone
    \/ NothingToStop \/ FindProxy \/ Terminate \/ TerminateLate \/ TerminateRaises
    \/ Awaited \/ StopDone \/ Interrupt
    \/ \E i \in Pids : Spawn(i)

\* The operator runs one command at a time, a recipe or the supervisor.
StackNext ==
    \/ RuntimeNext /\ phase = "idle" /\ UNCHANGED supervisorVars
    \/ /\ step = "idle"
       /\ Supervise \/ \E c \in {"up", "down"} : Run(c)
       /\ UNCHANGED runtimeVars
    \/ (\E i \in Pids : Proxy(i)) /\ UNCHANGED runtimeVars

StackInit == RuntimeInit /\ SupervisorInit

StackSpec == StackInit /\ [][StackNext]_stackVars

-----------------------------------------------------------------------------
(* Properties *)

\* When signers-up ends well, and no proxy has died or lost its path meanwhile,
\* every provider's socket is served; unless a command was ever killed, it is
\* so by the process that signers-down will find.
UpServes ==
    [][phase # "idle" /\ exit' = "ok" /\ phase' = "idle" /\ command = "up" /\ ~disturbed =>
          \A p \in Places : Reachable(p) /\ (~cut => pidfile[p] = socket[p])]_stackVars

\* When signers-up fails, what it has started is stopped or stopping, whichever of
\* the proxies it was that failed, unless a command was ever killed.
FailedUpStops ==
    [][phase # "idle" /\ phase' = "idle" /\ exit' = "failed"
              /\ command = "up" /\ ~cut =>
          \A i \in Pids : proxy'[i].of \in ToSet(started) =>
                            proxy'[i].does \in {"none", "closing"}]_stackVars

\* No proxy is forgotten: between two commands, when none was ever killed, every
\* process that is not closing is in the pid file of its provider.
NoneForgotten ==
    phase = "idle" /\ ~cut =>
        \A i \in Pids : proxy[i].does \notin {"none", "closing"} => pidfile[proxy[i].of] = i
=============================================================================
