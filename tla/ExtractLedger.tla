--------------------------- MODULE ExtractLedger ---------------------------
(***************************************************************************)
(* What the hosted provisioner promises about the immutable extracts of    *)
(* one direct Evidence cell (docs/hosted-deployment.md, "Immutable extract *)
(* lifecycle"), with the files, modes and crashes abstracted away.         *)
(*                                                                         *)
(* An extract is named for its publication time.  Extracts are only ever   *)
(* added; the cell's runtime is bound to one of them; the binding moves to *)
(* a later one, in one step; and the gateway goes on reading the extract   *)
(* it opened until it is restarted.                                        *)
(***************************************************************************)
EXTENDS Integers

CONSTANT Times        \* publication times, naturals

VARIABLES
    published,        \* times of the extracts available to a gateway
    bound,            \* time of the extract the runtime is bound to
    serving           \* time of the extract the running gateway has open

ledgerVars == <<published, bound, serving>>

NoTime == -1

Init ==
    /\ published \in {{}} \cup {{t} : t \in Times}
    /\ bound \in published \cup (IF published = {} THEN {NoTime} ELSE {})
    /\ serving = NoTime

\* One more extract becomes available beside those already there.
Append(t) ==
    /\ published' = published \cup {t}
    /\ UNCHANGED <<bound, serving>>

\* The runtime is bound to an available extract, later than the one it had.
Bind(t) ==
    /\ t \in published
    /\ bound < t
    /\ bound' = t
    /\ UNCHANGED <<published, serving>>

\* A restart opens the extract the runtime names at that moment; a cell that
\* was never bound to one has no running gateway.
Restart ==
    /\ serving' = bound
    /\ UNCHANGED <<published, bound>>

Next ==
    \/ \E t \in Times : Append(t) \/ Bind(t)
    \/ Restart

Spec == Init /\ [][Next]_ledgerVars
=============================================================================
