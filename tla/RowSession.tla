---------------------------- MODULE RowSession ----------------------------
(***************************************************************************)
(* What the MoSD source publisher promises about the one row that a        *)
(* lifecycle proof changes on a live source: the row is only changed while *)
(* a session is open on it, and a session is only closed over the row it   *)
(* was opened on.                                                          *)
(***************************************************************************)
VARIABLES
    row,               \* the control row of the source, "absent" before it
    open               \* whether a proof session is open

sessionVars == <<row, open>>

Init == row = "absent" /\ open = FALSE

Seed == row = "absent" /\ row' = "original" /\ UNCHANGED open

Open == row = "original" /\ ~open /\ open' = TRUE /\ UNCHANGED row

Change == open /\ row' = "changed" /\ UNCHANGED open

Restore == open /\ row' = "original" /\ UNCHANGED open

Close == open /\ row = "original" /\ open' = FALSE /\ UNCHANGED row

Next == Seed \/ Open \/ Change \/ Restore \/ Close

Spec == Init /\ [][Next]_sessionVars
=============================================================================
