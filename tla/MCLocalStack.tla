---------------------------- MODULE MCLocalStack ----------------------------
(* Two cells that read an extract each, one of whose keys is made anew once. *)
EXTENDS TransitSupervisor, TLC

CONSTANTS cra, nia

AllCells == <<cra, nia>>
AllAuthorities == <<cra, nia>>
KeyBounds == [c \in {cra, nia} |-> IF c = cra THEN 2 ELSE 1]
Symmetry == Permutations(Pids)

Supervised == phase # "idle" \/ exit # "none"

\* The supervisor reads nothing of the recipes but the key files: it is explored
\* beside gen-secrets.py, and the other steps of the recipes without it.
Apart == Supervised => /\ ~root
                       /\ step = "idle" /\ outcome \in {"none", "killed"}
                       /\ \A c \in Places : made[c] < 2
                       /\ file = [a \in Readers |-> [t \in Times |-> "absent"]]
=============================================================================
