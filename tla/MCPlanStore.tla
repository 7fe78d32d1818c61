---------------------------- MODULE MCPlanStore ----------------------------
(* Instances of PlanStore for TLC. *)
EXTENDS PlanStore, TLC

CONSTANTS f1, f2, o1, o2

\* Two plan tools write to one file.
TwoWrites == {[op |-> o1, file |-> f1], [op |-> o2, file |-> f1]}

Symmetry == Permutations(Ops)

\* One tool writes to each file.
WriteEach == {[op |-> o1, file |-> f1], [op |-> o2, file |-> f2]}

\* The first file may be missing; the other is not Octoplan's doing.
OneRecord == {[id |-> 1, by |-> Hand]}
Files12 == {[f \in Files |-> IF f = f1 THEN text ELSE OneRecord] : text \in {NoFile, OneRecord}}
=============================================================================
