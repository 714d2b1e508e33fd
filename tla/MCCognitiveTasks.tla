--------------------------- MODULE MCCognitiveTasks ---------------------------
(* Three tasks; the first one may take two steps, a subtask one. *)
EXTENDS CognitiveTasks

MCMaxSteps == [t \in Tasks |-> IF t = 1 THEN 2 ELSE 1]

=============================================================================
