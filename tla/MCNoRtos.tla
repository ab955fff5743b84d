------------------------------ MODULE MCNoRtos ------------------------------
(* Instances of NoRtos for TLC.                                            *)
EXTENDS NoRtos

CONSTANTS a, b,     \* tasks, as model values
          n1, n2    \* nodes, as model values

TwoTasks == {a, b}

\* Both tasks publish on one node, or each on a node of its own.
OnOneNode == [t \in TwoTasks |-> n1]
OnOwnNode == [t \in TwoTasks |-> IF t = a THEN n1 ELSE n2]
=============================================================================
