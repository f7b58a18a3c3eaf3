------------------------------- MODULE MCCloud -------------------------------
(* One instance of every machine of Cloud, small enough to check. *)
EXTENDS Cloud

MCFaultsOf == [ec2 |-> 2, asg |-> 1, ebs |-> 1, rds |-> 1, ecs |-> 2, sig |-> 0, whatif |-> 0]
MCModesOf == [m \in Machines |-> IF m = "asg" THEN {"apply"} ELSE {"apply", "dry-run"}]
MCParts == <<"instances", "groups">>

\* One change that passes the gate, and one that is no strict improvement.
Flawless == [wellFormed |-> TRUE, envelope |-> TRUE, identity |-> TRUE, admissible |-> TRUE,
             coverage |-> TRUE, notRefusalCollapse |-> TRUE, strictImprovement |-> TRUE]
MCSpecs == {Flawless, [Flawless EXCEPT !.strictImprovement = FALSE]}
=============================================================================
