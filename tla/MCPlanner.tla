---- MODULE MCPlanner ----
(***************************************************************************)
(* Three nodes in two zones and six pods, however they are spread and      *)
(* whichever nodes are ready.  The replicas of db (1, 2) must not share a  *)
(* zone; those of api (3, 4) may differ by one between zones and share a   *)
(* disruption budget with db; 5 is a daemon; 6 is pinned, or waits.        *)
(***************************************************************************)
EXTENDS Planner

Of(c, m) == [d \in Dims |-> IF d = "cpu" THEN c ELSE m]

MCNodes == 1..3
MCPods == 1..6
MCWorkloads == {"db", "api", "agent", "task", "old"}
MCWorkloadOf == <<"db", "db", "api", "api", "agent", "task">>
MCBudgets == {"data", "all"}
MCCovers == [b \in MCBudgets |-> IF b = "data" THEN {1, 2} ELSE {2, 3, 4}]
MCAllowances == {[data |-> 1, all |-> 2], [data |-> 2, all |-> 3], [data |-> -1, all |-> 1]}
MCAlloc == <<Of(4, 4), Of(4, 6), Of(8, 4)>>
MCCost == <<2, 3, 3>>
MCZone == <<"a", "a", "b">>
MCRequests == {<<Of(1, 1), Of(1, 1), Of(3, 1), Of(1, 2), Of(1, 0), Of(1, 1)>>}
MCAdmits == [p \in MCPods |-> IF p = 3 THEN {1, 2} ELSE MCNodes]
MCMaxSkew == [w \in MCWorkloads |-> IF w = "api" THEN 1 ELSE 9]
MCHomes == {h \in [MCPods -> MCNodes \cup {Nowhere}] :
                h[5] # Nowhere /\ h[6] \in {Nowhere, 3} /\ (h[1] = Nowhere => h[2] = Nowhere)}
MCTarget == [w \in {"api", "old", "task"} |-> Of(2, 1)]
====
