---- MODULE MCResize ----
(* Resizes, regressions and quarantine, in both modes and with approvals: no node surgery. *)
EXTENDS Controller

CONSTANTS n1, c1, c2, w1

MCWorkloadOf == [c \in {c1, c2} |-> w1]

\* plan.Build's resize steps: from the size the template has to the recommended size 1.
ToOne(c, s) == [type |-> "resize", ctr |-> c, from |-> s, to |-> 1]
MCPlans == UNION {{<<ToOne(c1, s)>>, <<ToOne(c2, s)>>} : s \in Sizes \ {1}}
           \cup {<<ToOne(c1, s), ToOne(c2, t)>> : s, t \in Sizes \ {1}}

MCConfigs ==
    {[mode |-> "apply", approval |-> FALSE, provider |-> FALSE],
     [mode |-> "apply", approval |-> TRUE, provider |-> FALSE],
     [mode |-> "dry-run", approval |-> FALSE, provider |-> FALSE]}
====
