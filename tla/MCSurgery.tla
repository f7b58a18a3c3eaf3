---- MODULE MCSurgery ----
(* Node surgery and emergency drains, without resizes: every plan removes nodes. *)
EXTENDS Controller, SequencesExt

CONSTANTS n1, n2, p1, p2, w1

MCNodes == {n1, n2}
MCPods == {p1, p2}
MCWorkloadOf == [c \in {} |-> w1]

\* plan.tryRemove's steps for one node: cordon, evictions, deletion.
Removal(n, f) ==
    <<[type |-> "cordon", node |-> n]>>
    \o [i \in DOMAIN f |-> [type |-> "evict", node |-> n, pod |-> f[i]]]
    \o <<[type |-> "delete", node |-> n]>>
MCPlans == UNION {{Removal(n, SetToSeq(S)) : S \in SUBSET MCPods} : n \in MCNodes}

MCConfigs == {[mode |-> "apply", approval |-> FALSE, provider |-> TRUE]}

NodeSymmetry == Permutations(MCNodes)
====
