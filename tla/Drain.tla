---- MODULE Drain ----
(***************************************************************************)
(* What docs/safety.md promises of node surgery, with nothing said of how: *)
(* pods come only to open nodes; Kilter takes away only a node that is     *)
(* closed and empty, and stops its machine only after that.  The cloud may *)
(* take back a node at any time, machine and all.                          *)
(***************************************************************************)
CONSTANTS Nodes, Pods, Nowhere

VARIABLES open, closed, running, place

vars == <<open, closed, running, place>>

Init == open = Nodes /\ closed = {} /\ running = Nodes /\ place \in [Pods -> Nodes]

\* Pods come and go, each on its own; none comes to a node that is closed or gone.
Move ==
    /\ \E p \in Pods, n \in open \cup {Nowhere} : place' = [place EXCEPT ![p] = n]
    /\ UNCHANGED <<open, closed, running>>

Close(n) ==
    /\ n \in open /\ open' = open \ {n} /\ closed' = closed \cup {n}
    /\ UNCHANGED <<running, place>>

Empty(n) == \A p \in Pods : place[p] # n

\* Kilter removes n; its machine still runs.
Remove(n) ==
    /\ n \in closed /\ Empty(n)
    /\ closed' = closed \ {n} /\ UNCHANGED <<open, running, place>>

\* Kilter stops the machine of a node that is gone.
Stop(n) ==
    /\ n \notin open \cup closed /\ running' = running \ {n}
    /\ UNCHANGED <<open, closed, place>>

\* The cloud takes n, with whatever ran there.
Lose(n) ==
    /\ n \in open \cup closed
    /\ open' = open \ {n} /\ closed' = closed \ {n} /\ running' = running \ {n}
    /\ place' = [p \in Pods |-> IF place[p] = n THEN Nowhere ELSE place[p]]

Next == Move \/ \E n \in Nodes : Close(n) \/ Remove(n) \/ Stop(n) \/ Lose(n)

Spec == Init /\ [][Next]_vars
====
