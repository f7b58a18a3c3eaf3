---- MODULE MCBrain ----
(***************************************************************************)
(* Two uploads and a plan at a time; four snapshots in three periods, the  *)
(* watched pod killed twice.                                               *)
(***************************************************************************)
EXTENDS Brain

CONSTANTS c1, c2, p1

MCRestarts == <<0, 0, 1, 2>>
Symmetric == Permutations(Calls)
====
