---------------------------- MODULE FargateTiers ----------------------------
(***************************************************************************)
(* The quantizer of pkg/pricing/fargate.go, which the k8s-fargate and the  *)
(* ECS domains share: Fargate bills the first configuration, in the order  *)
(* of its table, that holds what a pod asks for.  Millicores and MiB.      *)
(***************************************************************************)
EXTENDS Integers, FiniteSetsExt, Functions

gibRange(from, to, step) == {1024 * (from + step * k) : k \in 0..((to - from) \div step)}
fargateTiers ==
    <<[cpu |-> 250, mem |-> {512, 1024, 2048}], [cpu |-> 500, mem |-> gibRange(1, 4, 1)],
      [cpu |-> 1000, mem |-> gibRange(2, 8, 1)], [cpu |-> 2000, mem |-> gibRange(4, 16, 1)],
      [cpu |-> 4000, mem |-> gibRange(8, 30, 1)], [cpu |-> 8000, mem |-> gibRange(16, 60, 4)],
      [cpu |-> 16000, mem |-> gibRange(32, 120, 8)]>>
fargateConfigs == UNION {{[cpu |-> t.cpu, mem |-> m] : m \in t.mem} : t \in Range(fargateTiers)}

NoTier == [cpu |-> 0, mem |-> 0]

\* the order of the table is by CPU, then by memory.
Holding(need) == {t \in Range(fargateTiers) : need.cpu <= t.cpu /\ \E m \in t.mem : need.mem <= m}
Cheapest(need, row) == [cpu |-> row.cpu, mem |-> Min({m \in row.mem : need.mem <= m})]
Smallest(need) ==
    IF Holding(need) = {} THEN NoTier
    ELSE Cheapest(need, CHOOSE t \in Holding(need) : \A o \in Holding(need) : t.cpu <= o.cpu)

FargateOverhead == 256

\* Quantize: the larger of what the containers and what the init containers
\* ask for, and the overhead of the platform.
Quantize(req, init) ==
    Smallest([cpu |-> Max({req.cpu, init.cpu, 0}), mem |-> Max({req.mem, init.mem, 0}) + FargateOverhead])
=============================================================================
