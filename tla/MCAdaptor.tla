----------------------------- MODULE MCAdaptor ------------------------------
(* The inputs of the runs of SparkResourceAdaptor.                         *)
EXTENDS DocumentedClaims

None == {}
AnyDedicated == Threads \X Tasks
OneEach == {<<1, 0>>, <<2, 1>>}
OnlyFirst == {<<1, 0>>}
TwoThreadTask == {<<1, 0>>, <<2, 1>>, <<3, 1>>}
AnyRemoval == Threads \X (Tasks \cup {-1})
Gpu == {<<FALSE, TRUE>>}
AnyKind == {<<FALSE, TRUE>>, <<TRUE, TRUE>>, <<TRUE, FALSE>>}
SomeTasks == (SUBSET Tasks) \ {{}}
NoInjection == [t \in Threads |-> {}]
GpuOomsOfFirst == [t \in Threads |-> IF t = 1 THEN {[hit |-> 1, skip |-> 1, filter |-> "GPU"]} ELSE {}]
CudfOfFirst == [t \in Threads |-> IF t = 1 THEN {1} ELSE {}]
=============================================================================
