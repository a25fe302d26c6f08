------------------------------- MODULE MCJobs -------------------------------
(***************************************************************************)
(* A task of instance i1 whose Trigger may start several jobs, and an      *)
(* instance i2 that has no task to give.                                   *)
(***************************************************************************)
EXTENDS Jobs, TLC

CONSTANTS i1, i2, t1

OneInstance == {i1}
TwoInstances == {i1, i2}
OneTask == {t1}
InstanceOne == [t \in Task |-> i1]
OwnId == [t \in Task |-> t]
NoTasks == {}
=============================================================================
