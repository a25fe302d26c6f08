------------------------------- MODULE MCOne --------------------------------
(***************************************************************************)
(* One Forgejo instance; every task has an id of its own.                  *)
(***************************************************************************)
EXTENDS TaskLifecycle, TLC

CONSTANT i1

OneInstance == {i1}
OneInstOf == [t \in Task |-> i1]
OwnId == [t \in Task |-> t]
AllTasks == Task
NoTasks == {}
RequestSymmetry == Permutations(Request)
=============================================================================
