------------------------------- MODULE MCTwo --------------------------------
(***************************************************************************)
(* Two Forgejo instances with one task each.  Every Forgejo numbers its    *)
(* tasks by itself, so the two ids may differ (OwnId) or not (SharedId).   *)
(***************************************************************************)
EXTENDS TaskLifecycle, TLC

CONSTANTS i1, i2, t1, t2, id

TwoInstances == {i1, i2}
TwoTasks == {t1, t2}
TwoInstOf == (t1 :> i1) @@ (t2 :> i2)
OwnId == [t \in Task |-> t]
SharedId == [t \in Task |-> id]
OneId == {id}
AllTasks == TwoTasks
NoTasks == {}
=============================================================================
