----------------------------- MODULE Admission ------------------------------
(***************************************************************************)
(* What a registration token promises: it invites one runner to its task,  *)
(* which is admitted once, for one stretch of time, and only a runner that *)
(* was admitted has a result acknowledged.  No state is ever returned to.  *)
(***************************************************************************)
CONSTANT Task

VARIABLES access,       \* how far the admission to each task has got
          results       \* tasks for which Forgejo has a runner's result

admissionVars == <<access, results>>

Init == /\ access = [t \in Task |-> "closed"]
        /\ results = {}

\* A registration token is handed out for t.
Invite(t) == /\ access[t] = "closed"
             /\ access' = [access EXCEPT ![t] = "invited"]
             /\ UNCHANGED results

\* A runner presents it.
Admit(t) == /\ access[t] = "invited"
            /\ access' = [access EXCEPT ![t] = "admitted"]
            /\ UNCHANGED results

\* For some tasks at once the invitation is withdrawn or the stay is over.
Expel(S) == /\ \A t \in S : access[t] \in {"invited", "admitted"}
            /\ access' = [t \in Task |-> IF t \notin S THEN access[t]
                                         ELSE IF access[t] = "invited" THEN "void"
                                         ELSE "ended"]
            /\ UNCHANGED results

\* A result of the runner, which may still be on its way when its stay is over.
Result(t) == /\ access[t] \in {"admitted", "ended"}
             /\ results' = results \union {t}
             /\ UNCHANGED access

Next == \/ \E t \in Task : Invite(t) \/ Admit(t) \/ Result(t)
        \/ \E S \in SUBSET Task : Expel(S)

Spec == Init /\ [][Next]_admissionVars
=============================================================================
