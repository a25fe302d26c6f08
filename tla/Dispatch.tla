------------------------------ MODULE Dispatch ------------------------------
(***************************************************************************)
(* internal/dispatch/github.go: Trigger, the loop that asks GitHub for a   *)
(* job and tries again after a server or network error, and the GitHub of  *)
(* the requests, which may start a job long after the client has stopped   *)
(* waiting for the answer.  The request of each attempt carries the same   *)
(* registration token: every job it starts presents itself as the runner   *)
(* of the task.                                                            *)
(***************************************************************************)
EXTENDS Runner

CONSTANT MaxRetries     \* defaultMaxRetries: retries after the first attempt

ASSUME RetriesAssumption == MaxRetries \in Nat

VARIABLES tpc,      \* where Trigger stands for each task
          attempt,  \* the attempt it is at
          github    \* what became of the request of each attempt

dispatchVars == <<tpc, attempt, github>>

\* The job an attempt may start.
Job == Task \X (0 .. MaxRetries)

DispatchTypeOK == /\ tpc \in [Task -> {"ready", "waiting", "returned"}]
                  /\ attempt \in [Task -> 0 .. MaxRetries]
                  /\ github \in [Job -> {"none", "sent", "started", "refused"}]

DispatchInit == /\ tpc = [t \in Task |-> "ready"]
                /\ attempt = [t \in Task |-> 0]
                /\ github = [j \in Job |-> "none"]

\* The jobs that exist.
Started == {j \in Job : github[j] = "started"}

Current(t) == <<t, attempt[t]>>

Return(t) == /\ tpc' = [tpc EXCEPT ![t] = "returned"]
             /\ UNCHANGED attempt

\* dispatch: the request leaves, after the backoff of a retry.
SendRequest(t) ==
    /\ phase[t] = "trigger"
    /\ tpc[t] = "ready"
    /\ tpc' = [tpc EXCEPT ![t] = "waiting"]
    /\ github' = [github EXCEPT ![Current(t)] = "sent"]
    /\ UNCHANGED attempt
    /\ IF t \in launched
       THEN UNCHANGED <<slotVars, storeVars, ctxVars, surroundVars, sessVars, pollerVars, phase>>
       ELSE AskGitHub(t)

\* ctx is done during the backoff: Trigger returns its error.
BackoffCancelled(t) ==
    /\ stop
    /\ tpc[t] = "ready"
    /\ attempt[t] > 0
    /\ TriggerFails(t)
    /\ Return(t)
    /\ UNCHANGED github

\* 204 No Content: GitHub has accepted the request, and that is all Trigger knows.
\* The job may have started already, may start later, or never.
Answered(t) ==
    /\ tpc[t] = "waiting"
    /\ TriggerOk(t)
    /\ Return(t)
    /\ UNCHANGED github

\* A 4xx is final and not retried.
Refused(t) ==
    /\ tpc[t] = "waiting"
    /\ github[Current(t)] = "sent"
    /\ TriggerFails(t)
    /\ Return(t)
    /\ github' = [github EXCEPT ![Current(t)] = "refused"]

\* Mutation of Retry: one attempt too many.
RetryOnceMore(t) ==
    /\ phase[t] = "trigger"
    /\ tpc[t] = "waiting"
    /\ attempt[t] <= MaxRetries
    /\ tpc' = [tpc EXCEPT ![t] = "ready"]
    /\ attempt' = [attempt EXCEPT ![t] = @ + 1]
    /\ UNCHANGED <<github, slotVars, storeVars, ctxVars, surroundVars, sessVars, pollerVars, phase>>

\* A 5xx, a network error, the client's 30 s or a cancelled ctx, whatever GitHub
\* does with the request: the loop goes on ...
Retry(t) ==
    /\ phase[t] = "trigger"
    /\ tpc[t] = "waiting"
    /\ attempt[t] < MaxRetries
    /\ tpc' = [tpc EXCEPT ![t] = "ready"]
    /\ attempt' = [attempt EXCEPT ![t] = @ + 1]
    /\ UNCHANGED <<github, slotVars, storeVars, ctxVars, surroundVars, sessVars, pollerVars, phase>>

\* ... or, after the last attempt, gives up.
GiveUp(t) ==
    /\ tpc[t] = "waiting"
    /\ attempt[t] = MaxRetries
    /\ TriggerFails(t)
    /\ Return(t)
    /\ UNCHANGED github

Trigger(t) == \/ SendRequest(t)
              \/ BackoffCancelled(t)
              \/ Answered(t)
              \/ Refused(t)
              \/ Retry(t)
              \/ GiveUp(t)

\* GitHub takes a request up and starts its job, however late.
JobStarts(j) ==
    /\ github[j] = "sent"
    /\ github' = [github EXCEPT ![j] = "started"]
    /\ UNCHANGED <<tpc, attempt, slotVars, storeVars, ctxVars, surroundVars, sessVars,
                   pollerVars, runnerVars>>
=============================================================================
