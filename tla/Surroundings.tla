---------------------------- MODULE Surroundings ----------------------------
(***************************************************************************)
(* What the daemon's parts share with the world around them: the tasks a   *)
(* Forgejo instance hands out, the GitHub Actions jobs it asked for,       *)
(* the terminal reports Forgejo was sent, the clock of the registration    *)
(* tokens, and the daemon context cancelled by the first SIGINT/SIGTERM.   *)
(***************************************************************************)
CONSTANTS Instance,     \* the configured Forgejo instances (one poller each)
          Task,         \* the tasks the instances may hand out, each one a TaskCtx
          Id,           \* the task ids Forgejo uses
          InstOf,       \* the instance that owns a task
          IdOf,         \* the id its Forgejo gave a task
          Expirable,    \* the tasks whose registration token may outlive its TTL
          NoTask, NoId, NoToken

ASSUME TaskAssumption == /\ InstOf \in [Task -> Instance]
                         /\ IdOf \in [Task -> Id]
                         /\ Expirable \subseteq Task
                         /\ Instance \intersect Task = {}
                         /\ NoTask \notin Task
                         /\ NoId \notin Id

VARIABLES assigned,     \* tasks Forgejo has handed out
          launched,     \* tasks for which GitHub was asked to start a job
          reported,     \* terminal reports made to Forgejo for each task
          expired,      \* tasks older than their RegTokenTTL
          stop          \* the daemon context is cancelled

surroundVars == <<assigned, launched, reported, expired, stop>>

\* The internal runner's own result, acknowledged by Forgejo, and the failure
\* the daemon reports by itself (issued, with or without an answer).
Report == {"result", "failure"}

SurroundTypeOK == /\ assigned \subseteq Task
                  /\ launched \subseteq Task
                  /\ reported \in [Task -> SUBSET Report]
                  /\ expired \subseteq Task
                  /\ stop \in BOOLEAN

SurroundInit == /\ assigned = {}
                /\ launched = {}
                /\ reported = [t \in Task |-> {}]
                /\ expired = {}
                /\ stop = FALSE

\* FailureUpdateRequest, sent with ForwardUpdateTask under the daemon context: when
\* that is cancelled the call may be aborted before anything has left the process.
ReportFailure(t) == \/ reported' = [reported EXCEPT ![t] = @ \union {"failure"}]
                    \/ stop /\ UNCHANGED reported

ReportResult(t) == reported' = [reported EXCEPT ![t] = @ \union {"result"}]

\* Time passes: the registration token of t outlives its TTL.
TokenOutlivesTTL(t) == /\ t \in (Expirable \intersect assigned) \ expired
                       /\ expired' = expired \union {t}
                       /\ UNCHANGED <<assigned, launched, reported, stop>>
=============================================================================
