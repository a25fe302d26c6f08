-------------------------------- MODULE Jobs --------------------------------
(***************************************************************************)
(* TaskLifecycle in detail: Trigger is the retry loop of Dispatch, each    *)
(* request to the south handler is made by one of the jobs GitHub started, *)
(* and what a job fetches with FetchTask it uses at the proxy.             *)
(***************************************************************************)
EXTENDS TaskLifecycle, Dispatch, Proxy

CONSTANTS JobKind,      \* a bound: the RPCs the runners make
          NoJob

ASSUME JobAssumption == /\ JobKind \subseteq Kind
                        /\ NoJob \notin Job

VARIABLES caller,       \* the job whose runner makes a request
          runs          \* jobs that FetchTask has handed their task

southDetail == <<proxyVars, caller, runs>>
jobVars == <<vars, dispatchVars, southDetail>>

JobsTypeOK == /\ DispatchTypeOK
              /\ ProxyTypeOK
              /\ caller \in [Request -> Job \union {NoJob}]
              /\ runs \subseteq Job

JobsInit == /\ Init
            /\ DispatchInit
            /\ ProxyInit
            /\ caller = [r \in Request |-> NoJob]
            /\ runs = {}

-----------------------------------------------------------------------------
(* TaskLifecycle's steps, with their details *)

TriggerStep(t) == /\ Trigger(t)
                  /\ UNCHANGED <<sessVars, southVars, reaperVars, shutVars, southDetail>>

HandleStep(t) == /\ AroundTrigger(t)
                 /\ UNCHANGED <<southVars, reaperVars, shutVars, dispatchVars, southDetail>>

JobStep(j) == /\ JobStarts(j)
              /\ UNCHANGED <<southVars, reaperVars, shutVars, southDetail>>

\* The runner of job j, once started, calls with a token of its own task.
CallStep(r, j) == /\ j \in Started
                  /\ ArriveStep(r)
                  /\ req'[r].tok[1] = j[1]
                  /\ req'[r].kind \in JobKind
                  /\ caller' = [caller EXCEPT ![r] = j]
                  /\ UNCHANGED <<dispatchVars, proxyVars, runs>>

\* FetchTask registers the tokens of the task before it answers with it.
FetchTask(r) == /\ Deliver(r)
                /\ PutTaskTokens(req[r].task, req[r].tok)
                /\ runs' = runs \union {caller[r]}

RequestStep(r) == /\ SouthStep(r)
                  /\ IF At(r, "deliver") THEN FetchTask(r) ELSE UNCHANGED <<proxyVars, runs>>
                  /\ caller' = IF req'[r] = NoRequest THEN [caller EXCEPT ![r] = NoJob] ELSE caller
                  /\ UNCHANGED dispatchVars

\* Requests at the proxy.
ProxyStep(t) == /\ \/ Accepting /\ Evict(t)
                   \/ EntryOutlivesTTL(t)
                /\ UNCHANGED <<vars, dispatchVars, caller, runs>>

\* Everything else is as it is in TaskLifecycle.
OtherStep == /\ \/ \E p \in Instance : PollerStep(p)
                \/ \E t \in Task : TTLStep(t)
                \/ \E tok \in Token : SilenceStep(tok)
                \/ ReaperStep
                \/ SignalStep
                \/ DrainStep
             /\ UNCHANGED <<dispatchVars, southDetail>>

JobsNext == \/ \E t \in Task : TriggerStep(t) \/ HandleStep(t) \/ ProxyStep(t)
            \/ \E j \in Job : JobStep(j)
            \/ \E r \in Request : RequestStep(r) \/ \E j \in Job : CallStep(r, j)
            \/ OtherStep

JobsSpec == JobsInit /\ [][JobsNext]_jobVars

-----------------------------------------------------------------------------
(* Properties *)

\* A job at work can reach its Forgejo: from the answer of FetchTask to the result
\* of the runner ServeHTTP sends its tokens to the instance of its task, in
\* whatever order dispatch, registration and fetch report back (proxy.go: an entry
\* dies with its task or its session), unless the entry has reached the age limit
\* meanwhile and more than one instance is configured.
WorkingJobsAreRouted ==
    \A j \in runs : LET t == j[1] IN
        SessionsOf(t) # {} /\ "result" \notin reported[t] =>
            Destination(t) = {InstOf[t]} \/ t \in outdated

\* Where several instances are configured, the tokens of an ended task lead to none
\* of them any more, although a late MarkDispatched may have taken its status back
\* from Terminal.  (With a single instance OnlyInstance routes whatever token comes.)
EndedTasksAreNotRouted ==
    OnlyInstance = {} => \A t \in done : ~Busy(t) => Destination(t) = {}

\* A task is handed to one job (handler.go: "the task is returned on the first
\* call. Subsequent calls return an empty response").
TaskRunsOnce == \A j, k \in runs : j[1] = k[1] => j = k
=============================================================================
