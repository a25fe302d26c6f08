----------------------------- MODULE JobsProofs -----------------------------
(***************************************************************************)
(* Theorems about Jobs, for every set of instances, tasks and requests and *)
(* every number of retries.  It implements TaskLifecycle, whose theorems   *)
(* thereby hold of it too.                                                 *)
(***************************************************************************)
EXTENDS Jobs, EndProofs

\* A step of the retry loop is a step of HandleTask, of GitHub, or none.
LEMMA TriggerRefines ==
    ASSUME NEW t \in Task, TriggerStep(t)
    PROVE  RunnerStep(t) \/ GitHubStep(t) \/ UNCHANGED vars
  <1> USE DEF TriggerStep, RunnerStep, GitHubStep, HandleTask, TriggerReturns, vars, runnerVars
  <1>1. CASE SendRequest(t)
    BY <1>1 DEF SendRequest
  <1>2. CASE BackoffCancelled(t) \/ Answered(t) \/ Refused(t) \/ GiveUp(t)
    BY <1>2 DEF BackoffCancelled, Answered, Refused, GiveUp
  <1>3. CASE Retry(t)
    BY <1>3 DEF Retry
  <1>4. QED BY <1>1, <1>2, <1>3 DEF Trigger

\* Every step is one of TaskLifecycle, or invisible there.
LEMMA JobsStepRefines == [JobsNext]_jobVars => [Next]_vars
  <1> SUFFICES ASSUME [JobsNext]_jobVars PROVE [Next]_vars
    OBVIOUS
  <1> USE DEF Next
  <1>1. ASSUME NEW t \in Task, TriggerStep(t) PROVE [Next]_vars
    BY <1>1, TriggerRefines
  <1>2. ASSUME NEW t \in Task, HandleStep(t) PROVE [Next]_vars
    BY <1>2 DEF HandleStep, RunnerStep, HandleTask
  <1>3. ASSUME NEW t \in Task, ProxyStep(t) PROVE [Next]_vars
    BY <1>3 DEF ProxyStep
  <1>4. ASSUME NEW j \in Job, JobStep(j) PROVE [Next]_vars
    BY <1>4 DEF JobStep, JobStarts, vars
  <1>5. ASSUME NEW r \in Request, RequestStep(r) PROVE [Next]_vars
    BY <1>5 DEF RequestStep
  <1>6. ASSUME NEW r \in Request, NEW j \in Job, CallStep(r, j) PROVE [Next]_vars
    BY <1>6 DEF CallStep
  <1>7. CASE OtherStep
    BY <1>7 DEF OtherStep
  <1>8. CASE UNCHANGED jobVars
    BY <1>8 DEF jobVars
  <1>9. QED BY <1>1, <1>2, <1>3, <1>4, <1>5, <1>6, <1>7, <1>8 DEF JobsNext

\* The retry loop, the jobs and the proxy are a refinement of TaskLifecycle: its
\* Trigger with two outcomes and its requests out of nowhere stand for them.
THEOREM JobsImplementLifecycle == JobsSpec => Spec
  <1>1. JobsInit => Init
    BY DEF JobsInit
  <1>2. QED BY <1>1, JobsStepRefines, PTL DEF JobsSpec, Spec

-----------------------------------------------------------------------------
(* The jobs *)

\* The attempts still to come have not been sent.
AttemptInv == /\ DispatchTypeOK
              /\ \A t \in Task, k \in 0 .. MaxRetries :
                    k > attempt[t] \/ (k = attempt[t] /\ tpc[t] = "ready")
                        => github[<<t, k>>] = "none"

\* A request in flight is made by a job.
CallerInv == /\ caller \in [Request -> Job \union {NoJob}]
             /\ \A r \in Request : req[r].pc # "free" => caller[r] \in Job

JobsInv == TypeInv /\ AttemptInv /\ CallerInv /\ ProxyTypeOK /\ runs \subseteq Job

\* The loop sends each attempt once and in turn.
LEMMA TriggerKeeps ==
    ASSUME JobsInv, NEW t \in Task, TriggerStep(t)
    PROVE  AttemptInv'
  <1> USE DEF TriggerStep, JobsInv, AttemptInv, DispatchTypeOK, Job, Current
  <1>1. /\ MaxRetries \in Nat
        /\ Current(t) \in Job /\ Current(t) = <<t, attempt[t]>>
        /\ attempt[t] \in 0 .. MaxRetries
    BY RetriesAssumption
  <1>2. /\ tpc' \in [Task -> {"ready", "waiting", "returned"}]
        /\ attempt' \in [Task -> 0 .. MaxRetries]
        /\ github' \in [Job -> {"none", "sent", "started", "refused"}]
    <2>1. CASE SendRequest(t)
      BY <1>1, <2>1 DEF SendRequest
    <2>2. CASE Retry(t)
      <3>1. attempt[t] + 1 \in 0 .. MaxRetries
        BY <1>1, <2>2 DEF Retry
      <3>2. QED BY <1>1, <2>2, <3>1 DEF Retry
    <2>3. CASE Refused(t)
      BY <1>1, <2>3 DEF Refused, Return
    <2>4. CASE BackoffCancelled(t) \/ Answered(t) \/ GiveUp(t)
      BY <1>1, <2>4 DEF BackoffCancelled, Answered, GiveUp, Return
    <2>5. QED BY <2>1, <2>2, <2>3, <2>4 DEF Trigger
  <1>3. \A u \in Task : u # t => attempt'[u] = attempt[u] /\ tpc'[u] = tpc[u]
    BY <1>1 DEF Trigger, SendRequest, BackoffCancelled, Answered, Refused, Retry, GiveUp, Return
  <1>4. \A j \in Job : j # Current(t) => github'[j] = github[j]
    BY <1>1 DEF Trigger, SendRequest, BackoffCancelled, Answered, Refused, Retry, GiveUp
  <1>5. ASSUME NEW k \in 0 .. MaxRetries, k > attempt'[t] \/ (k = attempt'[t] /\ tpc'[t] = "ready")
        PROVE  github'[<<t, k>>] = "none"
    <2>1. CASE SendRequest(t)
      <3>1. attempt'[t] = attempt[t] /\ tpc'[t] = "waiting"
        BY <2>1 DEF SendRequest
      <3>2. <<t, k>> \in Job /\ <<t, k>> # Current(t) /\ k > attempt[t]
        BY <1>1, <1>5, <3>1
      <3>3. QED BY <1>4, <3>2
    <2>2. CASE Retry(t)
      <3>1. attempt'[t] = attempt[t] + 1 /\ github' = github
        BY <2>2 DEF Retry
      <3>2. k > attempt[t]
        BY <1>1, <1>5, <3>1
      <3>3. QED BY <3>1, <3>2
    <2>3. CASE BackoffCancelled(t) \/ Answered(t) \/ Refused(t) \/ GiveUp(t)
      <3>1. attempt'[t] = attempt[t] /\ tpc'[t] = "returned"
        BY <2>3 DEF BackoffCancelled, Answered, Refused, GiveUp, Return
      <3>2. <<t, k>> \in Job /\ <<t, k>> # Current(t) /\ k > attempt[t]
        BY <1>1, <1>5, <3>1
      <3>3. QED BY <1>4, <3>2
    <2>4. QED BY <2>1, <2>2, <2>3 DEF Trigger
  <1>6. ASSUME NEW u \in Task, NEW k \in 0 .. MaxRetries, u # t,
               k > attempt'[u] \/ (k = attempt'[u] /\ tpc'[u] = "ready")
        PROVE  github'[<<u, k>>] = "none"
    <2>1. <<u, k>> \in Job /\ <<u, k>> # Current(t)
      BY <1>1, <1>6
    <2>2. github[<<u, k>>] = "none"
      BY <1>3, <1>6
    <2>3. QED BY <1>4, <2>1, <2>2
  <1>7. QED BY <1>2, <1>5, <1>6

\* FetchTask registers tokens of a task, for a session of it, and runs a job.
LEMMA RequestKeeps ==
    ASSUME JobsInv, NEW r \in Request, RequestStep(r)
    PROVE  CallerInv' /\ ProxyTypeOK' /\ runs' \subseteq Job
  <1>1. /\ req \in [Request -> [pc : RequestPC, kind : Kind, tok : Token \union {NoToken},
                                task : Task \union {NoTask}]]
        /\ \A s \in Request : s # r => req'[s] = req[s]
        /\ req'[r].pc # "free" => req[r].pc # "free" /\ req'[r] # NoRequest
    <2>1. req \in [Request -> [pc : RequestPC, kind : Kind, tok : Token \union {NoToken},
                                task : Task \union {NoTask}]]
      BY DEF JobsInv, TypeInv, SouthInv, SouthTypeOK
    <2>2. Handle(r)
      BY DEF RequestStep, SouthStep
    <2>3. req[r].pc # "free"
      BY <2>2 DEF Handle, LookUp, TouchSession, GetReg, Consume, CreateSession, LinkSession,
                  RenewSession, MarkRegistered, Deliver, ForwardOk, ForwardError, SetTerminal,
                  CloseDone, EndSession, RemoveTask, At
    <2>4. \A s \in Request : s # r => req'[s] = req[s]
      BY <2>1, <2>2 DEF Handle, LookUp, TouchSession, GetReg, Consume, CreateSession,
                  LinkSession, RenewSession, MarkRegistered, Deliver, ForwardOk, ForwardError,
                  SetTerminal, CloseDone, EndSession, RemoveTask, Step, Answer, Authenticated
    <2>5. QED BY <2>1, <2>3, <2>4 DEF NoRequest
  <1>2. CallerInv'
    BY <1>1 DEF RequestStep, JobsInv, CallerInv
  <1>3. CASE At(r, "deliver")
    <2>1. req[r].task \in Task /\ req[r].tok \in Token /\ caller[r] \in Job
      BY <1>3 DEF At, JobsInv, TypeInv, SouthInv, CallerInv
    <2>2. QED
      BY <1>2, <1>3, <2>1 DEF RequestStep, FetchTask, PutTaskTokens, JobsInv, ProxyTypeOK
  <1>4. CASE ~At(r, "deliver")
    BY <1>2, <1>4 DEF RequestStep, JobsInv, ProxyTypeOK, proxyVars
  <1>5. QED BY <1>3, <1>4

\* No step breaks the invariant of the jobs.
LEMMA JobsInvNext == JobsInv /\ [JobsNext]_jobVars => JobsInv'
  <1> SUFFICES ASSUME JobsInv, [JobsNext]_jobVars PROVE JobsInv'
    OBVIOUS
  <1>1. TypeInv'
    BY JobsStepRefines, TypeInvNext DEF JobsInv
  <1> DEFINE South == CallerInv' /\ ProxyTypeOK' /\ runs' \subseteq Job
  <1> SUFFICES AttemptInv' /\ South
    BY <1>1 DEF JobsInv
  <1>2. ASSUME UNCHANGED <<entries, outdated, caller, runs, req>> PROVE South
    BY <1>2 DEF JobsInv, CallerInv, ProxyTypeOK
  <1>3. ASSUME UNCHANGED dispatchVars PROVE AttemptInv'
    BY <1>3 DEF JobsInv, AttemptInv, DispatchTypeOK, dispatchVars
  <1>4. ASSUME NEW t \in Task, TriggerStep(t) PROVE AttemptInv' /\ South
    BY <1>2, <1>4, TriggerKeeps DEF TriggerStep, southDetail, proxyVars, southVars
  <1>5. ASSUME NEW t \in Task, HandleStep(t) PROVE AttemptInv' /\ South
    BY <1>2, <1>3, <1>5 DEF HandleStep, southDetail, proxyVars, southVars
  <1>6. ASSUME NEW t \in Task, ProxyStep(t) PROVE AttemptInv' /\ South
    <2>1. AttemptInv'
      BY <1>3, <1>6 DEF ProxyStep
    <2>2. South
      BY <1>6 DEF ProxyStep, Evict, EntryOutlivesTTL, vars, southVars, JobsInv, CallerInv,
                  ProxyTypeOK
    <2>3. QED BY <2>1, <2>2
  <1>7. ASSUME NEW j \in Job, JobStep(j) PROVE AttemptInv' /\ South
    <2>1. /\ UNCHANGED <<tpc, attempt>>
          /\ github[j] = "sent"
          /\ github' = [github EXCEPT ![j] = "started"]
      BY <1>7 DEF JobStep, JobStarts
    <2>2. AttemptInv'
      BY <2>1 DEF JobsInv, AttemptInv, DispatchTypeOK
    <2>3. QED
      BY <1>2, <1>7, <2>2 DEF JobStep, southDetail, proxyVars, southVars
  <1>8. ASSUME NEW r \in Request, RequestStep(r) PROVE AttemptInv' /\ South
    BY <1>3, <1>8, RequestKeeps DEF RequestStep
  <1>9. ASSUME NEW r \in Request, NEW j \in Job, CallStep(r, j) PROVE AttemptInv' /\ South
    <2>1. \A s \in Request : s # r => req'[s] = req[s]
      BY <1>9 DEF CallStep, ArriveStep, Arrive, JobsInv, TypeInv, SouthInv, SouthTypeOK
    <2>2. South
      BY <1>9, <2>1 DEF CallStep, JobsInv, CallerInv, ProxyTypeOK, proxyVars
    <2>3. QED
      BY <1>3, <1>9, <2>2 DEF CallStep
  <1>10. CASE OtherStep
    <2>1. UNCHANGED req
      BY <1>10 DEF OtherStep, PollerStep, TTLStep, SilenceStep, ReaperStep, SignalStep, DrainStep,
                   southVars
    <2>2. QED BY <1>2, <1>3, <1>10, <2>1 DEF OtherStep, southDetail, proxyVars
  <1>11. CASE UNCHANGED jobVars
    BY <1>2, <1>3, <1>11 DEF jobVars, vars, southDetail, proxyVars, southVars
  <1>12. QED
    BY <1>4, <1>5, <1>6, <1>7, <1>8, <1>9, <1>10, <1>11 DEF JobsNext

\* At the start no attempt was made and no job runs.
LEMMA JobsInvInit == JobsInit => JobsInv
  <1> SUFFICES ASSUME JobsInit PROVE JobsInv
    OBVIOUS
  <1>1. AttemptInv
    BY RetriesAssumption
       DEF JobsInit, DispatchInit, AttemptInv, DispatchTypeOK, Job
  <1>2. CallerInv /\ ProxyTypeOK /\ runs \subseteq Job
    BY DEF JobsInit, Init, SouthInit, NoRequest, ProxyInit, CallerInv, ProxyTypeOK
  <1>3. QED BY <1>1, <1>2, TypeInvInit DEF JobsInit, JobsInv

\* The invariant of the jobs holds throughout.
LEMMA JobsKept == JobsSpec => []JobsInv
  BY JobsInvInit, JobsInvNext, PTL DEF JobsSpec

\* The retry loop never counts past MaxRetries, a request to the handler is
\* always some job's, and an entry of the registry always some session's.
THEOREM JobsTyped == JobsSpec => []JobsTypeOK
  <1>1. JobsInv => JobsTypeOK
    BY DEF JobsInv, AttemptInv, CallerInv, JobsTypeOK
  <1>2. QED BY <1>1, JobsKept, PTL

-----------------------------------------------------------------------------
(* The proxy *)

\* A request carries a token of the task its caller was started for.
CallerOwn == \A r \in Request : req[r].pc # "free" => caller[r][1] = req[r].tok[1]

\* The session that t was fetched by, and what became of it or of its entry.
Routed(t, a) == /\ TokenOf(a, t)
                /\ a[1] = t
                /\ t \in outdated \/ Acknowledged(t) \/ a \notin Live \/ entries[t] = a

RegistryInv == /\ \A t \in Task : entries[t] # NoToken => entries[t][1] = t
               /\ \A j \in runs : \E a \in Token : Routed(j[1], a)

RouteInv == JobsInv /\ DrainInv /\ CallerOwn /\ RegistryInv

\* An ended session never comes back.
LEMMA StaysGone ==
    ASSUME UniqueIds, DrainInv, [Next]_vars, NEW t \in Task, NEW a \in Token, TokenOf(a, t), a[1] = t
    PROVE  TokenOf(a, t)' /\ (a \notin Live => a \notin Live')
  <1> USE DEF DrainInv, EndInv, WakerInv
  <1>1. TokenOf(a, t)'
    BY TokenKept
  <1>2. ASSUME NEW r \in Request, SouthStep(r), a \notin Live PROVE a \notin Live'
    <2>1. OneRequest(r)
      BY <1>2, OneRequestKinds
    <2>2. CASE CreateSession(r)
      <3>1. /\ req[r].pc = "create" /\ req[r].task # t
            /\ req[r].task = req[r].tok[1]
            /\ sessions' = [sessions EXCEPT ![NewToken(r)] = req[r].task]
        BY <2>2, NoTokenYet DEF CreateSession, InsertSession, At, TokenInv, OwnerInv
      <3>2. NewToken(r) # a
        BY <2>2, <3>1, NewTokenFacts DEF TokenInv, TypeInv
      <3>3. QED
        BY <1>2, <3>1, <3>2 DEF Live, TokenInv, TypeInv, SessInv, SessTypeOK
    <2>3. CASE ~CreateSession(r)
      <3>1. \A tok \in Token : sessions'[tok] \in {sessions[tok], NoTask}
        BY <2>1, <2>3 DEF OneRequest, Consume, LinkSession, EndSession, RemoveSession, RemoveTask,
                          sessVars, TokenInv, TypeInv, SessInv, SessTypeOK
      <3>2. QED BY <1>2, <3>1 DEF Live
    <2>4. QED BY <2>2, <2>3
  <1>3. ASSUME NEW r \in Request, ArriveStep(r), a \notin Live PROVE a \notin Live'
    BY <1>3 DEF ArriveStep, Arrive, sessVars, Live
  <1>4. CASE ~ \E r \in Request : ArriveStep(r) \/ SouthStep(r)
    <2>1. StoreStep
      BY <1>4, OtherSteps
    <2>2. QED BY <1>1, <2>1 DEF StoreStep, Live
  <1>5. QED BY <1>1, <1>2, <1>3, <1>4

\* What is routed stays so while its entry stays, or goes for a good reason.
LEMMA RoutedNext ==
    ASSUME UniqueIds, DrainInv, [Next]_vars, NEW t \in Task, NEW a \in Token, Routed(t, a),
           t \in outdated => t \in outdated',
           entries'[t] = entries[t] \/ entries'[t] = a \/ ~Routable(t)
    PROVE  Routed(t, a)'
  <1>1. TokenOf(a, t)' /\ (a \notin Live => a \notin Live') /\ (Acknowledged(t) => Acknowledged(t)')
    BY StaysGone, Growth DEF Routed, DrainInv, ReportInv, Acknowledged
  <1>2. CASE entries[t] = a /\ ~Routable(t)
    <2>1. status[t] = "Terminal" => Acknowledged(t)
      BY DEF DrainInv, CountInv
    <2>2. a # NoToken
      BY TokenAssumption
    <2>3. QED BY <1>1, <1>2, <2>1, <2>2 DEF Routed, Routable, Live
  <1>3. QED BY <1>1, <1>2 DEF Routed

\* Fetching, eviction and everything else keep the registry as it should be.
LEMMA RegistryNext ==
    ASSUME UniqueIds, RouteInv, [JobsNext]_jobVars
    PROVE  CallerOwn' /\ RegistryInv'
  <1> USE DEF RouteInv
  <1>1. [Next]_vars
    BY JobsStepRefines
  <1>2. /\ entries \in [Task -> Token \union {NoToken}] /\ runs \subseteq Job
        /\ \A j \in Job : j[1] \in Task
        /\ req \in [Request -> [pc : RequestPC, kind : Kind, tok : Token \union {NoToken},
                                task : Task \union {NoTask}]]
        /\ caller \in [Request -> Job \union {NoJob}]
    BY DEF JobsInv, ProxyTypeOK, Job, TypeInv, SouthInv, SouthTypeOK, CallerInv
  <1>3. ASSUME UNCHANGED <<entries, outdated, runs>> PROVE RegistryInv'
    <2>1. \A t \in Task, a \in Token : Routed(t, a) => Routed(t, a)'
      BY <1>1, <1>3, RoutedNext
    <2>2. QED BY <1>2, <1>3, <2>1 DEF RegistryInv
  <1>4. ASSUME UNCHANGED <<req, caller>> PROVE CallerOwn'
    BY <1>4 DEF CallerOwn
  <1>5. ASSUME NEW r \in Request, RequestStep(r) PROVE CallerOwn' /\ RegistryInv'
    <2>1. /\ OneRequest(r)
          /\ req[r].pc # "free"
          /\ req'[r].tok[1] = req[r].tok[1] \/ req'[r] = NoRequest
      <3>1. OneRequest(r)
        BY <1>5, OneRequestKinds DEF RequestStep, DrainInv, EndInv, WakerInv
      <3>2. Handle(r)
        BY <1>5 DEF RequestStep, SouthStep
      <3>3. req[r].pc # "free"
        BY <3>2 DEF Handle, LookUp, TouchSession, GetReg, Consume, CreateSession, LinkSession,
                    RenewSession, MarkRegistered, Deliver, ForwardOk, ForwardError, SetTerminal,
                    CloseDone, EndSession, RemoveTask, At
      <3>4. ASSUME NEW t, Authenticated(r, t) PROVE req'[r].tok = req[r].tok \/ req'[r] = NoRequest
        BY <1>2, <3>4 DEF Authenticated
      <3>5. CASE CreateSession(r)
        <4>1. NewToken(r)[1] = req[r].tok[1]
          BY <3>5, NewTokenFacts DEF JobsInv, TypeInv
        <4>2. QED BY <1>2, <3>1, <3>3, <3>5, <4>1 DEF CreateSession
      <3>6. CASE ~CreateSession(r)
        BY <1>2, <3>1, <3>2, <3>3, <3>4, <3>6
           DEF Handle, LookUp, TouchSession, GetReg, Consume, LinkSession, RenewSession,
               MarkRegistered, Deliver, ForwardOk, ForwardError, SetTerminal, CloseDone,
               EndSession, RemoveTask, Step, Answer
      <3>7. QED BY <3>5, <3>6
    <2>2. \A s \in Request : s # r => req'[s] = req[s]
      BY <1>2, <2>1 DEF OneRequest
    <2>3. CallerOwn'
      <3>1. CASE req'[r] = NoRequest
        BY <1>2, <1>5, <2>2, <3>1 DEF RequestStep, CallerOwn, NoRequest
      <3>2. CASE req'[r] # NoRequest
        BY <1>2, <1>5, <2>1, <2>2, <3>2 DEF RequestStep, CallerOwn
      <3>3. QED BY <3>1, <3>2
    <2>4. CASE At(r, "deliver")
      <3>0. PICK t \in Task, a \in Token : t = req[r].task /\ a = req[r].tok
        BY <2>4 DEF At, JobsInv, TypeInv, SouthInv
      <3>1. t = a[1] /\ TokenOf(a, t) /\ caller[r] \in Job
        BY <2>4, <3>0 DEF At, JobsInv, CallerInv, TypeInv, SouthInv, DrainInv, EndInv, OneTokenInv, Acts,
                    Acting, WakerInv, TokenInv, OwnerInv
      <3>2. /\ entries' = [entries EXCEPT ![t] = a]
            /\ outdated' = outdated \ {t}
            /\ runs' = runs \union {caller[r]}
        BY <1>5, <2>4, <3>0 DEF RequestStep, FetchTask, PutTaskTokens
      <3>3. caller[r][1] = t
        BY <2>1, <3>0, <3>1 DEF CallerOwn
      <3>4. Routed(t, a)'
        <4>1. TokenOf(a, t)'
          BY <1>1, <3>1, StaysGone
        <4>2. entries'[t] = a
          BY <1>2, <3>1, <3>2
        <4>3. QED BY <3>1, <4>1, <4>2 DEF Routed
      <3>5. ASSUME NEW u \in Task, u # t, NEW b \in Token, Routed(u, b) PROVE Routed(u, b)'
        <4>1. entries'[u] = entries[u] /\ (u \in outdated => u \in outdated')
          BY <1>2, <3>1, <3>2, <3>5
        <4>2. QED BY <1>1, <3>5, <4>1, RoutedNext
      <3>6. \A u \in Task : entries'[u] # NoToken => entries'[u][1] = u
        BY <1>2, <3>1, <3>2 DEF RegistryInv
      <3>7. ASSUME NEW j \in runs' PROVE \E b \in Token : Routed(j[1], b)'
        <4>1. CASE j[1] = t
          BY <3>1, <3>4, <4>1
        <4>2. CASE j[1] # t
          <5>1. j \in runs /\ j[1] \in Task
            BY <1>2, <3>2, <3>3, <4>2
          <5>2. PICK b \in Token : Routed(j[1], b)
            BY <5>1 DEF RegistryInv
          <5>3. QED BY <3>5, <4>2, <5>1, <5>2
        <4>3. QED BY <4>1, <4>2
      <3>8. QED BY <2>3, <3>6, <3>7 DEF RegistryInv
    <2>5. CASE ~At(r, "deliver")
      BY <1>3, <1>5, <2>3, <2>5 DEF RequestStep, proxyVars
    <2>6. QED BY <2>4, <2>5
  <1>6. ASSUME NEW r \in Request, NEW j \in Job, CallStep(r, j) PROVE CallerOwn' /\ RegistryInv'
    <2>1. \A s \in Request : s # r => req'[s] = req[s]
      BY <1>2, <1>6 DEF CallStep, ArriveStep, Arrive
    <2>2. CallerOwn'
      BY <1>2, <1>6, <2>1 DEF CallStep, CallerOwn
    <2>3. QED BY <1>3, <1>6, <2>2 DEF CallStep, proxyVars
  <1>7. ASSUME NEW t \in Task, ProxyStep(t) PROVE CallerOwn' /\ RegistryInv'
    <2>1. /\ UNCHANGED <<req, caller, runs>>
          /\ \A u \in Task : entries'[u] = entries[u] \/ (entries'[u] = NoToken /\ ~Routable(u))
          /\ outdated \subseteq outdated'
      BY <1>2, <1>7 DEF ProxyStep, Evict, EntryOutlivesTTL, vars, southVars
    <2>2. \A u \in Task, a \in Token : Routed(u, a) => Routed(u, a)'
      BY <1>1, <2>1, RoutedNext
    <2>3. RegistryInv'
      BY <1>2, <2>1, <2>2 DEF RegistryInv
    <2>4. QED BY <1>4, <2>1, <2>3
  <1>8. CASE \/ \E t \in Task : TriggerStep(t) \/ HandleStep(t)
             \/ \E j \in Job : JobStep(j)
             \/ OtherStep
             \/ UNCHANGED jobVars
    <2>1. UNCHANGED <<req, caller, runs, entries, outdated>>
      BY <1>8 DEF TriggerStep, HandleStep, JobStep, OtherStep, jobVars, vars, southDetail, proxyVars,
                  southVars, PollerStep, TTLStep, SilenceStep, ReaperStep, SignalStep, DrainStep
    <2>2. QED BY <1>3, <1>4, <2>1
  <1>9. QED BY <1>5, <1>6, <1>7, <1>8 DEF JobsNext

\* The invariant of the registry holds throughout.
LEMMA RoutesKept == ASSUME UniqueIds PROVE JobsSpec => []RouteInv
  <1>1. JobsInit => RouteInv
    <2> SUFFICES ASSUME JobsInit PROVE RouteInv
      OBVIOUS
    <2>1. JobsInv /\ DrainInv
      BY JobsInvInit, DrainInvInit DEF JobsInit
    <2>2. CallerOwn /\ RegistryInv
      BY DEF JobsInit, Init, SouthInit, NoRequest, ProxyInit, CallerOwn, RegistryInv
    <2>3. QED BY <2>1, <2>2 DEF RouteInv
  <1>2. RouteInv /\ [JobsNext]_jobVars => RouteInv'
    BY JobsInvNext, JobsStepRefines, DrainInvNext, RegistryNext DEF RouteInv
  <1>3. QED BY <1>1, <1>2, PTL DEF JobsSpec

\* From the answer of FetchTask to the result of its runner the tokens of a job at
\* work lead to its own instance, unless their entry has got too old and there is
\* more than one instance.
THEOREM WorkersAreRouted == ASSUME UniqueIds PROVE JobsSpec => []WorkingJobsAreRouted
  <1>1. RouteInv => WorkingJobsAreRouted
    <2> SUFFICES ASSUME RouteInv, NEW j \in runs, SessionsOf(j[1]) # {}, ~Acknowledged(j[1])
                 PROVE  Routable(j[1]) \/ j[1] \in outdated
      BY DEF WorkingJobsAreRouted, Destination, Acknowledged
    <2> DEFINE t == j[1]
    <2>1. t \in Task
      BY DEF RouteInv, JobsInv, Job
    <2>2. PICK a \in Token : Routed(t, a)
      BY DEF RouteInv, RegistryInv
    <2>3. a \in Live
      <3>1. PICK b \in SessionsOf(t) : b \in Token /\ TokenOf(b, t)
        BY DEF RouteInv, DrainInv, EndInv, OneTokenInv, SessionsOf, Live
      <3>2. a = b
        BY <2>1, <2>2, <3>1, OneToken DEF Routed, RouteInv, DrainInv, EndInv, WakerInv
      <3>3. QED BY <3>1, <3>2 DEF SessionsOf
    <2>4. status[t] # "Terminal"
      BY <2>1 DEF RouteInv, DrainInv, CountInv
    <2>5. a # NoToken
      BY TokenAssumption
    <2>6. QED BY <2>2, <2>3, <2>4, <2>5 DEF Routed, Routable, Live
  <1>2. QED BY <1>1, RoutesKept, PTL

\* The registry does not route the tokens of an ended task, whatever its status says,
\* so where several instances are configured they lead to none.
THEOREM EndedAreNotRouted == ASSUME UniqueIds PROVE JobsSpec => []EndedTasksAreNotRouted
  <1>1. RouteInv /\ NothingLeftBehind => EndedTasksAreNotRouted
    <2> SUFFICES ASSUME RouteInv, NothingLeftBehind, NEW t \in done, ~Busy(t), Routable(t)
                 PROVE  FALSE
      BY DEF EndedTasksAreNotRouted, Destination
    <2>1. /\ t \in Task
          /\ entries[t] \in Live /\ entries[t][1] = t
      BY DEF RouteInv, RegistryInv, JobsInv, TypeInv, SharedInv, StoreTypeOK, ProxyTypeOK, Routable,
             Live
    <2>2. entries[t] \in SessionsOf(t)
      BY <2>1 DEF SessionsOf, RouteInv, DrainInv, EndInv, WakerInv, TokenInv, OwnerInv,
                  SessionRoutesToOwner
    <2>3. QED BY <2>1, <2>2 DEF NothingLeftBehind
  <1>2. QED BY <1>1, RoutesKept, NothingStays, JobsImplementLifecycle, PTL
=============================================================================
