---------------------------- MODULE ReportProofs ----------------------------
(***************************************************************************)
(* Theorem about TaskLifecycle: no task ends in silence, for every set of  *)
(* instances, tasks (whatever ids they share) and requests.                *)
(***************************************************************************)
EXTENDS LifecycleProofs

\* A report was made, unless a shutdown may have aborted it.
Reported(t) == stop \/ reported[t] # {}

Acknowledged(t) == "result" \in reported[t]

\* Whoever is about to end a task, or has ended it, has seen to a report.
EndedInv == \A t \in done : Reported(t)

HandlerInv ==
    \A r \in Request : req[r].pc \in {"setTerminal", "markDone"} => Acknowledged(req[r].task)

CollectorInv == gpc = "finish" => Reported(reaping)

HandleTaskInv ==
    \A t \in Task : /\ phase[t] \in {"unlink", "giveBack", "drop"} => Reported(t)
                    /\ phase[t] \in ShutPhases => stop
                    /\ phase[t] = "exit" => Reported(t)

ReportInv == TypeInv /\ EndedInv /\ HandlerInv /\ CollectorInv /\ HandleTaskInv

\* Reports and the signal are never taken back.
Kept == /\ \A t \in Task : Reported(t) => Reported(t)'
        /\ \A t \in Task : Acknowledged(t) => Acknowledged(t)'
        /\ stop => stop'

\* A step that ends nothing and starts no ending keeps the invariants.
LEMMA KeptKeeps ==
    ASSUME ReportInv, Kept, UNCHANGED <<done, req, gpc, reaping, phase>>
    PROVE  EndedInv' /\ HandlerInv' /\ CollectorInv' /\ HandleTaskInv'
  <1>1. EndedInv' /\ HandleTaskInv'
    BY DEF ReportInv, TypeInv, SharedInv, StoreTypeOK, Kept, EndedInv, HandleTaskInv
  <1>2. \A r \in Request : req[r].pc \in {"setTerminal", "markDone"} => req[r].task \in Task
    BY DEF ReportInv, TypeInv, SouthInv
  <1>3. HandlerInv'
    BY <1>2 DEF ReportInv, Kept, HandlerInv
  <1>4. CollectorInv'
    BY DEF ReportInv, TypeInv, ReaperInv, Kept, CollectorInv
  <1>5. QED BY <1>1, <1>3, <1>4

\* A request ends a task only once Forgejo has acknowledged its result.
LEMMA RequestReports ==
    ASSUME ReportInv, NEW r \in Request, SouthStep(r)
    PROVE  EndedInv' /\ HandlerInv' /\ CollectorInv' /\ HandleTaskInv'
  <1> DEFINE t == req[r].task
  <1>1. /\ Handle(r)
        /\ UNCHANGED <<gpc, reaping, phase>>
        /\ req \in [Request -> [pc : RequestPC, kind : Kind, tok : Token \union {NoToken},
                                task : Task \union {NoTask}]]
        /\ \A s \in Request : req[s].pc \in {"forward", "setTerminal", "markDone"}
                                  => req[s].task \in Task
        /\ done \subseteq Task /\ reported \in [Task -> SUBSET Report]
    BY DEF SouthStep, runnerVars, reaperVars, ReportInv, TypeInv, SouthInv, SouthTypeOK,
           SharedInv, StoreTypeOK, SurroundTypeOK
  <1>2. ASSUME Kept, UNCHANGED done,
               \A s \in Request : s # r => req'[s] = req[s],
               req'[r].pc \notin {"setTerminal", "markDone"} \/ (req'[r].task = t /\ Acknowledged(t)' /\ t \in Task)
        PROVE  EndedInv' /\ HandlerInv' /\ CollectorInv' /\ HandleTaskInv'
    <2>1. EndedInv' /\ HandleTaskInv'
      BY <1>1, <1>2 DEF ReportInv, Kept, EndedInv, HandleTaskInv
    <2>2. HandlerInv'
      BY <1>1, <1>2 DEF ReportInv, Kept, HandlerInv
    <2>3. CollectorInv'
      BY <1>1, <1>2 DEF ReportInv, TypeInv, ReaperInv, Kept, CollectorInv
    <2>4. QED BY <2>1, <2>2, <2>3
  <1> USE DEF At, Step, Answer, NoRequest, ctxVars, sessVars, surroundVars, Kept, Reported, Acknowledged
  <1>3. CASE LookUp(r) \/ GetReg(r) \/ Consume(r) \/ CreateSession(r) \/ LinkSession(r)
             \/ RenewSession(r) \/ Deliver(r) \/ EndSession(r) \/ RemoveTask(r)
    <2>1. UNCHANGED <<done, reported, stop>>
      BY <1>3 DEF LookUp, GetReg, Consume, CreateSession, LinkSession, SetSessionToken,
                  RenewSession, Deliver, EndSession, RemoveTask
    <2>2. /\ req'[r].pc \notin {"setTerminal", "markDone"}
          /\ \A s \in Request : s # r => req'[s] = req[s]
      BY <1>1, <1>3 DEF LookUp, GetReg, Consume, CreateSession, LinkSession, RenewSession,
                        Deliver, EndSession, RemoveTask
    <2>3. QED BY <1>2, <2>1, <2>2
  <1>4. CASE TouchSession(r) \/ MarkRegistered(r)
    <2>1. UNCHANGED <<done, reported, stop>>
      BY <1>4 DEF TouchSession, MarkRegistered, MarkRunnerRegistered
    <2>2. Authenticated(r, t) \/ Answer(r)
      BY <1>4 DEF TouchSession, MarkRegistered
    <2>3. /\ req'[r].pc \notin {"setTerminal", "markDone"}
          /\ \A s \in Request : s # r => req'[s] = req[s]
      <3>1. CASE Authenticated(r, t)
        BY <1>1, <3>1 DEF Authenticated
      <3>2. CASE Answer(r)
        BY <1>1, <3>2
      <3>3. QED BY <2>2, <3>1, <3>2
    <2>4. QED BY <1>2, <2>1, <2>3
  <1>5. CASE ForwardOk(r)
    <2>1. t \in Task /\ UNCHANGED <<done, stop>>
      BY <1>1, <1>5 DEF ForwardOk
    <2>2. Acknowledged(t)' /\ \A u \in Task : reported[u] \subseteq reported'[u]
      BY <1>1, <1>5, <2>1 DEF ForwardOk, ReportResult
    <2>3. /\ req'[r].task = t
          /\ \A s \in Request : s # r => req'[s] = req[s]
      BY <1>1, <1>5 DEF ForwardOk
    <2>4. QED BY <1>2, <2>1, <2>2, <2>3
  <1>6. CASE ForwardError(r)
    <2>1. UNCHANGED <<done, stop>> /\ t \in Task
      BY <1>1, <1>6 DEF ForwardError
    <2>2. \A u \in Task : reported[u] \subseteq reported'[u]
      BY <1>1, <1>6, <2>1 DEF ForwardError, ReportResult
    <2>3. /\ req'[r].pc \notin {"setTerminal", "markDone"}
          /\ \A s \in Request : s # r => req'[s] = req[s]
      BY <1>1, <1>6 DEF ForwardError
    <2>4. QED BY <1>2, <2>1, <2>2, <2>3
  <1>7. CASE SetTerminal(r)
    <2>1. UNCHANGED <<done, reported, stop>> /\ t \in Task /\ Acknowledged(t)
      BY <1>1, <1>7 DEF SetTerminal, SetStatus, ReportInv, HandlerInv
    <2>2. req'[r].task = t /\ \A s \in Request : s # r => req'[s] = req[s]
      BY <1>1, <1>7 DEF SetTerminal
    <2>3. QED BY <1>2, <2>1, <2>2
  <1>8. CASE CloseDone(r)
    <2>1. /\ done' = done \union {t}
          /\ UNCHANGED <<reported, stop>> /\ t \in Task /\ Acknowledged(t)
          /\ req'[r].pc = "removeSession"
          /\ \A s \in Request : s # r => req'[s] = req[s]
      BY <1>1, <1>8 DEF CloseDone, MarkDone, ReportInv, HandlerInv
    <2>2. EndedInv' /\ HandleTaskInv'
      BY <1>1, <2>1 DEF ReportInv, EndedInv, HandleTaskInv
    <2>3. HandlerInv' /\ CollectorInv'
      BY <1>1, <2>1 DEF ReportInv, HandlerInv, CollectorInv
    <2>4. QED BY <2>2, <2>3
  <1>9. QED BY <1>1, <1>3, <1>4, <1>5, <1>6, <1>7, <1>8 DEF Handle

\* HandleTask gives a task up only after its report, or under a cancelled ctx.
LEMMA HandleTaskReports ==
    ASSUME ReportInv, NEW t \in Task, RunnerStep(t)
    PROVE  EndedInv' /\ HandlerInv' /\ CollectorInv' /\ HandleTaskInv'
  <1>1. /\ UNCHANGED <<done, req, gpc, reaping, stop>>
        /\ \A u \in Task : reported[u] \subseteq reported'[u]
    <2>1. CASE ReportsFailure(t)
      BY <2>1 DEF RunnerStep, ReportsFailure, ReportFailure, southVars, reaperVars,
                  ctxVars, ReportInv, TypeInv, SharedInv, SurroundTypeOK
    <2>2. CASE ~ReportsFailure(t)
      BY <2>2 DEF RunnerStep, HandleTask, TriggerReturns, AroundTrigger, Start, TriggerOk,
         TriggerFails, MarkDispatched, SetStatus, Finished, RunnerConnected, StartupTimeout,
         ShutdownUnregistered, ShutdownRegistered, Unlinks, GivesBack, Drops,
         southVars, reaperVars, ctxVars, surroundVars
    <2>3. QED BY <2>1, <2>2
  <1>kept. /\ \A u \in Task : Reported(u) => Reported(u)'
        /\ \A u \in Task : Acknowledged(u) => Acknowledged(u)'
    BY <1>1 DEF Reported, Acknowledged
  <1>2. /\ \A u \in Task : u # t => phase'[u] = phase[u]
        /\ phase'[t] \in {"unlink", "giveBack", "drop"} => Reported(t)'
        /\ phase'[t] \in ShutPhases => stop
        /\ phase'[t] = "exit" => Reported(t)'
    <2> USE DEF RunnerStep, Move, ShutPhases
    <2>1. phase \in [Task -> Phases] /\ reported \in [Task -> SUBSET Report]
      BY DEF ReportInv, TypeInv, RunnerTypeOK, SharedInv, SurroundTypeOK
    <2>2. CASE ReportsFailure(t)
      BY <2>1, <2>2 DEF ReportsFailure, ReportFailure, Reported
    <2>3. CASE Finished(t)
      <3>1. Reported(t)'
        BY <1>kept, <1>1, <2>3 DEF Finished, ReportInv, EndedInv
      <3>2. QED BY <2>1, <2>3, <3>1 DEF Finished
    <2>4. CASE Unlinks(t) \/ GivesBack(t) \/ Drops(t)
      <3>1. /\ phase[t] \in {"unlink", "giveBack", "drop"} => Reported(t)'
            /\ phase[t] \in {"sdUnlink", "sdDrop", "sdGiveBack"} => stop /\ Reported(t)'
        BY <1>kept, <1>1 DEF ReportInv, HandleTaskInv, Reported
      <3>2. QED BY <2>1, <2>4, <3>1 DEF Unlinks, GivesBack, Drops
    <2>5. CASE Start(t) \/ TriggerOk(t) \/ TriggerFails(t) \/ RunnerConnected(t)
               \/ StartupTimeout(t) \/ ShutdownUnregistered(t) \/ ShutdownRegistered(t)
      BY <2>1, <2>5 DEF Start, TriggerOk, TriggerFails, RunnerConnected, StartupTimeout,
                        ShutdownUnregistered, ShutdownRegistered
    <2>6. QED
      BY <2>2, <2>3, <2>4, <2>5 DEF HandleTask, TriggerReturns, AroundTrigger
  <1>3. HandleTaskInv'
    BY <1>kept, <1>1, <1>2 DEF ReportInv, HandleTaskInv
  <1>4. EndedInv' /\ HandlerInv' /\ CollectorInv'
    <2>1. done \subseteq Task /\ (gpc = "finish" => reaping \in Task)
      BY DEF ReportInv, TypeInv, SharedInv, StoreTypeOK, ReaperInv
    <2>2. \A r \in Request : req[r].pc \in {"setTerminal", "markDone"} => req[r].task \in Task
      BY DEF ReportInv, TypeInv, SouthInv
    <2>3. QED
      BY <1>kept, <1>1, <2>1, <2>2 DEF ReportInv, EndedInv, HandlerInv, CollectorInv
  <1>5. QED BY <1>3, <1>4

\* The collector reports the failure of a task before it ends it.
LEMMA CollectorReports ==
    ASSUME ReportInv, ReaperStep
    PROVE  EndedInv' /\ HandlerInv' /\ CollectorInv' /\ HandleTaskInv'
  <1>1. /\ UNCHANGED <<req, phase, stop>>
        /\ done \subseteq Task /\ reported \in [Task -> SUBSET Report]
        /\ \A r \in Request : req[r].pc \in {"setTerminal", "markDone"} => req[r].task \in Task
        /\ gpc = "finish" => reaping \in Task
    BY DEF ReaperStep, GCLoop, GCSnapshot, GCStop, GCInspect, GCSweep, GCExpire, GCReport,
           GCMarkDone, GCRemove, GCDone, surroundVars, southVars, runnerVars, ReportInv, TypeInv,
           SharedInv, StoreTypeOK, SurroundTypeOK, SouthInv, ReaperInv
  <1> USE DEF ReaperStep, ReportInv, EndedInv, HandlerInv, CollectorInv, HandleTaskInv, Reported, Acknowledged,
              ctxVars, surroundVars
  <1>2. CASE \E t \in Task : GCReport(t)
    BY <1>1, <1>2 DEF GCReport, ReportFailure
  <1>3. CASE GCMarkDone
    BY <1>1, <1>3 DEF GCMarkDone, MarkDone
  <1>4. CASE GCSnapshot \/ GCStop \/ (\E t \in Task : GCInspect(t)) \/ GCSweep \/ GCExpire
             \/ GCRemove \/ GCDone
    <2>1. UNCHANGED <<done, reported>> /\ gpc' # "finish"
      BY <1>4 DEF GCSnapshot, GCStop, GCInspect, GCSweep, GCExpire, GCRemove, GCDone
    <2>2. QED BY <1>1, <2>1
  <1>5. QED BY <1>2, <1>3, <1>4 DEF GCLoop

\* No step of the daemon ends a task in silence.
LEMMA ReportInvNext == ReportInv /\ [Next]_vars => ReportInv'
  <1> SUFFICES ASSUME ReportInv, [Next]_vars PROVE ReportInv'
    OBVIOUS
  <1> DEFINE Goal == EndedInv' /\ HandlerInv' /\ CollectorInv' /\ HandleTaskInv'
  <1>1. TypeInv'
    BY TypeInvNext DEF ReportInv
  <1> SUFFICES Goal
    BY <1>1 DEF ReportInv
  <1> USE KeptKeeps DEF Kept, Reported, Acknowledged, surroundVars, ctxVars, southVars, reaperVars, runnerVars
  <1>2. ASSUME NEW p \in Instance, PollerStep(p) PROVE Goal
    BY <1>2 DEF PollerStep, PollLoop, PollAcquire, PollCancelled, PollNothing, PollAgain,
                PollReceive, PollSend, PollDrop
  <1>3. ASSUME NEW t \in Task, RunnerStep(t) PROVE Goal
    BY <1>3, HandleTaskReports
  <1>4. ASSUME NEW t \in Task, GitHubStep(t) \/ TTLStep(t) PROVE Goal
    BY <1>4 DEF GitHubStep, AskGitHub, TTLStep, TokenOutlivesTTL
  <1>5. ASSUME NEW r \in Request, ArriveStep(r) PROVE Goal
    <2>1. PICK kind \in Kind, tok \in Token : Arrive(r, kind, tok)
      BY <1>5 DEF ArriveStep
    <2>2. /\ UNCHANGED <<done, reported, stop, gpc, reaping, phase>>
          /\ \A s \in Request : s # r => req'[s] = req[s]
          /\ req'[r].pc \in {"lookup", "getreg"}
      BY <1>5, <2>1 DEF ArriveStep, Arrive, ReportInv, TypeInv, SouthInv, SouthTypeOK
    <2>3. QED
      BY <2>2 DEF ReportInv, EndedInv, HandlerInv, CollectorInv, HandleTaskInv
  <1>6. ASSUME NEW r \in Request, SouthStep(r) PROVE Goal
    BY <1>6, RequestReports
  <1>7. ASSUME NEW tok \in Token, SilenceStep(tok) PROVE Goal
    BY <1>7 DEF SilenceStep
  <1>8. CASE ReaperStep
    BY <1>8, CollectorReports
  <1>9. CASE SignalStep \/ DrainStep
    BY <1>9 DEF SignalStep, Signal, DrainStep, Drain, CountSnapshot, CountStatus, CountResult,
                CountAgain
  <1>10. CASE UNCHANGED vars
    BY <1>10 DEF vars
  <1>11. QED
    BY <1>2, <1>3, <1>4, <1>5, <1>6, <1>7, <1>8, <1>9, <1>10 DEF Next

\* Nothing has ended at the start.
LEMMA ReportInvInit == Init => ReportInv
  <1> SUFFICES ASSUME Init PROVE ReportInv
    OBVIOUS
  <1>1. EndedInv /\ HandlerInv /\ CollectorInv /\ HandleTaskInv
    BY DEF Init, StoreInit, SouthInit, NoRequest, ReaperInit, RunnerInit, EndedInv, HandlerInv,
           CollectorInv, HandleTaskInv, ShutPhases
  <1>2. QED BY <1>1, TypeInvInit DEF ReportInv

\* While the daemon runs, HandleTask returns and the done channel is closed only
\* after Forgejo has the runner's result or was sent a failure, whichever of
\* HandleTask, the handler and the collector ends the task.
THEOREM NoSilentEnd == Spec => []FinishedMeansReported
  <1>1. ReportInv => FinishedMeansReported
    BY DEF ReportInv, EndedInv, HandleTaskInv, FinishedMeansReported, Reported
  <1>2. QED BY <1>1, ReportInvInit, ReportInvNext, PTL DEF Spec
=============================================================================
