-------------------------- MODULE LifecycleProofs ---------------------------
(***************************************************************************)
(* Theorems about TaskLifecycle, for every set of instances, tasks and     *)
(* requests and every capacity.                                            *)
(***************************************************************************)
EXTENDS TaskLifecycle, FiniteSetTheorems, TLAPS

-----------------------------------------------------------------------------
(* Type correctness.  TypeOK alone is not inductive: the null values may   *)
(* occur only where nothing reads them.                                    *)

\* What all components share.
SharedInv == SurroundTypeOK /\ StoreTypeOK

\* Only live sessions age.
SessInv == SessTypeOK /\ stale \subseteq Live

\* A poller in its send holds a task.
PollInv == /\ PollerTypeOK
           /\ \A p \in Instance : ppc[p] = "send" => offer[p] \in Task

\* A request in flight carries a token, and past its lookups a task.
SouthInv == /\ SouthTypeOK
            /\ \A r \in Request :
                  /\ req[r].pc # "free" => req[r].tok \in Token
                  /\ req[r].pc \notin {"free", "lookup", "getreg"} => req[r].task \in Task

\* The collector ends a task only when it has one.
ReaperInv == /\ ReaperTypeOK
             /\ gpc \in {"finish", "remove"} => reaping \in Task

TypeInv == /\ SlotTypeOK
           /\ SharedInv
           /\ SessInv
           /\ PollInv
           /\ RunnerTypeOK
           /\ SouthInv
           /\ ReaperInv
           /\ ShutTypeOK

\* The steps of a poller.
LEMMA PollerTypes ==
    ASSUME SlotTypeOK, SharedInv, PollInv, NEW p \in Instance, PollLoop(p)
    PROVE  SlotTypeOK' /\ SharedInv' /\ PollInv'
  <1> USE CapacityAssumption, TaskAssumption, TokenAssumption
      DEF SlotTypeOK, SharedInv, SurroundTypeOK, StoreTypeOK, PollInv,
          PollerTypeOK, surroundVars, storeVars, ctxVars
  <1>1. CASE PollAcquire(p)
    BY <1>1 DEF PollAcquire, Acquire, Goto, PollerPC
  <1>2. CASE PollCancelled(p)
    BY <1>2 DEF PollCancelled, Goto, PollerPC
  <1>3. CASE PollNothing(p)
    BY <1>3 DEF PollNothing, Release, Goto, PollerPC
  <1>4. CASE PollAgain(p)
    BY <1>4 DEF PollAgain, Goto, PollerPC
  <1>5. CASE \E t \in Task : PollReceive(p, t)
    BY <1>5 DEF PollReceive, PutPending, Goto, PollerPC
  <1>6. CASE PollSend(p)
    BY <1>6 DEF PollSend, Goto, PollerPC
  <1>7. CASE PollDrop(p)
    BY <1>7 DEF PollDrop, Release, Goto, PollerPC
  <1>8. QED BY <1>1, <1>2, <1>3, <1>4, <1>5, <1>6, <1>7 DEF PollLoop

\* The steps of HandleTask.
LEMMA RunnerTypes ==
    ASSUME SlotTypeOK, SharedInv, SessInv, PollInv, RunnerTypeOK, NEW t \in Task, HandleTask(t)
    PROVE  SlotTypeOK' /\ SharedInv' /\ SessInv' /\ PollInv' /\ RunnerTypeOK'
  <1> USE CapacityAssumption, TaskAssumption, TokenAssumption
      DEF SlotTypeOK, SharedInv, SurroundTypeOK, StoreTypeOK, SessInv,
          SessTypeOK, Live, PollInv, PollerTypeOK, RunnerTypeOK, slotVars,
          surroundVars, storeVars, ctxVars, sessVars, pollerVars,
          runnerVars, Move, Phases, FailPhases, ShutPhases
  <1>1. CASE Start(t)
    BY <1>1 DEF Start
  <1>2. CASE TriggerOk(t)
    BY <1>2 DEF TriggerOk, MarkDispatched, SetStatus, Status
  <1>3. CASE TriggerFails(t)
    BY <1>3 DEF TriggerFails
  <1>4. CASE Finished(t)
    BY <1>4 DEF Finished, Release
  <1>5. CASE RunnerConnected(t)
    BY <1>5 DEF RunnerConnected
  <1>6. CASE StartupTimeout(t)
    BY <1>6 DEF StartupTimeout
  <1>7. CASE ShutdownUnregistered(t)
    BY <1>7 DEF ShutdownUnregistered
  <1>8. CASE ShutdownRegistered(t)
    BY <1>8 DEF ShutdownRegistered, Release
  <1>9. CASE ReportsFailure(t)
    BY <1>9 DEF ReportsFailure, ReportFailure, Report
  <1>10. CASE Unlinks(t)
    BY <1>10 DEF Unlinks, RemoveSession
  <1>11. CASE GivesBack(t)
    BY <1>11 DEF GivesBack, Release
  <1>12. CASE Drops(t)
    BY <1>12 DEF Drops, Remove, RemoveIds
  <1>13. QED BY <1>1, <1>2, <1>3, <1>4, <1>5, <1>6, <1>7, <1>8, <1>9, <1>10,
             <1>11, <1>12 DEF HandleTask, TriggerReturns, AroundTrigger

\* What SouthInv says of one request.
LEMMA RequestFacts ==
    ASSUME SouthInv, NEW r \in Request
    PROVE  /\ req[r].pc # "free" => req[r].tok \in Token
           /\ req[r].pc \notin {"free", "lookup", "getreg"} => req[r].task \in Task
           /\ req[r].pc # "free" => req[r].tok[1] \in Task
  BY DEF SouthInv, SouthTypeOK, Token

\* The token of a new session belongs to the registration token that opens it.
LEMMA NewTokenFacts ==
    ASSUME SessInv, SouthInv, NEW r \in Request, CreateSession(r)
    PROVE  /\ NewToken(r) \in Token
           /\ NewToken(r)[1] = req[r].tok[1]
           /\ req[r].kind # "Register" => NewToken(r) = req[r].tok
           /\ opened[req[r].tok[1]] + 1 \in 0 .. MaxSessions
           /\ opened' = [opened EXCEPT ![req[r].tok[1]] = @ + 1]
  <1> DEFINE u == req[r].tok[1]
  <1>1. u \in Task /\ req[r].tok \in Token
    BY RequestFacts DEF CreateSession, At
  <1>2. NewToken(r)[1] = u /\ (req[r].kind # "Register" => NewToken(r) = req[r].tok)
    BY DEF NewToken, FreshToken
  <1>3. opened[u] < MaxSessions /\ opened' = [opened EXCEPT ![u] = @ + 1]
    BY <1>2 DEF CreateSession, InsertSession
  <1>4. opened[u] + 1 \in 0 .. MaxSessions
    BY <1>1, <1>3, SessionsAssumption DEF SessInv, SessTypeOK
  <1>5. <<u, opened[u] + 1>> \in Token
    BY <1>1, <1>4 DEF Token
  <1>6. NewToken(r) \in Token
    BY <1>1, <1>5 DEF NewToken, FreshToken
  <1>7. QED BY <1>2, <1>3, <1>4, <1>6

\* The ways a request moves on, as far as req is concerned.
LEMMA RequestSteps ==
    ASSUME SouthInv, NEW r \in Request, NEW pc \in RequestPC, NEW t \in Task \union {NoTask},
           \/ Answer(r)
           \/ req[r].pc # "free" /\ t \in Task /\ Authenticated(r, t)
           \/ /\ req[r].pc # "free" /\ (pc \in {"free", "lookup", "getreg"} \/ t \in Task)
              /\ req' = [req EXCEPT ![r].pc = pc, ![r].task = t]
           \/ /\ req[r].pc # "free"
              /\ pc \in {"free", "lookup", "getreg"} \/ req[r].task \in Task
              /\ Step(r, pc)
    PROVE  SouthInv'
  <1>1. CASE Answer(r)
    BY <1>1 DEF SouthInv, SouthTypeOK, Answer, NoRequest, RequestPC, Kind
  <1>2. CASE req[r].pc # "free" /\ t \in Task /\ Authenticated(r, t)
    <2>1. CASE req[r].kind \in {"Fetch", "Terminal"}
      <3> DEFINE next == IF req[r].kind = "Fetch" THEN "deliver" ELSE "forward"
                 q == [req[r] EXCEPT !.pc = next, !.task = t]
      <3>1. /\ q \in [pc : RequestPC, kind : Kind,
                      tok : Token \union {NoToken}, task : Task \union {NoTask}]
            /\ q.tok \in Token
            /\ q.task \in Task
        BY <1>2 DEF SouthInv, SouthTypeOK, RequestPC
      <3>2. req' = [req EXCEPT ![r] = q]
        BY <1>2, <2>1 DEF Authenticated
      <3> HIDE DEF q
      <3>3. QED BY <3>1, <3>2 DEF SouthInv, SouthTypeOK
    <2>2. CASE req[r].kind \notin {"Fetch", "Terminal"}
      BY <1>2, <2>2 DEF SouthInv, SouthTypeOK, Authenticated, NoRequest, RequestPC, Kind
    <2>3. QED BY <2>1, <2>2
  <1>3. CASE /\ req[r].pc # "free" /\ (pc \in {"free", "lookup", "getreg"} \/ t \in Task)
             /\ req' = [req EXCEPT ![r].pc = pc, ![r].task = t]
    BY <1>3 DEF SouthInv, SouthTypeOK
  <1>4. CASE /\ req[r].pc # "free"
             /\ pc \in {"free", "lookup", "getreg"} \/ req[r].task \in Task
             /\ Step(r, pc)
    BY <1>4 DEF SouthInv, SouthTypeOK, Step
  <1>5. QED BY <1>1, <1>2, <1>3, <1>4

\* The steps of a request: its own control ...
LEMMA SouthControlTypes ==
    ASSUME SharedInv, SessInv, SouthInv, NEW r \in Request, Handle(r)
    PROVE  SouthInv'
  <1> USE RequestFacts, RequestSteps DEF At, RequestPC
  <1>1. CASE LookUp(r)
    <2> DEFINE t == sessions[req[r].tok]
    <2>1. t \in Task \union {NoTask}
      BY <1>1 DEF LookUp, SessInv, SessTypeOK
    <2>2. req' = [req EXCEPT ![r].pc = IF t # NoTask THEN "touch" ELSE "getreg", ![r].task = t]
      BY <1>1 DEF LookUp
    <2> HIDE DEF t
    <2>3. CASE t = NoTask
      BY <1>1, <2>1, <2>2, <2>3 DEF LookUp
    <2>4. CASE t # NoTask
      BY <1>1, <2>1, <2>2, <2>4 DEF LookUp
    <2>5. QED BY <2>3, <2>4
  <1>2. CASE TouchSession(r)
    BY <1>2, TaskAssumption DEF TouchSession
  <1>3. CASE GetReg(r)
    <2> DEFINE t == IF req[r].tok = RegToken(req[r].tok[1]) THEN GetByRegToken(req[r].tok[1]) ELSE NoTask
    <2>1. \/ t \in Task /\ req' = [req EXCEPT ![r].pc = "consume", ![r].task = t]
          \/ Answer(r)
      BY <1>3 DEF GetReg
    <2> HIDE DEF t
    <2>2. QED BY <1>3, <2>1 DEF GetReg
  <1>4. CASE Consume(r)
    BY <1>4 DEF Consume
  <1>5. CASE CreateSession(r)
    <2>1. NewToken(r) \in Token
      BY ONLY SessInv, SouthInv, r \in Request, <1>5, NewTokenFacts
    <2>2. req[r].pc = "create" /\ req[r].task \in Task
      BY <1>5 DEF CreateSession
    <2>3. req' = [req EXCEPT ![r].pc = "link", ![r].tok = NewToken(r)]
      BY <1>5 DEF CreateSession
    <2>4. SouthTypeOK'
      <3>1. [req[r] EXCEPT !.pc = "link", !.tok = NewToken(r)]
                \in [pc : RequestPC, kind : Kind, tok : Token \union {NoToken},
                     task : Task \union {NoTask}]
        BY ONLY SouthInv, r \in Request, <2>1 DEF SouthInv, SouthTypeOK, RequestPC
      <3>2. req' = [req EXCEPT ![r] = [req[r] EXCEPT !.pc = "link", !.tok = NewToken(r)]]
        BY ONLY SouthInv, r \in Request, <2>3 DEF SouthInv, SouthTypeOK
      <3>3. QED BY ONLY SouthInv, r \in Request, <3>1, <3>2 DEF SouthInv, SouthTypeOK
    <2>5. /\ req'[r].pc = "link" /\ req'[r].tok = NewToken(r) /\ req'[r].task = req[r].task
          /\ \A q \in Request \ {r} : req'[q] = req[q]
      BY ONLY SouthInv, r \in Request, <2>3 DEF SouthInv, SouthTypeOK
    <2>6. QED BY ONLY SouthInv, r \in Request, <2>1, <2>2, <2>4, <2>5 DEF SouthInv
  <1>6. CASE LinkSession(r)
    BY <1>6 DEF LinkSession
  <1>7. CASE RenewSession(r)
    BY <1>7 DEF RenewSession
  <1>8. CASE MarkRegistered(r)
    BY <1>8 DEF MarkRegistered
  <1>9. CASE ForwardOk(r)
    BY <1>9 DEF ForwardOk
  <1>10. CASE ForwardError(r)
    BY <1>10 DEF ForwardError
  <1>11. CASE SetTerminal(r)
    BY <1>11 DEF SetTerminal
  <1>12. CASE CloseDone(r)
    BY <1>12 DEF CloseDone
  <1>13. CASE EndSession(r)
    BY <1>13 DEF EndSession
  <1>14. CASE RemoveTask(r)
    BY <1>14 DEF RemoveTask
  <1>15. CASE Deliver(r)
    BY <1>15 DEF Deliver
  <1>16. QED BY <1>1, <1>2, <1>3, <1>4, <1>5, <1>6, <1>7, <1>8, <1>9, <1>10,
             <1>11, <1>12, <1>13, <1>14, <1>15 DEF Handle

\* ... and what it does to the state it shares.
LEMMA SouthDataTypes ==
    ASSUME SharedInv, SessInv, SouthInv, NEW r \in Request, Handle(r)
    PROVE  SharedInv' /\ SessInv'
  <1> USE TaskAssumption, RequestFacts
      DEF SharedInv, SurroundTypeOK, StoreTypeOK, SessInv, SessTypeOK, Live,
          surroundVars, storeVars, ctxVars, sessVars, At
  <1>1. CASE LookUp(r)
    BY <1>1 DEF LookUp
  <1>2. CASE TouchSession(r)
    BY <1>2 DEF TouchSession, Touch
  <1>3. CASE GetReg(r)
    BY <1>3 DEF GetReg
  <1>4. CASE Consume(r)
    BY <1>4 DEF Consume, MarkRegTokenConsumed
  <1>5. CASE CreateSession(r)
    <2>1. /\ NewToken(r) \in Token
          /\ opened[req[r].tok[1]] + 1 \in 0 .. MaxSessions
          /\ opened' = [opened EXCEPT ![req[r].tok[1]] = @ + 1]
      BY <1>5, NewTokenFacts
    <2>2. req[r].task \in Task /\ req[r].tok[1] \in Task
      BY <1>5 DEF CreateSession
    <2>3. QED BY <1>5, <2>1, <2>2 DEF CreateSession, InsertSession
  <1>6. CASE LinkSession(r)
    <2>1. req[r].tok \in Token /\ req[r].task \in Task
      BY <1>6 DEF LinkSession
    <2>2. QED BY <1>6, <2>1 DEF LinkSession, SetSessionToken
  <1>7. CASE RenewSession(r)
    BY <1>7 DEF RenewSession, Touch
  <1>8. CASE MarkRegistered(r)
    BY <1>8 DEF MarkRegistered, MarkRunnerRegistered, Status
  <1>9. CASE ForwardOk(r)
    BY <1>9 DEF ForwardOk, ReportResult, Report
  <1>10. CASE ForwardError(r)
    BY <1>10 DEF ForwardError, ReportResult, Report
  <1>11. CASE SetTerminal(r)
    BY <1>11 DEF SetTerminal, SetStatus, Status
  <1>12. CASE CloseDone(r)
    BY <1>12 DEF CloseDone, MarkDone
  <1>13. CASE EndSession(r)
    BY <1>13 DEF EndSession, RemoveSession
  <1>14. CASE RemoveTask(r)
    BY <1>14 DEF RemoveTask, Remove, RemoveIds
  <1>15. CASE Deliver(r)
    BY <1>15 DEF Deliver
  <1>16. QED BY <1>1, <1>2, <1>3, <1>4, <1>5, <1>6, <1>7, <1>8, <1>9, <1>10,
             <1>11, <1>12, <1>13, <1>14, <1>15 DEF Handle

\* A request arrives.
LEMMA ArriveTypes ==
    ASSUME SharedInv, SessInv, SouthInv, NEW r \in Request, NEW kind \in Kind, NEW tok \in Token,
           Arrive(r, kind, tok)
    PROVE  SharedInv' /\ SessInv' /\ SouthInv'
  BY DEF SharedInv, SurroundTypeOK, StoreTypeOK, SessInv, SessTypeOK, Live, SouthInv, SouthTypeOK,
         surroundVars, storeVars, ctxVars, sessVars, Arrive, At, RequestPC

\* The steps of the collector.
LEMMA ReaperTypes ==
    ASSUME SharedInv, SessInv, ReaperInv, GCLoop
    PROVE  SharedInv' /\ SessInv' /\ ReaperInv'
  <1> USE CapacityAssumption, TaskAssumption, TokenAssumption
      DEF SharedInv, SurroundTypeOK, StoreTypeOK, SessInv, SessTypeOK, Live,
          ReaperInv, ReaperTypeOK, surroundVars, storeVars, ctxVars,
          sessVars
  <1>1. CASE GCSnapshot
    BY <1>1 DEF GCSnapshot, Stored
  <1>2. CASE GCStop
    BY <1>2 DEF GCStop
  <1>3. CASE \E t \in Task : GCInspect(t)
    BY <1>3 DEF GCInspect
  <1>4. CASE GCSweep
    BY <1>4 DEF GCSweep, RemoveIds
  <1>5. CASE GCExpire
    BY <1>5 DEF GCExpire, ExpireStale
  <1>6. CASE \E t \in Task : GCReport(t)
    BY <1>6 DEF GCReport, ReportFailure, Report
  <1>7. CASE GCMarkDone
    BY <1>7 DEF GCMarkDone, MarkDone
  <1>8. CASE GCRemove
    BY <1>8 DEF GCRemove, Remove, RemoveIds
  <1>9. CASE GCDone
    BY <1>9 DEF GCDone
  <1>10. QED BY <1>1, <1>2, <1>3, <1>4, <1>5, <1>6, <1>7, <1>8, <1>9 DEF GCLoop

\* The steps of the shutdown sequence.
LEMMA ShutTypes ==
    ASSUME SharedInv, ShutTypeOK, Signal \/ Drain
    PROVE  SharedInv' /\ ShutTypeOK'
  BY DEF SharedInv, SurroundTypeOK, StoreTypeOK, ShutTypeOK, surroundVars, storeVars, ctxVars,
         Signal, Drain, CountSnapshot, CountStatus, CountResult, CountAgain, Stored

\* The steps of the world around the daemon.
LEMMA WorldTypes ==
    ASSUME SharedInv, SessInv,
           \/ \E t \in Task : TTLStep(t) \/ GitHubStep(t)
           \/ \E tok \in Token : SilenceStep(tok)
    PROVE  SharedInv' /\ SessInv'
  BY DEF SharedInv, SurroundTypeOK, StoreTypeOK, SessInv, SessTypeOK, Live,
         surroundVars, storeVars, ctxVars, sessVars,
         TTLStep, TokenOutlivesTTL, GitHubStep, AskGitHub, SilenceStep, SessionAges

\* A component keeps the types of the variables it leaves alone.
LEMMA FrameTypes ==
    ASSUME TypeInv
    PROVE  /\ UNCHANGED slotVars => SlotTypeOK'
           /\ UNCHANGED sessVars => SessInv'
           /\ UNCHANGED pollerVars => PollInv'
           /\ UNCHANGED runnerVars => RunnerTypeOK'
           /\ UNCHANGED southVars => SouthInv'
           /\ UNCHANGED reaperVars => ReaperInv'
           /\ UNCHANGED shutVars => ShutTypeOK'
           /\ UNCHANGED <<surroundVars, storeVars, ctxVars>> => SharedInv'
  <1> USE DEF TypeInv
  <1>1. UNCHANGED slotVars => SlotTypeOK'
    BY DEF SlotTypeOK, slotVars
  <1>2. UNCHANGED sessVars => SessInv'
    BY DEF SessInv, SessTypeOK, Live, sessVars
  <1>3. UNCHANGED pollerVars => PollInv'
    BY DEF PollInv, PollerTypeOK, pollerVars
  <1>4. UNCHANGED runnerVars => RunnerTypeOK'
    BY DEF RunnerTypeOK, runnerVars
  <1>5. UNCHANGED southVars => SouthInv'
    BY DEF SouthInv, SouthTypeOK, southVars
  <1>6. UNCHANGED reaperVars => ReaperInv'
    BY DEF ReaperInv, ReaperTypeOK, reaperVars
  <1>7. UNCHANGED shutVars => ShutTypeOK'
    BY DEF ShutTypeOK, shutVars
  <1>8. UNCHANGED <<surroundVars, storeVars, ctxVars>> => SharedInv'
    BY DEF SharedInv, SurroundTypeOK, StoreTypeOK, surroundVars, storeVars, ctxVars
  <1>9. QED BY <1>1, <1>2, <1>3, <1>4, <1>5, <1>6, <1>7, <1>8

\* The daemon starts with every variable well typed.
LEMMA TypeInvInit == Init => TypeInv
  <1> SUFFICES ASSUME Init PROVE TypeInv
    OBVIOUS
  <1> USE CapacityAssumption, TaskAssumption, TokenAssumption DEF Init
  <1>1. SlotTypeOK
    BY DEF SlotInit, SlotTypeOK
  <1>2. SharedInv
    BY DEF SurroundInit, StoreInit, SharedInv, SurroundTypeOK, StoreTypeOK, Report, Status
  <1>3. SessInv
    BY SessionsAssumption DEF SessInit, SessInv, SessTypeOK
  <1>4. PollInv
    BY DEF PollerInit, PollInv, PollerTypeOK, PollerPC
  <1>5. RunnerTypeOK
    BY DEF RunnerInit, RunnerTypeOK, Phases
  <1>6. SouthInv
    BY DEF SouthInit, SouthInv, SouthTypeOK, NoRequest, RequestPC, Kind
  <1>7. ReaperInv /\ ShutTypeOK
    BY DEF ReaperInit, ReaperInv, ReaperTypeOK, ShutInit, ShutTypeOK
  <1>8. QED BY <1>1, <1>2, <1>3, <1>4, <1>5, <1>6, <1>7 DEF TypeInv

\* No step of any component, and no stutter, breaks the types.
LEMMA TypeInvNext == TypeInv /\ [Next]_vars => TypeInv'
  <1> SUFFICES ASSUME TypeInv, [Next]_vars PROVE TypeInv'
    OBVIOUS
  <1> USE FrameTypes
  <1>1. ASSUME NEW p \in Instance, PollerStep(p) PROVE TypeInv'
    BY <1>1, PollerTypes DEF TypeInv, PollerStep
  <1>2. ASSUME NEW t \in Task, RunnerStep(t) PROVE TypeInv'
    BY <1>2, RunnerTypes DEF TypeInv, RunnerStep
  <1>3. ASSUME NEW t \in Task, GitHubStep(t) PROVE TypeInv'
    BY <1>3, WorldTypes DEF TypeInv, GitHubStep, AskGitHub, runnerVars
  <1>4. ASSUME NEW t \in Task, TTLStep(t) PROVE TypeInv'
    BY <1>4, WorldTypes DEF TypeInv, TTLStep
  <1>5. ASSUME NEW r \in Request, ArriveStep(r) PROVE TypeInv'
    BY <1>5, ArriveTypes DEF TypeInv, ArriveStep
  <1>6. ASSUME NEW r \in Request, SouthStep(r) PROVE TypeInv'
    BY <1>6, SouthControlTypes, SouthDataTypes DEF TypeInv, SouthStep
  <1>7. ASSUME NEW tok \in Token, SilenceStep(tok) PROVE TypeInv'
    BY <1>7, WorldTypes DEF TypeInv, SilenceStep
  <1>8. CASE ReaperStep
    BY <1>8, ReaperTypes DEF TypeInv, ReaperStep
  <1>9. CASE SignalStep
    BY <1>9, ShutTypes DEF TypeInv, SignalStep
  <1>10. CASE DrainStep
    BY <1>10, ShutTypes DEF TypeInv, DrainStep
  <1>11. CASE UNCHANGED vars
    BY <1>11 DEF TypeInv, vars
  <1>12. QED
    BY <1>1, <1>2, <1>3, <1>4, <1>5, <1>6, <1>7, <1>8, <1>9, <1>10, <1>11 DEF Next

\* The strengthened type invariant holds throughout.
LEMMA Typing == Spec => []TypeInv
  BY TypeInvInit, TypeInvNext, PTL DEF Spec

\* Whatever the interleaving of pollers, HandleTask goroutines, requests,
\* collector and shutdown, every variable keeps its type: in particular the
\* pool never holds more than Capacity elements.
THEOREM TypeCorrect == Spec => []TypeOK
  <1>1. TypeInv => TypeOK
    BY DEF TypeInv, TypeOK, SharedInv, SessInv, PollInv, SouthInv, ReaperInv
  <1>2. QED BY <1>1, Typing, PTL

-----------------------------------------------------------------------------
(* The slots. *)

\* Where a task is on its way to HandleTask: offered by its own poller, then in
\* the channel, then started, and in one of these places at a time.
OnItsWay == /\ \A p \in Instance : ppc[p] = "send" =>
                  /\ offer[p] \in assigned \ taskCh
                  /\ InstOf[offer[p]] = p
                  /\ phase[offer[p]] = "none"
            /\ taskCh \subseteq assigned
            /\ \A t \in Task : t \in taskCh \/ t \notin assigned => phase[t] = "none"

\* What one step may do to the pool and to the two kinds of holders.
SlotStep ==
    \/ sem' = sem /\ HoldingPollers' = HoldingPollers /\ HoldingTasks' = HoldingTasks
    \/ \E p \in Instance \ HoldingPollers :
          Acquire /\ HoldingPollers' = HoldingPollers \union {p} /\ HoldingTasks' = HoldingTasks
    \/ \E p \in HoldingPollers :
          Release /\ HoldingPollers' = HoldingPollers \ {p} /\ HoldingTasks' = HoldingTasks
    \/ \E t \in HoldingTasks :
          Release /\ HoldingTasks' = HoldingTasks \ {t} /\ HoldingPollers' = HoldingPollers
    \/ \E p \in HoldingPollers, t \in Task \ HoldingTasks :
          /\ sem' = sem
          /\ HoldingPollers' = HoldingPollers \ {p}
          /\ HoldingTasks' = HoldingTasks \union {t}

\* A poller takes a slot, gives it back or passes it on with a task.
LEMMA PollerSlots ==
    ASSUME TypeInv, OnItsWay, NEW p \in Instance, PollLoop(p), UNCHANGED phase
    PROVE  OnItsWay' /\ SlotStep
  <1> USE TaskAssumption
      DEF TypeInv, PollInv, PollerTypeOK, RunnerTypeOK, SharedInv, SurroundTypeOK, OnItsWay,
          SlotStep, HoldingPollers, HoldingTasks, Goto, PollerPC, surroundVars
  <1>1. CASE PollAcquire(p)
    BY <1>1 DEF PollAcquire
  <1>2. CASE PollCancelled(p)
    BY <1>2 DEF PollCancelled
  <1>3. CASE PollNothing(p)
    BY <1>3 DEF PollNothing
  <1>4. CASE PollAgain(p)
    BY <1>4 DEF PollAgain
  <1>5. CASE \E t \in Task : PollReceive(p, t)
    BY <1>5 DEF PollReceive
  <1>6. CASE PollSend(p)
    <2>1. OnItsWay'
      BY <1>6 DEF PollSend
    <2>2. offer[p] \in Task \ HoldingTasks
      BY <1>6 DEF PollSend, OwingPhases, ShutPhases
    <2>3. /\ p \in HoldingPollers
          /\ sem' = sem
          /\ HoldingPollers' = HoldingPollers \ {p}
          /\ HoldingTasks' = HoldingTasks \union {offer[p]}
      BY <1>6 DEF PollSend
    <2>4. QED BY <2>1, <2>2, <2>3
  <1>7. CASE PollDrop(p)
    BY <1>7 DEF PollDrop
  <1>8. QED BY <1>1, <1>2, <1>3, <1>4, <1>5, <1>6, <1>7 DEF PollLoop

\* HandleTask keeps its slot through every branch and gives it back once.
LEMMA RunnerSlots ==
    ASSUME TypeInv, OnItsWay, NEW t \in Task, HandleTask(t)
    PROVE  OnItsWay' /\ SlotStep
  <1> USE DEF TypeInv, PollInv, PollerTypeOK, RunnerTypeOK, SharedInv, SurroundTypeOK, OnItsWay,
          SlotStep, HoldingPollers, HoldingTasks, Move, OwingPhases, ShutPhases,
          slotVars, pollerVars, surroundVars
  <1>1. CASE Start(t)
    BY <1>1 DEF Start
  <1>2. CASE TriggerOk(t)
    BY <1>2 DEF TriggerOk
  <1>3. CASE TriggerFails(t)
    BY <1>3 DEF TriggerFails
  <1>4. CASE Finished(t)
    BY <1>4 DEF Finished
  <1>5. CASE RunnerConnected(t)
    BY <1>5 DEF RunnerConnected
  <1>6. CASE StartupTimeout(t)
    BY <1>6 DEF StartupTimeout
  <1>7. CASE ShutdownUnregistered(t)
    BY <1>7 DEF ShutdownUnregistered
  <1>8. CASE ShutdownRegistered(t)
    BY <1>8 DEF ShutdownRegistered
  <1>9. CASE ReportsFailure(t)
    BY <1>9 DEF ReportsFailure
  <1>10. CASE Unlinks(t)
    BY <1>10 DEF Unlinks
  <1>11. CASE GivesBack(t)
    BY <1>11 DEF GivesBack
  <1>12. CASE Drops(t)
    BY <1>12 DEF Drops
  <1>13. QED BY <1>1, <1>2, <1>3, <1>4, <1>5, <1>6, <1>7, <1>8, <1>9, <1>10,
             <1>11, <1>12 DEF HandleTask, TriggerReturns, AroundTrigger

\* Nobody else comes near the pool.
LEMMA SlotStepNext ==
    ASSUME TypeInv, OnItsWay, [Next]_vars
    PROVE  OnItsWay' /\ SlotStep
  <1>1. ASSUME UNCHANGED <<sem, ppc, offer, taskCh, phase, assigned>>
        PROVE  OnItsWay' /\ SlotStep
    BY <1>1 DEF OnItsWay, SlotStep, HoldingPollers, HoldingTasks
  <1> USE DEF slotVars, pollerVars, runnerVars, surroundVars
  <1>2. ASSUME NEW p \in Instance, PollerStep(p) PROVE OnItsWay' /\ SlotStep
    BY <1>2, PollerSlots DEF PollerStep
  <1>3. ASSUME NEW t \in Task, RunnerStep(t) PROVE OnItsWay' /\ SlotStep
    BY <1>3, RunnerSlots DEF RunnerStep
  <1>4. ASSUME NEW t \in Task, GitHubStep(t) \/ TTLStep(t) PROVE OnItsWay' /\ SlotStep
    BY <1>1, <1>4 DEF GitHubStep, AskGitHub, TTLStep, TokenOutlivesTTL
  <1>5. ASSUME NEW r \in Request, ArriveStep(r) PROVE OnItsWay' /\ SlotStep
    BY <1>1, <1>5 DEF ArriveStep, Arrive
  <1>6. ASSUME NEW r \in Request, SouthStep(r) PROVE OnItsWay' /\ SlotStep
    BY <1>1, <1>6 DEF SouthStep, Handle, LookUp, TouchSession, GetReg, Consume, CreateSession,
       LinkSession, RenewSession, MarkRegistered, Deliver, ForwardOk, ForwardError, SetTerminal,
       CloseDone, EndSession, RemoveTask
  <1>7. ASSUME NEW tok \in Token, SilenceStep(tok) PROVE OnItsWay' /\ SlotStep
    BY <1>1, <1>7 DEF SilenceStep
  <1>8. CASE ReaperStep
    BY <1>1, <1>8 DEF ReaperStep, GCLoop, GCSnapshot, GCStop, GCInspect, GCSweep, GCExpire,
       GCReport, GCMarkDone, GCRemove, GCDone
  <1>9. CASE SignalStep
    BY <1>1, <1>9 DEF SignalStep, Signal
  <1>10. CASE DrainStep
    BY <1>1, <1>10 DEF DrainStep, Drain, CountSnapshot, CountStatus, CountResult, CountAgain
  <1>11. CASE UNCHANGED vars
    BY <1>1, <1>11 DEF vars
  <1>12. QED
    BY <1>2, <1>3, <1>4, <1>5, <1>6, <1>7, <1>8, <1>9, <1>10, <1>11 DEF Next

\* At any time only finitely many hold a slot, and the channel counts them.
Counted == /\ IsFiniteSet(HoldingPollers)
           /\ IsFiniteSet(HoldingTasks)
           /\ SlotConservation

SlotInv == TypeInv /\ OnItsWay /\ Counted

\* At the start nobody holds a slot and no task is on its way.
LEMMA SlotInvInit == Init => SlotInv
  <1> SUFFICES ASSUME Init PROVE SlotInv
    OBVIOUS
  <1>1. OnItsWay
    BY DEF Init, SurroundInit, PollerInit, RunnerInit, OnItsWay
  <1>2. HoldingPollers = {} /\ HoldingTasks = {}
    BY DEF Init, PollerInit, RunnerInit, HoldingPollers, HoldingTasks, OwingPhases, ShutPhases
  <1>3. Counted
    BY <1>2, FS_EmptySet DEF Init, SlotInit, Counted, SlotConservation
  <1>4. QED BY <1>1, <1>3, TypeInvInit DEF SlotInv

\* A step that moves slots as SlotStep says keeps the count right.
LEMMA CountedNext ==
    ASSUME Counted, SlotStep
    PROVE  Counted'
  <1> DEFINE np == Cardinality(HoldingPollers)
             nt == Cardinality(HoldingTasks)
  <1>1. np \in Nat /\ nt \in Nat /\ sem = np + nt
    BY FS_CardinalityType DEF Counted, SlotConservation
  <1>2. CASE sem' = sem /\ HoldingPollers' = HoldingPollers /\ HoldingTasks' = HoldingTasks
    BY <1>2 DEF Counted, SlotConservation
  <1>3. ASSUME NEW p \in Instance \ HoldingPollers, Acquire,
               HoldingPollers' = HoldingPollers \union {p}, HoldingTasks' = HoldingTasks
        PROVE  Counted'
    <2>1. IsFiniteSet(HoldingPollers') /\ Cardinality(HoldingPollers') = np + 1
      BY <1>3, FS_AddElement DEF Counted
    <2>2. QED BY <1>1, <1>3, <2>1 DEF Counted, SlotConservation, Acquire
  <1>4. ASSUME NEW p \in HoldingPollers, Release,
               HoldingPollers' = HoldingPollers \ {p}, HoldingTasks' = HoldingTasks
        PROVE  Counted'
    <2>1. /\ IsFiniteSet(HoldingPollers')
          /\ Cardinality(HoldingPollers') = np - 1
          /\ Cardinality(HoldingPollers') \in Nat
      BY <1>4, FS_RemoveElement, FS_CardinalityType DEF Counted
    <2>2. QED BY <1>1, <1>4, <2>1 DEF Counted, SlotConservation, Release
  <1>5. ASSUME NEW t \in HoldingTasks, Release,
               HoldingTasks' = HoldingTasks \ {t}, HoldingPollers' = HoldingPollers
        PROVE  Counted'
    <2>1. /\ IsFiniteSet(HoldingTasks')
          /\ Cardinality(HoldingTasks') = nt - 1
          /\ Cardinality(HoldingTasks') \in Nat
      BY <1>5, FS_RemoveElement, FS_CardinalityType DEF Counted
    <2>2. QED BY <1>1, <1>5, <2>1 DEF Counted, SlotConservation, Release
  <1>6. ASSUME NEW p \in HoldingPollers, NEW t \in Task \ HoldingTasks, sem' = sem,
               HoldingPollers' = HoldingPollers \ {p}, HoldingTasks' = HoldingTasks \union {t}
        PROVE  Counted'
    <2>1. IsFiniteSet(HoldingPollers') /\ Cardinality(HoldingPollers') = np - 1
      BY <1>6, FS_RemoveElement DEF Counted
    <2>2. IsFiniteSet(HoldingTasks') /\ Cardinality(HoldingTasks') = nt + 1
      BY <1>6, FS_AddElement DEF Counted
    <2>3. QED BY <1>1, <1>6, <2>1, <2>2 DEF Counted, SlotConservation
  <1>7. QED BY <1>2, <1>3, <1>4, <1>5, <1>6 DEF SlotStep

\* The inductive invariant of the slots is kept by every step of the daemon.
LEMMA SlotInvNext == SlotInv /\ [Next]_vars => SlotInv'
  BY TypeInvNext, SlotStepNext, CountedNext DEF SlotInv

\* The inductive invariant of the slots holds throughout.
LEMMA SlotsCounted == Spec => []SlotInv
  BY SlotInvInit, SlotInvNext, PTL DEF Spec

\* Every slot taken is owed by exactly one poller or task, through every branch
\* of PollLoop and HandleTask: none leaks and none is given back twice.
THEOREM SlotsConserved == Spec => []SlotConservation
  <1>1. SlotInv => SlotConservation
    BY DEF SlotInv, Counted
  <1>2. QED BY <1>1, SlotsCounted, PTL

\* The task channel has room whenever a poller has a task for it, so PollLoop
\* never waits in that select.
THEOREM SendsNeverBlock == Spec => []SendNeverBlocks
  <1>1. ASSUME SlotInv, NEW p \in Instance, ppc[p] = "send"
        PROVE  ChannelHasRoom
    <2>1. /\ Cardinality(HoldingPollers) \in Nat /\ Cardinality(HoldingTasks) \in Nat
          /\ Cardinality(HoldingPollers) # 0
      BY <1>1, FS_CardinalityType, FS_EmptySet DEF SlotInv, Counted, HoldingPollers
    <2>2. Cardinality(taskCh) \in Nat /\ Cardinality(taskCh) =< Cardinality(HoldingTasks)
      BY <1>1, FS_Subset, FS_CardinalityType DEF SlotInv, Counted, HoldingTasks
    <2>3. sem =< Capacity /\ sem \in Nat
      BY <1>1, CapacityAssumption DEF SlotInv, TypeInv, SlotTypeOK
    <2>4. QED
      BY <1>1, <2>1, <2>2, <2>3, CapacityAssumption
         DEF SlotInv, Counted, SlotConservation, ChannelHasRoom
  <1>2. SlotInv => SendNeverBlocks
    BY <1>1 DEF SendNeverBlocks
  <1>3. QED BY <1>2, SlotsCounted, PTL

\* Pollers and tasks together never hold more than the pool's capacity.
LEMMA HoldersCounted ==
    ASSUME SlotInv
    PROVE  /\ HoldingPollers \intersect HoldingTasks = {}
           /\ HoldingPollers \subseteq Instance /\ HoldingTasks \subseteq Task
           /\ Cardinality(HoldingPollers \union HoldingTasks) = sem
  <1>1. /\ HoldingPollers \subseteq Instance /\ HoldingTasks \subseteq Task
        /\ HoldingPollers \intersect HoldingTasks = {}
    BY TaskAssumption DEF SlotInv, TypeInv, PollInv, PollerTypeOK, HoldingPollers, HoldingTasks
  <1>2. Cardinality(HoldingPollers \union HoldingTasks)
            = Cardinality(HoldingPollers) + Cardinality(HoldingTasks)
    <2>1. Cardinality(HoldingPollers \intersect HoldingTasks) = 0
      BY <1>1, FS_EmptySet
    <2>2. /\ IsFiniteSet(HoldingPollers) /\ Cardinality(HoldingPollers) \in Nat
          /\ IsFiniteSet(HoldingTasks) /\ Cardinality(HoldingTasks) \in Nat
      BY FS_CardinalityType DEF SlotInv, Counted
    <2>3. Cardinality(HoldingPollers \union HoldingTasks)
              = Cardinality(HoldingPollers) + Cardinality(HoldingTasks)
                    - Cardinality(HoldingPollers \intersect HoldingTasks)
      BY <2>2, FS_Union
    <2>4. QED
      BY <2>1, <2>2, <2>3
  <1>3. QED BY <1>1, <1>2 DEF SlotInv, Counted, SlotConservation

\* Pollers and HandleTask implement the ledger of slots: the budget bounds them
\* together, and a slot changes hands only from a poller to the task it sends.
THEOREM LedgerImplemented == Spec => LedgerSpec
  <1> DEFINE holders == HoldingPollers \union HoldingTasks
             Holder == Instance \union Task
  <1>1. Init => Ledger!Init
    BY DEF Init, PollerInit, RunnerInit, HoldingPollers, HoldingTasks, OwingPhases, ShutPhases,
           Ledger!Init
  <1>2. SlotInv /\ [Next]_vars => [Ledger!Next]_holders
    <2> SUFFICES ASSUME SlotInv, [Next]_vars PROVE [Ledger!Next]_holders
      OBVIOUS
    <2> USE HoldersCounted DEF Ledger!Next
    <2>1. SlotStep
      BY SlotStepNext DEF SlotInv
    <2>2. CASE sem' = sem /\ HoldingPollers' = HoldingPollers /\ HoldingTasks' = HoldingTasks
      BY <2>2
    <2>3. ASSUME NEW p \in Instance \ HoldingPollers, Acquire,
                 HoldingPollers' = HoldingPollers \union {p}, HoldingTasks' = HoldingTasks
          PROVE  Ledger!Next
      <3>1. Ledger!Cardinality(holders) = Cardinality(holders)
        BY DEF Ledger!Cardinality, Cardinality
      <3>2. Ledger!Take(p)
        BY <2>3, <3>1, TaskAssumption DEF Acquire, Ledger!Take
      <3>3. QED BY <2>3, <3>2
    <2>4. ASSUME NEW p \in HoldingPollers,
                 HoldingPollers' = HoldingPollers \ {p}, HoldingTasks' = HoldingTasks
          PROVE  Ledger!Next
      <3>1. Ledger!Give(p)
        BY <2>4 DEF Ledger!Give
      <3>2. QED BY <2>4, <3>1
    <2>5. ASSUME NEW t \in HoldingTasks,
                 HoldingTasks' = HoldingTasks \ {t}, HoldingPollers' = HoldingPollers
          PROVE  Ledger!Next
      <3>1. Ledger!Give(t)
        BY <2>5 DEF Ledger!Give
      <3>2. QED BY <2>5, <3>1
    <2>6. ASSUME NEW p \in HoldingPollers, NEW t \in Task \ HoldingTasks,
                 HoldingPollers' = HoldingPollers \ {p},
                 HoldingTasks' = HoldingTasks \union {t}
          PROVE  Ledger!Next
      <3>1. Ledger!Hand(p, t)
        BY <2>6, TaskAssumption DEF Ledger!Hand
      <3>2. QED BY <2>6, <3>1
    <2>7. QED BY <2>1, <2>2, <2>3, <2>4, <2>5, <2>6 DEF SlotStep
  <1>3. QED
    BY <1>1, <1>2, SlotsCounted, PTL DEF Spec, LedgerSpec, Ledger!Spec

=============================================================================
