---------------------------- MODULE WakerProofs -----------------------------
(***************************************************************************)
(* Theorem about TaskLifecycle: nobody waits for a runner that nothing can *)
(* end any more, for every set of instances, tasks and requests, where no  *)
(* two tasks share an id.                                                  *)
(***************************************************************************)
EXTENDS TokenProofs

\* Somebody can still end t, or it is ended.
Wakeable(t) == t \in done \/ SessionsOf(t) # {} \/ t \in dead \/ t = reaping

\* A session was made for t.
Connecting(r, t) == req[r].pc \in {"link", "renew", "mark"} /\ req[r].task = t
HadSession(t) == t \in registered \/ \E r \in Request : Connecting(r, t)

\* HandleTask has removed the session of its task.
Unlinked == {"giveBack", "drop", "sdDrop", "sdGiveBack", "exit"}

\* WaiterHasWaker, from the creation of the session on and up to the cleanup.
WakeInv == \A t \in Task : HadSession(t) /\ phase[t] \notin Unlinked => Wakeable(t)

\* HandleTask goes on to wait only for a runner that registered.
WaitInv == \A t \in Task : phase[t] \in {"awaitDone", "left"} => t \in registered

\* Whoever removes a session removes that of a task that is ended, or his own.
EnderInv == /\ \A t \in Task : sessionToken[t] # NoToken => sessionToken[t][1] = t
            /\ \A r \in Request : req[r].pc \in {"removeSession", "removeTask"}
                                     => req[r].task \in done

\* The collector has nothing in hand between its passes, and ends what it reaps.
PassInv == /\ gpc \notin {"reap", "finish", "remove"} => dead = {}
           /\ gpc \notin {"finish", "remove"} => reaping = NoTask
           /\ gpc = "remove" => reaping \in done

WakerInv == TokenInv /\ WakeInv /\ WaitInv /\ EnderInv /\ PassInv

-----------------------------------------------------------------------------
(* The steps *)

\* What a step that leaves sessions, collector and requests alone may do.
LEMMA QuietStep ==
    ASSUME WakerInv, UNCHANGED <<sessVars, reaperVars, southVars, sessionToken, registered>>,
           done \subseteq done',
           \A t \in Task : phase'[t] \in Unlinked \/ phase[t] \notin Unlinked,
           \A t \in Task : phase'[t] \in {"awaitDone", "left"} => t \in registered
    PROVE  WakeInv' /\ WaitInv' /\ EnderInv' /\ PassInv'
  BY DEF WakerInv, WakeInv, WaitInv, EnderInv, PassInv, Wakeable, HadSession, Connecting,
         SessionsOf, Live, sessVars, reaperVars, southVars

\* HandleTask: the one step that removes a session is Unlinks.
LEMMA RunnerWakes ==
    ASSUME WakerInv, NEW t \in Task, RunnerStep(t)
    PROVE  WakeInv' /\ WaitInv' /\ EnderInv' /\ PassInv'
  <1> USE DEF RunnerStep
  <1>1. CASE Unlinks(t)
    <2>1. /\ UNCHANGED <<reaperVars, southVars, ctxVars>>
          /\ phase'[t] \in Unlinked
          /\ \A u \in Task : u # t => phase'[u] = phase[u]
          /\ \A tok \in Token : tok # sessionToken[t] => sessions'[tok] = sessions[tok]
      BY <1>1 DEF Unlinks, RemoveSession, Move, Unlinked, WakerInv, TokenInv, TypeInv,
                  RunnerTypeOK
    <2>2. ASSUME NEW u \in Task, u # t PROVE SessionsOf(u)' = SessionsOf(u)
      <3>1. ASSUME NEW tok \in Token, tok = sessionToken[t] PROVE sessions[tok] # u
        BY <2>2, <3>1, TaskAssumption, TokenAssumption
           DEF WakerInv, EnderInv, TokenInv, OwnerInv, SessionRoutesToOwner, Live
      <3>2. ASSUME NEW tok \in Token, tok = sessionToken[t] PROVE sessions'[tok] # u
        BY <1>1, <3>2, TaskAssumption DEF Unlinks, RemoveSession
      <3>3. QED BY <2>1, <3>1, <3>2 DEF SessionsOf, Live
    <2>3. QED
      BY <2>1, <2>2 DEF WakerInv, WakeInv, WaitInv, EnderInv, PassInv, Wakeable, HadSession,
                        Connecting, Unlinked, reaperVars, southVars, ctxVars
  <1>2. CASE ~Unlinks(t)
    <2>1. UNCHANGED <<sessVars, reaperVars, southVars, sessionToken, registered>> /\ done' = done
      BY <1>2 DEF HandleTask, TriggerReturns, AroundTrigger, Start, TriggerOk, TriggerFails,
         MarkDispatched, SetStatus, Finished, RunnerConnected, StartupTimeout,
         ShutdownUnregistered, ShutdownRegistered, ReportsFailure, GivesBack, Drops, ctxVars
    <2>2. /\ \A u \in Task : u # t => phase'[u] = phase[u]
          /\ phase'[t] \in Unlinked \/ phase[t] \notin Unlinked
          /\ phase'[t] \in {"awaitDone", "left"} => t \in registered
      BY <1>2 DEF HandleTask, TriggerReturns, AroundTrigger, Start, TriggerOk, TriggerFails,
         Finished, RunnerConnected, StartupTimeout, ShutdownUnregistered, ShutdownRegistered,
         ReportsFailure, GivesBack, Drops, Move, Unlinked, WakerInv, WaitInv, TokenInv, TypeInv,
         RunnerTypeOK
    <2>3. QED BY <2>1, <2>2, QuietStep DEF WakerInv, WaitInv
  <1>3. QED BY <1>1, <1>2

\* The collector: what it takes from the sessions it has in hand until it is done.
LEMMA ReaperWakes ==
    ASSUME WakerInv, ReaperStep
    PROVE  WakeInv' /\ WaitInv' /\ EnderInv' /\ PassInv'
  <1> USE DEF ReaperStep, WakerInv, WakeInv, WaitInv, EnderInv, PassInv, Wakeable, HadSession,
              Connecting, SessionsOf, Live, sessVars, southVars, runnerVars, ctxVars
  <1>1. CASE GCSnapshot
    BY <1>1 DEF GCSnapshot
  <1>2. CASE GCStop
    BY <1>2 DEF GCStop
  <1>3. CASE \E t \in Task : GCInspect(t)
    BY <1>3 DEF GCInspect
  <1>4. CASE GCSweep
    BY <1>4 DEF GCSweep
  <1>5. CASE GCExpire
    <2>1. \A tok \in Token : sessions'[tok] = sessions[tok] \/ sessions[tok] \in dead'
      BY <1>5 DEF GCExpire, ExpireStale, TokenInv, TypeInv, SessInv, SessTypeOK
    <2>2. dead = {} /\ reaping = NoTask
      BY <1>5 DEF GCExpire
    <2>3. UNCHANGED <<ctxVars, phase, southVars, reaping>> /\ gpc' = "reap"
      BY <1>5 DEF GCExpire
    <2>4. QED BY <2>1, <2>2, <2>3
  <1>6. CASE \E t \in Task : GCReport(t)
    BY <1>6, TaskAssumption DEF GCReport
  <1>7. CASE GCMarkDone
    BY <1>7 DEF GCMarkDone, MarkDone
  <1>8. CASE GCRemove
    BY <1>8 DEF GCRemove
  <1>9. CASE GCDone
    BY <1>9 DEF GCDone
  <1>10. QED BY <1>1, <1>2, <1>3, <1>4, <1>5, <1>6, <1>7, <1>8, <1>9 DEF GCLoop

\* A request: it ends a session only after the task is done.
LEMMA RequestWakes ==
    ASSUME UniqueIds, WakerInv, NEW r \in Request, SouthStep(r)
    PROVE  WakeInv' /\ WaitInv' /\ EnderInv' /\ PassInv'
  <1> DEFINE t == req[r].task
  <1>1. /\ Handle(r)
        /\ UNCHANGED <<reaperVars, phase>>
        /\ \A s \in Request : s # r => req'[s] = req[s]
        /\ req \in [Request -> [pc : RequestPC, kind : Kind, tok : Token \union {NoToken},
                                task : Task \union {NoTask}]]
        /\ req[r].pc \notin {"free", "lookup", "getreg"} => t \in Task /\ t = req[r].tok[1]
        /\ req[r].pc # "free" => req[r].tok \in Token
    BY OneRequestKinds
       DEF SouthStep, runnerVars, OneRequest, WakerInv, TokenInv, TypeInv, SouthInv, SouthTypeOK,
           OwnerInv
  <1>2. done \subseteq done' => PassInv'
    BY <1>1 DEF WakerInv, PassInv, reaperVars
  <1>3. ASSUME UNCHANGED sessions, UNCHANGED ctxVars,
               req'[r].pc \notin {"link", "renew", "mark", "removeSession", "removeTask"}
        PROVE  WakeInv' /\ WaitInv' /\ EnderInv' /\ PassInv'
    BY <1>1, <1>3
       DEF WakerInv, WakeInv, WaitInv, EnderInv, PassInv, Wakeable, HadSession, Connecting,
           SessionsOf, Live, reaperVars, ctxVars
  <1> USE DEF At, Step, Answer, NoRequest, ctxVars, sessVars
  <1>4. CASE LookUp(r) \/ GetReg(r) \/ Consume(r) \/ Deliver(r) \/ ForwardOk(r) \/ ForwardError(r)
    <2>1. UNCHANGED sessions /\ UNCHANGED ctxVars
      BY <1>4 DEF LookUp, GetReg, Consume, Deliver, ForwardOk, ForwardError
    <2>2. req'[r].pc \notin {"link", "renew", "mark", "removeSession", "removeTask"}
      BY <1>1, <1>4 DEF LookUp, GetReg, Consume, Deliver, ForwardOk, ForwardError
    <2>3. QED BY <1>3, <2>1, <2>2
  <1>5. CASE TouchSession(r)
    <2>1. UNCHANGED sessions /\ UNCHANGED ctxVars
      BY <1>5 DEF TouchSession, Touch
    <2>2. req'[r].pc \in {"deliver", "forward", "free"}
      <3>1. CASE req[r].tok \in Live
        <4>1. Authenticated(r, t) /\ req[r].pc = "touch"
          BY <1>5, <3>1 DEF TouchSession
        <4>2. QED BY <1>1, <4>1 DEF Authenticated
      <3>2. CASE req[r].tok \notin Live
        BY <1>1, <1>5, <3>2 DEF TouchSession
      <3>3. QED BY <3>1, <3>2
    <2>3. QED BY <1>3, <2>1, <2>2
  <1>6. CASE CreateSession(r)
    <2>1. /\ UNCHANGED ctxVars
          /\ t \in Task /\ NewToken(r) \in Token /\ NewToken(r)[1] = t
          /\ sessions'[NewToken(r)] = t
          /\ \A tok \in Token : tok # NewToken(r) => sessions'[tok] = sessions[tok]
          /\ req'[r].pc = "link" /\ req'[r].task = t
      <3>1. NewToken(r) \in Token /\ NewToken(r)[1] = req[r].tok[1]
        BY <1>6, NewTokenFacts DEF WakerInv, TokenInv, TypeInv
      <3>2. QED
        BY <1>1, <1>6, <3>1 DEF CreateSession, InsertSession, WakerInv, TokenInv, TypeInv, SessInv,
                                SessTypeOK
    <2>2. NewToken(r) \in SessionsOf(t)'
      BY <2>1, TaskAssumption DEF SessionsOf, Live
    <2>3. ASSUME NEW u \in Task, u # t PROVE SessionsOf(u)' = SessionsOf(u)
      BY <2>1, <2>3, TaskAssumption
         DEF SessionsOf, Live, WakerInv, TokenInv, OwnerInv, SessionRoutesToOwner
    <2>4. WakeInv'
      BY <1>1, <2>1, <2>2, <2>3
         DEF WakerInv, WakeInv, Wakeable, HadSession, Connecting, reaperVars
    <2>5. WaitInv' /\ EnderInv' /\ PassInv'
      BY <1>1, <1>2, <2>1 DEF WakerInv, WaitInv, EnderInv, PassInv
    <2>6. QED BY <2>4, <2>5
  <1>7. CASE LinkSession(r)
    <2>1. /\ UNCHANGED <<sessions, registered, done>>
          /\ t \in Task /\ req[r].tok[1] = t
          /\ \A u \in Task : sessionToken'[u] = IF u = t THEN req[r].tok ELSE sessionToken[u]
          /\ req'[r].pc \in {"renew", "mark"} /\ req'[r].task = t /\ req[r].pc = "link"
      BY <1>1, <1>7 DEF LinkSession, SetSessionToken, WakerInv, TokenInv, TypeInv, SharedInv,
                        StoreTypeOK
    <2>2. WakeInv'
      BY <1>1, <2>1
         DEF WakerInv, WakeInv, Wakeable, HadSession, Connecting, SessionsOf, Live, reaperVars
    <2>3. WaitInv' /\ EnderInv' /\ PassInv'
      BY <1>1, <1>2, <2>1 DEF WakerInv, WaitInv, EnderInv, PassInv
    <2>4. QED BY <2>2, <2>3
  <1>8. CASE RenewSession(r)
    <2>1. /\ UNCHANGED sessions /\ UNCHANGED ctxVars
          /\ req'[r].pc = "mark" /\ req'[r].task = t /\ req[r].pc = "renew"
      BY <1>1, <1>8 DEF RenewSession, Touch
    <2>2. QED
      BY <1>1, <1>2, <2>1
         DEF WakerInv, WakeInv, WaitInv, EnderInv, PassInv, Wakeable, HadSession, Connecting,
             SessionsOf, Live, reaperVars
  <1>9. CASE MarkRegistered(r)
    <2>1. /\ UNCHANGED <<sessions, sessionToken, done>>
          /\ registered' = registered \union {t}
          /\ t \in Task /\ req[r].pc = "mark"
          /\ req'[r].pc \in {"deliver", "forward", "free"}
      BY <1>1, <1>9 DEF MarkRegistered, MarkRunnerRegistered, Authenticated
    <2>2. QED
      BY <1>1, <1>2, <2>1
         DEF WakerInv, WakeInv, WaitInv, EnderInv, PassInv, Wakeable, HadSession, Connecting,
             SessionsOf, Live, reaperVars
  <1>10. CASE SetTerminal(r)
    <2>1. /\ UNCHANGED <<sessions, sessionToken, done, registered>>
          /\ req'[r].pc = "markDone"
      BY <1>1, <1>10 DEF SetTerminal, SetStatus
    <2>2. QED
      BY <1>1, <1>2, <2>1
         DEF WakerInv, WakeInv, WaitInv, EnderInv, PassInv, Wakeable, HadSession, Connecting,
             SessionsOf, Live, reaperVars
  <1>11. CASE CloseDone(r)
    <2>1. /\ UNCHANGED <<sessions, sessionToken, registered>>
          /\ done' = done \union {t}
          /\ req'[r].pc = "removeSession" /\ req'[r].task = t
      BY <1>1, <1>11 DEF CloseDone, MarkDone
    <2>2. QED
      BY <1>1, <1>2, <2>1
         DEF WakerInv, WakeInv, WaitInv, EnderInv, PassInv, Wakeable, HadSession, Connecting,
             SessionsOf, Live, reaperVars
  <1>12. CASE EndSession(r)
    <2>1. /\ UNCHANGED ctxVars
          /\ t \in Task /\ t \in done /\ req[r].tok[1] = t
          /\ req'[r].pc = "removeTask" /\ req'[r].task = t
          /\ \A tok \in Token : tok # req[r].tok => sessions'[tok] = sessions[tok]
          /\ req[r].tok \in Token => sessions'[req[r].tok] = NoTask
      BY <1>1, <1>12 DEF EndSession, RemoveSession, WakerInv, EnderInv
    <2>2. ASSUME NEW u \in Task, u # t PROVE SessionsOf(u)' = SessionsOf(u)
      BY <2>1, <2>2, TaskAssumption
         DEF SessionsOf, Live, WakerInv, TokenInv, OwnerInv, SessionRoutesToOwner
    <2>3. WakeInv'
      BY <1>1, <2>1, <2>2 DEF WakerInv, WakeInv, Wakeable, HadSession, Connecting, reaperVars
    <2>4. WaitInv' /\ EnderInv' /\ PassInv'
      BY <1>1, <1>2, <2>1 DEF WakerInv, WaitInv, EnderInv, PassInv
    <2>5. QED BY <2>3, <2>4
  <1>13. CASE RemoveTask(r)
    BY <1>1, <1>3, <1>13 DEF RemoveTask
  <1>14. QED
    BY <1>1, <1>4, <1>5, <1>6, <1>7, <1>8, <1>9, <1>10, <1>11, <1>12, <1>13 DEF Handle

-----------------------------------------------------------------------------
(* The theorem *)

\* At the start nobody waits.
LEMMA WakerInvInit == Init => WakerInv
  <1> SUFFICES ASSUME Init PROVE WakerInv
    OBVIOUS
  <1>1. WakeInv /\ WaitInv
    BY DEF Init, StoreInit, SouthInit, NoRequest, RunnerInit, WakeInv, HadSession, Connecting,
           WaitInv
  <1>2. EnderInv /\ PassInv
    BY DEF Init, StoreInit, SouthInit, NoRequest, ReaperInit, EnderInv, PassInv
  <1>3. QED BY <1>1, <1>2, TokenInvInit DEF WakerInv

\* No step of the daemon leaves a waiter alone.
LEMMA WakerInvNext == UniqueIds /\ WakerInv /\ [Next]_vars => WakerInv'
  <1> SUFFICES ASSUME UniqueIds, WakerInv, [Next]_vars PROVE WakerInv'
    OBVIOUS
  <1>1. TokenInv'
    BY TokenInvNext DEF WakerInv
  <1> DEFINE Goal == WakeInv' /\ WaitInv' /\ EnderInv' /\ PassInv'
  <1> SUFFICES Goal
    BY <1>1 DEF WakerInv
  <1>2. ASSUME UNCHANGED <<reaperVars, southVars, ctxVars, sessions, phase>> PROVE Goal
    BY <1>2 DEF WakerInv, WakeInv, WaitInv, EnderInv, PassInv, Wakeable, HadSession, Connecting,
                SessionsOf, Live, reaperVars, southVars, ctxVars
  <1>3. ASSUME NEW p \in Instance, PollerStep(p) PROVE Goal
    BY <1>2, <1>3 DEF PollerStep, sessVars, runnerVars, PollLoop, PollAcquire, PollCancelled,
                      PollNothing, PollAgain, PollReceive, PollSend, PollDrop
  <1>4. ASSUME NEW t \in Task, RunnerStep(t) PROVE Goal
    BY <1>4, RunnerWakes
  <1>5. ASSUME NEW t \in Task, GitHubStep(t) \/ TTLStep(t) PROVE Goal
    BY <1>2, <1>5 DEF GitHubStep, AskGitHub, TTLStep, sessVars, runnerVars
  <1>6. ASSUME NEW r \in Request, ArriveStep(r) PROVE Goal
    <2>1. PICK kind \in Kind, tok \in Token : Arrive(r, kind, tok)
      BY <1>6 DEF ArriveStep
    <2>2. /\ UNCHANGED <<reaperVars, ctxVars, sessions, phase>>
          /\ \A s \in Request : s # r => req'[s] = req[s]
          /\ req'[r].pc \in {"lookup", "getreg"}
      BY <1>6, <2>1 DEF ArriveStep, Arrive, sessVars, runnerVars, WakerInv, TokenInv, TypeInv,
                        SouthInv, SouthTypeOK
    <2>3. QED
      BY <2>2 DEF WakerInv, WakeInv, WaitInv, EnderInv, PassInv, Wakeable, HadSession,
                  Connecting, SessionsOf, Live, reaperVars, ctxVars
  <1>7. ASSUME NEW r \in Request, SouthStep(r) PROVE Goal
    BY <1>7, RequestWakes
  <1>8. ASSUME NEW tok \in Token, SilenceStep(tok) PROVE Goal
    BY <1>2, <1>8 DEF SilenceStep, SessionAges, runnerVars
  <1>9. CASE ReaperStep
    BY <1>9, ReaperWakes
  <1>10. CASE SignalStep \/ DrainStep
    BY <1>2, <1>10 DEF SignalStep, Signal, DrainStep, Drain, CountSnapshot, CountStatus,
                       CountResult, CountAgain, sessVars, runnerVars
  <1>11. CASE UNCHANGED vars
    BY <1>2, <1>11 DEF vars, sessVars, runnerVars
  <1>12. QED
    BY <1>3, <1>4, <1>5, <1>6, <1>7, <1>8, <1>9, <1>10, <1>11 DEF Next

\* HandleTask never waits, without a timeout, for a runner that nothing can end
\* any more: its task is done, or has a session the runner can report by and the
\* collector can expire, or is just being ended.
THEOREM WaitersWake == ASSUME UniqueIds PROVE Spec => []WaiterHasWaker
  <1>1. WakerInv /\ [Next]_vars => WakerInv'
    BY WakerInvNext
  <1>2. WakerInv => WaiterHasWaker
    BY DEF WakerInv, WakeInv, WaitInv, WaiterHasWaker, Wakeable, HadSession, Unlinked
  <1>3. QED BY <1>1, <1>2, WakerInvInit, PTL DEF Spec
=============================================================================
