---------------------------- MODULE TokenProofs -----------------------------
(***************************************************************************)
(* Theorems about registration tokens and sessions of TaskLifecycle, for   *)
(* every set of instances, tasks and requests, where no two tasks share an *)
(* id.  (Run SharedIds shows what happens where they do.)                  *)
(***************************************************************************)
EXTENDS LifecycleProofs

UniqueIds == \A t, u \in Task : IdOf[t] = IdOf[u] => t = u

\* An indexed token is that of a stored task; it has opened no session yet, and
\* none has opened two.
IndexInv == /\ \A u \in Task : byReg[u] # NoId => /\ u \in assigned
                                                  /\ byReg[u] = IdOf[u]
                                                  /\ tasks[IdOf[u]] = u
                                                  /\ sessionToken[u] = NoToken
                                                  /\ opened[u] = 0
            /\ \A u \in Task \ assigned : sessionToken[u] = NoToken /\ opened[u] = 0
            /\ \A u \in Task : opened[u] \in {0, 1}

\* Sessions and requests are concerned with the task their token was made for.
OwnerInv == /\ SessionRoutesToOwner
            /\ \A r \in Request :
                  req[r].pc \notin {"free", "lookup", "getreg"} => req[r].task = req[r].tok[1]

\* A request that has consumed a registration token is the only one for its
\* task, and it is still to give the task its session token.
Consumer(r) == req[r].pc \in {"create", "link"}

ConsumeInv == \A r \in Request : Consumer(r) =>
                 /\ req[r].task \in assigned
                 /\ byReg[req[r].task] = NoId
                 /\ sessionToken[req[r].task] = NoToken
                 /\ req[r].pc = "create" => opened[req[r].task] = 0
                 /\ \A s \in Request : Consumer(s) /\ req[s].task = req[r].task => s = r

TokenInv == TypeInv /\ IndexInv /\ OwnerInv /\ ConsumeInv

-----------------------------------------------------------------------------
(* The steps *)

\* What steps outside the south handler do to store, tokens and sessions.
StoreStep == /\ UNCHANGED <<req, sessionToken, opened>>
             /\ assigned \subseteq assigned'
             /\ \A tok \in Token : sessions'[tok] \in {sessions[tok], NoTask}
             /\ \/ UNCHANGED storeVars
                \/ \E t \in Task \ assigned : PutPending(t) /\ t \in assigned'
                \/ \E S \in SUBSET Id : RemoveIds(S)

\* Such steps keep the invariants.
LEMMA StoreStepKeeps ==
    ASSUME UniqueIds, TokenInv, StoreStep
    PROVE  IndexInv' /\ OwnerInv' /\ ConsumeInv'
  <1> USE DEF TokenInv, StoreStep
  <1>1. /\ \A u \in Task : tasks[IdOf[u]] \in Task \union {NoTask}
        /\ \A u \in Task : IdOf[u] \in Id
        /\ DOMAIN tasks = Id /\ DOMAIN byReg = Task
        /\ NoId \notin Id
    BY TaskAssumption DEF TypeInv, SharedInv, StoreTypeOK
  <1>2. IndexInv'
    <2>1. CASE UNCHANGED storeVars
      BY <2>1 DEF IndexInv, storeVars
    <2>2. ASSUME NEW t \in Task \ assigned, PutPending(t), t \in assigned' PROVE IndexInv'
      <3>1. ASSUME NEW u \in Task, u # t
            PROVE  byReg'[u] = byReg[u] /\ tasks'[IdOf[u]] = tasks[IdOf[u]]
        BY <1>1, <2>2, <3>1 DEF PutPending, UniqueIds
      <3>2. byReg'[t] = IdOf[t] /\ tasks'[IdOf[t]] = t
        BY <1>1, <2>2 DEF PutPending
      <3>3. QED BY <2>2, <3>1, <3>2 DEF IndexInv
    <2>3. ASSUME NEW S \in SUBSET Id, RemoveIds(S) PROVE IndexInv'
      BY <1>1, <2>3 DEF RemoveIds, IndexInv
    <2>4. QED BY <2>1, <2>2, <2>3
  <1>3. OwnerInv'
    BY DEF OwnerInv, SessionRoutesToOwner, Live
  <1>4. ConsumeInv'
    <2>1. CASE UNCHANGED storeVars
      BY <2>1 DEF ConsumeInv, Consumer, storeVars
    <2>2. ASSUME NEW t \in Task \ assigned, PutPending(t) PROVE ConsumeInv'
      <3>1. ASSUME NEW u \in assigned PROVE byReg'[u] = byReg[u]
        BY <1>1, <2>2, <3>1 DEF PutPending
      <3>2. QED BY <3>1 DEF ConsumeInv, Consumer
    <2>3. ASSUME NEW S \in SUBSET Id, RemoveIds(S) PROVE ConsumeInv'
      <3>1. ASSUME NEW u \in Task, byReg[u] = NoId PROVE byReg'[u] = NoId
        BY <1>1, <2>3, <3>1 DEF RemoveIds
      <3>2. \A r \in Request : Consumer(r) => req[r].task \in Task
        BY DEF TypeInv, SouthInv, Consumer
      <3>3. QED BY <3>1, <3>2 DEF ConsumeInv, Consumer
    <2>4. QED BY <2>1, <2>2, <2>3
  <1>5. QED BY <1>2, <1>3, <1>4

\* Every step but those of the south handler is of that kind.
LEMMA OtherSteps ==
    ASSUME TokenInv, [Next]_vars,
           ~ \E r \in Request : ArriveStep(r) \/ SouthStep(r)
    PROVE  StoreStep
  <1> USE DEF StoreStep, storeVars, ctxVars, surroundVars, sessVars, southVars
  <1>1. ASSUME NEW p \in Instance, PollerStep(p) PROVE StoreStep
    BY <1>1 DEF PollerStep, PollLoop, PollAcquire, PollCancelled, PollNothing, PollAgain,
       PollReceive, PollSend, PollDrop
  <1>2. ASSUME NEW t \in Task, RunnerStep(t) PROVE StoreStep
    <2>1. CASE Unlinks(t)
      BY <1>2, <2>1 DEF RunnerStep, Unlinks, RemoveSession
    <2>2. CASE Drops(t)
      BY <1>2, <2>2, TaskAssumption DEF RunnerStep, Drops, Remove
    <2>3. CASE TriggerOk(t)
      BY <1>2, <2>3 DEF RunnerStep, TriggerOk, MarkDispatched, SetStatus
    <2>4. CASE ReportsFailure(t)
      BY <1>2, <2>4 DEF RunnerStep, ReportsFailure
    <2>5. QED BY <1>2, <2>1, <2>2, <2>3, <2>4 DEF RunnerStep, HandleTask, TriggerReturns,
              AroundTrigger, Start, TriggerFails, Finished, RunnerConnected, StartupTimeout,
              ShutdownUnregistered, ShutdownRegistered, GivesBack
  <1>3. ASSUME NEW t \in Task, GitHubStep(t) \/ TTLStep(t) PROVE StoreStep
    BY <1>3 DEF GitHubStep, AskGitHub, TTLStep, TokenOutlivesTTL
  <1>4. ASSUME NEW tok \in Token, SilenceStep(tok) PROVE StoreStep
    BY <1>4 DEF SilenceStep, SessionAges
  <1>5. CASE ReaperStep
    <2>1. CASE GCSweep
      BY <1>5, <2>1, TaskAssumption DEF ReaperStep, GCSweep, TokenInv, TypeInv, ReaperInv, ReaperTypeOK
    <2>2. CASE GCExpire
      BY <1>5, <2>2 DEF ReaperStep, GCExpire, ExpireStale
    <2>3. CASE GCRemove
      BY <1>5, <2>3, TaskAssumption
         DEF ReaperStep, GCRemove, Remove, TokenInv, TypeInv, ReaperInv
    <2>4. CASE GCMarkDone
      BY <1>5, <2>4 DEF ReaperStep, GCMarkDone, MarkDone
    <2>5. QED BY <1>5, <2>1, <2>2, <2>3, <2>4 DEF ReaperStep, GCLoop, GCSnapshot, GCStop,
              GCInspect, GCReport, GCDone
  <1>6. CASE SignalStep
    BY <1>6 DEF SignalStep, Signal
  <1>7. CASE DrainStep
    BY <1>7 DEF DrainStep, Drain, CountSnapshot, CountStatus, CountResult, CountAgain
  <1>8. CASE UNCHANGED vars
    BY <1>8 DEF vars
  <1>9. QED BY <1>1, <1>2, <1>3, <1>4, <1>5, <1>6, <1>7, <1>8 DEF Next

\* A request arrives, with a token and no task yet.
LEMMA ArriveKeeps ==
    ASSUME TokenInv, NEW r \in Request, ArriveStep(r)
    PROVE  IndexInv' /\ OwnerInv' /\ ConsumeInv'
  <1>1. PICK kind \in Kind, tok \in Token : Arrive(r, kind, tok)
    BY DEF ArriveStep
  <1>2. UNCHANGED <<byReg, tasks, sessionToken, assigned, sessions, opened>>
    BY <1>1 DEF Arrive, storeVars, ctxVars, surroundVars, sessVars
  <1>3. /\ req' = [req EXCEPT ![r] = req'[r]]
        /\ req'[r].pc \in {"getreg", "lookup"}
        /\ DOMAIN req = Request
    BY <1>1 DEF Arrive, TokenInv, TypeInv, SouthInv, SouthTypeOK
  <1>4. IndexInv'
    BY <1>2 DEF TokenInv, IndexInv
  <1>5. OwnerInv' /\ ConsumeInv'
    BY <1>2, <1>3 DEF TokenInv, OwnerInv, SessionRoutesToOwner, Live, ConsumeInv, Consumer
  <1>6. QED BY <1>4, <1>5

\* The steps of one request and what they may do.
OneRequest(r) ==
    /\ req' = [req EXCEPT ![r] = req'[r]]
    /\ UNCHANGED assigned
    /\ \/ /\ UNCHANGED <<byReg, tasks, sessionToken, sessions, opened>>
          /\ ~Consumer(r)'
          /\ req'[r].pc \notin {"free", "lookup", "getreg"} => req'[r].task = req'[r].tok[1]
       \/ /\ Consume(r)
          /\ Consumer(r)'
       \/ CreateSession(r)
       \/ LinkSession(r)
       \/ EndSession(r)
       \/ RemoveTask(r)

\* Every step of a request is of that kind.
LEMMA OneRequestKinds ==
    ASSUME UniqueIds, TokenInv, NEW r \in Request, SouthStep(r)
    PROVE  OneRequest(r)
  <1> USE DEF OneRequest, At, Step, Answer, NoRequest, Consumer, RequestPC,
              storeVars, ctxVars, surroundVars, sessVars
  <1>1. /\ Handle(r)
        /\ req \in [Request -> [pc : RequestPC, kind : Kind, tok : Token \union {NoToken},
                                task : Task \union {NoTask}]]
        /\ req[r].pc # "free" => req[r].tok \in Token
        /\ req[r].pc \notin {"free", "lookup", "getreg"} => req[r].task = req[r].tok[1]
    BY DEF SouthStep, TokenInv, TypeInv, SouthInv, SouthTypeOK, OwnerInv
  <1>2. ASSUME NEW t \in Task, t = req[r].tok[1], Authenticated(r, t), req[r].pc # "free"
        PROVE  /\ req' = [req EXCEPT ![r] = req'[r]]
               /\ ~Consumer(r)'
               /\ req'[r].pc \notin {"free", "lookup", "getreg"} => req'[r].task = req'[r].tok[1]
    BY <1>1, <1>2 DEF Authenticated
  <1>3. CASE LookUp(r)
    <2>1. sessions[req[r].tok] # NoTask => sessions[req[r].tok] = req[r].tok[1]
      BY <1>1, <1>3 DEF LookUp, TokenInv, OwnerInv, SessionRoutesToOwner, Live
    <2>2. QED BY <1>1, <1>3, <2>1 DEF LookUp
  <1>4. CASE TouchSession(r)
    <2>1. CASE req[r].tok \in Live
      <3>1. req[r].task \in Task
        BY <1>4 DEF TouchSession, TokenInv, TypeInv, SouthInv
      <3>2. QED BY <1>1, <1>2, <1>4, <2>1, <3>1 DEF TouchSession, Touch
    <2>2. CASE req[r].tok \notin Live
      BY <1>1, <1>4, <2>2 DEF TouchSession
    <2>3. QED BY <2>1, <2>2
  <1>5. CASE GetReg(r)
    <2> DEFINE u == req[r].tok[1]
    <2>1. u \in Task
      BY <1>1, <1>5 DEF GetReg, Token
    <2>2. byReg[u] # NoId => GetByRegToken(u) = u
      BY <2>1 DEF GetByRegToken, TokenInv, IndexInv
    <2>3. byReg[u] = NoId => GetByRegToken(u) = NoTask
      BY DEF GetByRegToken
    <2>4. UNCHANGED <<byReg, tasks, sessionToken, sessions, opened, assigned>>
      BY <1>5 DEF GetReg
    <2>5. \/ Answer(r)
          \/ u # NoTask /\ req' = [req EXCEPT ![r].pc = "consume", ![r].task = u]
      BY <1>5, <2>2, <2>3, TaskAssumption DEF GetReg
    <2>6. QED BY <1>1, <2>4, <2>5
  <1>6. CASE Consume(r)
    BY <1>1, <1>6 DEF Consume
  <1>7. CASE CreateSession(r)
    BY <1>1, <1>7 DEF CreateSession
  <1>8. CASE LinkSession(r)
    BY <1>1, <1>8 DEF LinkSession
  <1>9. CASE RenewSession(r)
    BY <1>1, <1>9 DEF RenewSession, Touch
  <1>10. CASE MarkRegistered(r)
    <2>1. req[r].task \in Task
      BY <1>10 DEF MarkRegistered, TokenInv, TypeInv, SouthInv
    <2>2. QED BY <1>1, <1>2, <1>10, <2>1 DEF MarkRegistered, MarkRunnerRegistered
  <1>11. CASE Deliver(r)
    BY <1>1, <1>11 DEF Deliver
  <1>12. CASE ForwardOk(r) \/ ForwardError(r)
    BY <1>1, <1>12 DEF ForwardOk, ForwardError
  <1>13. CASE SetTerminal(r)
    BY <1>1, <1>13 DEF SetTerminal, SetStatus
  <1>14. CASE CloseDone(r)
    BY <1>1, <1>14 DEF CloseDone, MarkDone
  <1>15. CASE EndSession(r)
    BY <1>1, <1>15 DEF EndSession
  <1>16. CASE RemoveTask(r)
    BY <1>1, <1>16 DEF RemoveTask
  <1>17. QED
    BY <1>1, <1>3, <1>4, <1>5, <1>6, <1>7, <1>8, <1>9, <1>10, <1>11, <1>12, <1>13, <1>14,
       <1>15, <1>16 DEF Handle

\* Such a step keeps the invariants: of two requests with one token only the
\* first consumes it, and only its session token reaches the task.
LEMMA OneRequestKeeps ==
    ASSUME UniqueIds, TokenInv, TypeInv', NEW r \in Request, OneRequest(r)
    PROVE  IndexInv' /\ OwnerInv' /\ ConsumeInv'
  <1>1. /\ \A s \in Request : s # r => req'[s] = req[s]
        /\ UNCHANGED assigned
        /\ \A s \in Request : Consumer(s)' <=> req'[s].pc \in {"create", "link"}
        /\ \A s \in Request \ {r} : Consumer(s)' <=> Consumer(s)
    BY DEF OneRequest, TokenInv, TypeInv, SouthInv, SouthTypeOK, Consumer
  <1>2. /\ req[r].pc # "free" => req[r].tok \in Token
        /\ req[r].pc \notin {"free", "lookup", "getreg"} =>
              req[r].task \in Task /\ req[r].task = req[r].tok[1]
        /\ DOMAIN req = Request /\ DOMAIN byReg = Task /\ DOMAIN sessionToken = Task
        /\ DOMAIN sessions = Token /\ DOMAIN tasks = Id
    BY DEF TokenInv, TypeInv, SouthInv, OwnerInv, SouthTypeOK, SharedInv, StoreTypeOK, SessInv,
           SessTypeOK
  <1>3. CASE /\ UNCHANGED <<byReg, tasks, sessionToken, sessions, opened>>
             /\ ~Consumer(r)'
             /\ req'[r].pc \notin {"free", "lookup", "getreg"} => req'[r].task = req'[r].tok[1]
    <2>1. IndexInv'
      BY <1>1, <1>3 DEF TokenInv, IndexInv
    <2>2. OwnerInv'
      BY <1>1, <1>3 DEF TokenInv, OwnerInv, SessionRoutesToOwner, Live
    <2>3. ConsumeInv'
      BY <1>1, <1>3 DEF TokenInv, ConsumeInv
    <2>4. QED BY <2>1, <2>2, <2>3
  <1>4. CASE Consume(r) /\ Consumer(r)'
    <2> DEFINE t == req[r].task
    <2>1. /\ t \in Task /\ t = req[r].tok[1]
          /\ byReg[t] # NoId
          /\ byReg' = [byReg EXCEPT ![t] = NoId]
          /\ UNCHANGED <<tasks, sessionToken, sessions, opened>>
          /\ req' = [req EXCEPT ![r].pc = "create"]
      BY <1>1, <1>2, <1>4 DEF Consume, At, Step, Answer, NoRequest, MarkRegTokenConsumed, ctxVars,
                         sessVars, storeVars
    <2>2. t \in assigned /\ sessionToken[t] = NoToken /\ opened[t] = 0
      BY <2>1 DEF TokenInv, IndexInv
    <2>3. \A s \in Request : Consumer(s) => req[s].task # t
      BY <2>1 DEF TokenInv, ConsumeInv
    <2>4. \A s \in Request : req'[s].task = req[s].task /\ req'[s].tok = req[s].tok
      BY <2>1, <1>2 DEF TokenInv, TypeInv, SouthInv, SouthTypeOK
    <2>5. IndexInv'
      BY <1>1, <1>2, <2>1 DEF TokenInv, IndexInv
    <2>6. OwnerInv'
      BY <1>1, <2>1, <2>4 DEF TokenInv, OwnerInv, SessionRoutesToOwner, Live
    <2>7. \A u \in Task : u # t => byReg'[u] = byReg[u]
      BY <1>2, <2>1
    <2>8. byReg'[t] = NoId
      BY <1>2, <2>1
    <2>9. ASSUME NEW q \in Request, Consumer(q)'
          PROVE  /\ req'[q].task \in assigned'
                 /\ byReg'[req'[q].task] = NoId
                 /\ sessionToken'[req'[q].task] = NoToken
                 /\ req'[q].pc = "create" => opened'[req'[q].task] = 0
                 /\ \A s \in Request : Consumer(s)' /\ req'[s].task = req'[q].task => s = q
      <3>1. CASE q = r
        BY <1>1, <2>1, <2>2, <2>3, <2>4, <2>8, <3>1
      <3>2. CASE q # r
        <4>1. Consumer(q) /\ req[q].task # t /\ req[q].task \in Task
          BY <1>1, <2>3, <2>9, <3>2 DEF TokenInv, TypeInv, SouthInv, Consumer
        <4>2. QED
          BY <1>1, <2>1, <2>4, <2>7, <3>2, <4>1 DEF TokenInv, ConsumeInv
      <3>3. QED BY <3>1, <3>2
    <2>10. QED BY <2>5, <2>6, <2>9 DEF ConsumeInv
  <1>5. CASE CreateSession(r)
    <2> DEFINE t == req[r].task
    <2>1. /\ UNCHANGED <<byReg, tasks, sessionToken>>
          /\ Consumer(r) /\ req[r].pc = "create" /\ req'[r].pc = "link"
          /\ \A s \in Request : req'[s].task = req[s].task
          /\ \A s \in Request : req'[s].tok[1] = req[s].tok[1]
          /\ t \in Task /\ t = req[r].tok[1]
          /\ NewToken(r) \in Token /\ NewToken(r)[1] = t
          /\ sessions' = [sessions EXCEPT ![NewToken(r)] = t]
          /\ opened' = [opened EXCEPT ![t] = @ + 1]
      <3>1. /\ NewToken(r) \in Token /\ NewToken(r)[1] = req[r].tok[1]
            /\ opened' = [opened EXCEPT ![req[r].tok[1]] = @ + 1]
        BY <1>5, NewTokenFacts DEF TokenInv, TypeInv
      <3>2. /\ req[r].pc = "create"
            /\ req' = [req EXCEPT ![r].pc = "link", ![r].tok = NewToken(r)]
        BY <1>5 DEF CreateSession, At
      <3>3. \A s \in Request : req'[s].task = req[s].task /\ req'[s].tok[1] = req[s].tok[1]
        BY <1>1, <1>2, <3>1, <3>2 DEF TokenInv, TypeInv, SouthInv, SouthTypeOK
      <3>4. req'[r].pc = "link"
        BY <3>2 DEF TokenInv, TypeInv, SouthInv, SouthTypeOK
      <3>5. QED
        BY <1>2, <1>5, <3>1, <3>2, <3>3, <3>4
           DEF CreateSession, InsertSession, Consumer, storeVars, ctxVars
    <2>2. opened[t] = 0
      BY <2>1 DEF TokenInv, ConsumeInv
    <2>3. /\ opened'[t] = 1
          /\ \A u \in Task : u # t => opened'[u] = opened[u]
          /\ t \in assigned /\ byReg[t] = NoId
      BY <2>1, <2>2 DEF TokenInv, TypeInv, SessInv, SessTypeOK, ConsumeInv
    <2>4. IndexInv'
      BY <1>1, <2>1, <2>3 DEF TokenInv, IndexInv
    <2>5. OwnerInv'
      <3>1. \A tok \in Token : sessions'[tok] # NoTask => sessions'[tok] = tok[1]
        BY <1>2, <2>1 DEF TokenInv, OwnerInv, SessionRoutesToOwner, Live
      <3>2. QED
        BY <1>1, <2>1, <3>1 DEF TokenInv, OwnerInv, SessionRoutesToOwner, Live
    <2>6. ASSUME NEW q \in Request, q # r, Consumer(q)'
          PROVE  Consumer(q) /\ req'[q] = req[q] /\ req[q].task # t /\ req[q].task \in Task
      BY <1>1, <2>1, <2>6 DEF TokenInv, TypeInv, SouthInv, ConsumeInv, Consumer
    <2>7. ASSUME NEW q \in Request, Consumer(q)'
          PROVE  /\ req'[q].task \in assigned'
                 /\ byReg'[req'[q].task] = NoId
                 /\ sessionToken'[req'[q].task] = NoToken
                 /\ req'[q].pc = "create" => opened'[req'[q].task] = 0
                 /\ \A s \in Request : Consumer(s)' /\ req'[s].task = req'[q].task => s = q
      <3>1. CASE q = r
        BY <1>1, <2>1, <2>6, <3>1 DEF TokenInv, ConsumeInv
      <3>2. CASE q # r
        BY <1>1, <2>1, <2>3, <2>6, <2>7, <3>2 DEF TokenInv, ConsumeInv
      <3>3. QED BY <3>1, <3>2
    <2>8. ConsumeInv'
      BY <2>7 DEF ConsumeInv
    <2>9. QED BY <2>4, <2>5, <2>8
  <1>6. CASE LinkSession(r)
    <2> DEFINE t == req[r].task
    <2>1. /\ UNCHANGED <<byReg, tasks, sessions, opened>>
          /\ Consumer(r) /\ ~Consumer(r)'
          /\ t \in Task /\ t = req[r].tok[1]
          /\ \A u \in Task : u # t => sessionToken'[u] = sessionToken[u]
          /\ \A s \in Request : req'[s].task = req[s].task /\ req'[s].tok = req[s].tok
      BY <1>2, <1>6
         DEF LinkSession, SetSessionToken, At, Step, storeVars, sessVars, Consumer,
             TokenInv, TypeInv, SouthInv, SouthTypeOK
    <2>2. t \in assigned /\ byReg[t] = NoId
      BY <2>1 DEF TokenInv, ConsumeInv
    <2>3. IndexInv'
      BY <1>1, <2>1, <2>2 DEF TokenInv, IndexInv
    <2>4. OwnerInv'
      BY <1>1, <2>1 DEF TokenInv, OwnerInv, SessionRoutesToOwner, Live
    <2>5. ASSUME NEW q \in Request, Consumer(q)'
          PROVE  q # r /\ Consumer(q) /\ req[q].task # t /\ req[q].task \in Task
      BY <1>1, <2>1, <2>5 DEF TokenInv, ConsumeInv, TypeInv, SouthInv, Consumer
    <2>6. ConsumeInv'
      BY <1>1, <2>1, <2>5 DEF TokenInv, ConsumeInv
    <2>7. QED BY <2>3, <2>4, <2>6
  <1>7. CASE EndSession(r)
    <2>1. /\ UNCHANGED <<byReg, tasks, sessionToken, opened>>
          /\ ~Consumer(r)'
          /\ \A s \in Request : req'[s].task = req[s].task /\ req'[s].tok = req[s].tok
          /\ req[r].task = req[r].tok[1]
          /\ \A tok \in Token : sessions'[tok] \in {sessions[tok], NoTask}
      BY <1>2, <1>7
         DEF EndSession, RemoveSession, At, Step, Consumer, storeVars, ctxVars, TokenInv, TypeInv,
             SouthInv, SouthTypeOK
    <2>2. IndexInv'
      BY <1>1, <2>1 DEF TokenInv, IndexInv
    <2>3. OwnerInv'
      BY <1>1, <2>1 DEF TokenInv, OwnerInv, SessionRoutesToOwner, Live
    <2>4. ConsumeInv'
      BY <1>1, <2>1 DEF TokenInv, ConsumeInv
    <2>5. QED BY <2>2, <2>3, <2>4
  <1>8. CASE RemoveTask(r)
    <2> DEFINE S == {IdOf[req[r].task]}
    <2>1. /\ RemoveIds(S)
          /\ UNCHANGED <<sessionToken, sessions, opened>>
          /\ req'[r].pc = "free"
          /\ S \in SUBSET Id
      BY <1>2, <1>8, TaskAssumption
         DEF RemoveTask, Remove, At, Answer, NoRequest, ctxVars, sessVars, TokenInv, TypeInv,
             SouthInv, SouthTypeOK
    <2> HIDE DEF S
    <2>2. /\ \A u \in Task : byReg[u] = NoId => byReg'[u] = NoId
          /\ \A u \in Task : byReg'[u] # NoId => byReg'[u] = byReg[u] /\ byReg[u] \notin S
      BY <2>1, TaskAssumption DEF RemoveIds
    <2>3. \A u \in Task : byReg'[u] # NoId => tasks'[IdOf[u]] = tasks[IdOf[u]]
      BY <2>1, <2>2, TaskAssumption DEF RemoveIds, TokenInv, IndexInv
    <2>4. IndexInv'
      BY <1>1, <2>1, <2>2, <2>3 DEF TokenInv, IndexInv
    <2>5. OwnerInv'
      BY <1>1, <2>1 DEF TokenInv, OwnerInv, SessionRoutesToOwner, Live
    <2>6. \A q \in Request : Consumer(q)' => q # r /\ req[q].task \in Task
      BY <1>1, <2>1 DEF TokenInv, TypeInv, SouthInv, Consumer
    <2>7. ConsumeInv'
      BY <1>1, <2>1, <2>2, <2>6 DEF TokenInv, ConsumeInv
    <2>8. QED BY <2>4, <2>5, <2>7
  <1>9. QED BY <1>3, <1>4, <1>5, <1>6, <1>7, <1>8 DEF OneRequest

-----------------------------------------------------------------------------
(* The theorems *)

\* Before anything is assigned there are no tokens and no sessions.
LEMMA TokenInvInit == Init => TokenInv
  <1> SUFFICES ASSUME Init PROVE TokenInv
    OBVIOUS
  <1>1. IndexInv
    BY DEF Init, StoreInit, SessInit, IndexInv
  <1>2. OwnerInv
    BY DEF Init, SessInit, SouthInit, NoRequest, OwnerInv, SessionRoutesToOwner, Live
  <1>3. ConsumeInv
    BY DEF Init, SouthInit, NoRequest, ConsumeInv, Consumer
  <1>4. QED BY <1>1, <1>2, <1>3, TypeInvInit DEF TokenInv

\* No step of the daemon breaks the invariants of the tokens.
LEMMA TokenInvNext == UniqueIds /\ TokenInv /\ [Next]_vars => TokenInv'
  <1> SUFFICES ASSUME UniqueIds, TokenInv, [Next]_vars PROVE TokenInv'
    OBVIOUS
  <1>1. TypeInv'
    BY TypeInvNext DEF TokenInv
  <1>2. CASE \E r \in Request : ArriveStep(r)
    BY <1>1, <1>2, ArriveKeeps DEF TokenInv
  <1>3. CASE \E r \in Request : SouthStep(r)
    BY <1>1, <1>3, OneRequestKinds, OneRequestKeeps DEF TokenInv
  <1>4. CASE ~ \E r \in Request : ArriveStep(r) \/ SouthStep(r)
    BY <1>1, <1>4, OtherSteps, StoreStepKeeps DEF TokenInv
  <1>5. QED BY <1>2, <1>3, <1>4

\* The invariants of the tokens hold throughout.
LEMMA TokensKept == ASSUME UniqueIds PROVE Spec => []TokenInv
  <1>1. TokenInv /\ [Next]_vars => TokenInv'
    BY TokenInvNext
  <1>2. QED BY <1>1, TokenInvInit, PTL DEF Spec

\* The index of registration tokens and the task map never disagree: no removal,
\* by whichever of HandleTask, handler and collector, leaves an entry behind.
THEOREM IndexIsSound == ASSUME UniqueIds PROVE Spec => []TokenIndexSound
  <1>1. TokenInv => TokenIndexSound
    BY DEF TokenInv, IndexInv, TokenIndexSound, GetByRegToken
  <1>2. QED BY <1>1, TokensKept, PTL

\* Every session opens the task its token was generated for, and with it that
\* task's instance: README's routing promise, where ids are not shared.
THEOREM SessionsRouted == ASSUME UniqueIds PROVE Spec => []SessionRoutesToOwner
  <1>1. TokenInv => SessionRoutesToOwner
    BY DEF TokenInv, OwnerInv
  <1>2. QED BY <1>1, TokensKept, PTL
=============================================================================
