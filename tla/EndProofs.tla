----------------------------- MODULE EndProofs ------------------------------
(***************************************************************************)
(* Theorems about the end of a task and of the daemon in TaskLifecycle,    *)
(* for every set of instances, tasks and requests, where no two tasks      *)
(* share an id.                                                            *)
(***************************************************************************)
EXTENDS WakerProofs, ReportProofs

\* tok is the session token of t, or LinkSession is about to make it that.
TokenOf(tok, t) ==
    \/ sessionToken[t] = tok
    \/ \E r \in Request : req[r].pc = "link" /\ req[r].task = t /\ req[r].tok = tok

\* A request that acts for the session its token opened.
Acting == {"renew", "mark", "touch", "deliver", "forward", "setTerminal", "markDone",
           "removeSession", "removeTask"}
Acts(r) == req[r].pc \in Acting

\* Sessions, and requests that act for one, go by the one session token of the task.
OneTokenInv == /\ \A tok \in Live : TokenOf(tok, sessions[tok])
               /\ \A r \in Request : Acts(r) => TokenOf(req[r].tok, req[r].task)

\* The tasks that are ended or about to be.
Ending == done \union dead \union (Task \intersect {reaping})

\* They had a session, and keep none but one that is about to be removed.
EndingInv ==
    \A t \in Ending :
        /\ \E tok \in Token : TokenOf(tok, t)
        /\ \A tok \in SessionsOf(t) :
              \E r \in Request : req[r].pc = "removeSession" /\ req[r].task = t /\ req[r].tok = tok

\* A task that is done and stored is just being removed.
Removing(t) ==
    \/ \E r \in Request : req[r].task = t /\ req[r].pc \in {"removeSession", "removeTask"}
    \/ gpc = "remove" /\ reaping = t

RemovalInv == \A t \in done : t \in Stored => Removing(t)

\* HandleTask returns once the task is removed or done.
ExitInv == \A t \in Task : phase[t] \in {"sdGiveBack", "exit"} => t \notin Stored \/ t \in done

EndInv == WakerInv /\ OnItsWay /\ OneTokenInv /\ EndingInv /\ RemovalInv /\ ExitInv

-----------------------------------------------------------------------------
(* The end of a task *)

\* A task has one session token at most.
LEMMA OneToken ==
    ASSUME TokenInv, NEW t \in Task, NEW a \in Token, NEW b \in Token, TokenOf(a, t), TokenOf(b, t)
    PROVE  a = b
  BY TokenAssumption DEF TokenInv, ConsumeInv, Consumer, TokenOf

\* It has none while its registration token is not consumed, or the session is
\* still to be created.
LEMMA NoTokenYet ==
    ASSUME TokenInv, NEW t \in Task, NEW a \in Token, TokenOf(a, t)
    PROVE  /\ t \in assigned
           /\ byReg[t] = NoId
           /\ \A r \in Request : ~(req[r].pc = "create" /\ req[r].task = t)
  BY TokenAssumption DEF TokenInv, IndexInv, ConsumeInv, Consumer, TokenOf

\* No step takes it back.
LEMMA TokenKept ==
    ASSUME UniqueIds, TokenInv, [Next]_vars, NEW t \in Task, NEW a \in Token, TokenOf(a, t)
    PROVE  TokenOf(a, t)'
  <1>1. CASE \E r \in Request : SouthStep(r)
    <2>1. PICK r \in Request : SouthStep(r)
      BY <1>1
    <2>2. /\ \A s \in Request : s # r => req'[s] = req[s]
          /\ UNCHANGED sessionToken \/ LinkSession(r)
          /\ req[r].pc = "link" => LinkSession(r)
      <3>1. OneRequest(r)
        BY <2>1, OneRequestKinds
      <3>2. req[r].pc = "link" => LinkSession(r)
        BY <2>1 DEF SouthStep, Handle, LookUp, TouchSession, GetReg, Consume, CreateSession,
                    RenewSession, MarkRegistered, Deliver, ForwardOk, ForwardError, SetTerminal,
                    CloseDone, EndSession, RemoveTask, At
      <3>3. QED
        BY <3>1, <3>2 DEF OneRequest, Consume, CreateSession, EndSession, RemoveTask, ctxVars,
                          TokenInv, TypeInv, SouthInv, SouthTypeOK
    <2>3. CASE LinkSession(r)
      <3>1. /\ req[r].pc = "link" /\ req[r].task \in Task
            /\ sessionToken' = [sessionToken EXCEPT ![req[r].task] = req[r].tok]
        BY <2>3 DEF LinkSession, SetSessionToken, At, TokenInv, TypeInv, SouthInv
      <3>2. sessionToken[req[r].task] = NoToken
        BY <3>1 DEF TokenInv, ConsumeInv, Consumer
      <3>3. CASE sessionToken[t] = a
        BY <3>1, <3>2, <3>3, TokenAssumption DEF TokenOf, TokenInv, TypeInv, SharedInv, StoreTypeOK
      <3>4. ASSUME NEW s \in Request, req[s].pc = "link", req[s].task = t, req[s].tok = a
            PROVE  TokenOf(a, t)'
        <4>1. CASE s = r
          BY <3>1, <3>4, <4>1 DEF TokenOf, TokenInv, TypeInv, SharedInv, StoreTypeOK
        <4>2. CASE s # r
          BY <2>2, <3>4, <4>2 DEF TokenOf
        <4>3. QED BY <4>1, <4>2
      <3>5. QED BY <3>3, <3>4 DEF TokenOf
    <2>4. CASE ~LinkSession(r)
      BY <2>2, <2>4 DEF TokenOf
    <2>5. QED BY <2>3, <2>4
  <1>2. CASE \E r \in Request : ArriveStep(r)
    <2>1. PICK r \in Request, kind \in Kind, tok \in Token : Arrive(r, kind, tok)
      BY <1>2 DEF ArriveStep
    <2>2. /\ \A s \in Request : s # r => req'[s] = req[s]
          /\ req[r].pc = "free"
          /\ UNCHANGED sessionToken
      BY <2>1 DEF Arrive, At, ctxVars, TokenInv, TypeInv, SouthInv, SouthTypeOK
    <2>3. QED BY <2>2 DEF TokenOf
  <1>3. CASE ~ \E r \in Request : ArriveStep(r) \/ SouthStep(r)
    BY <1>3, OtherSteps DEF StoreStep, TokenOf
  <1>4. QED BY <1>1, <1>2, <1>3

\* What a step that leaves the requests, sessions and the collector alone may do.
LEMMA CalmKeeps ==
    ASSUME UniqueIds, EndInv, [Next]_vars, StoreStep,
           UNCHANGED <<done, dead, reaping>>, gpc = "remove" => gpc' = "remove"
    PROVE  OneTokenInv' /\ EndingInv' /\ RemovalInv'
  <1> USE DEF EndInv, WakerInv, StoreStep
  <1>1. /\ \A t \in Task, tok \in Token : TokenOf(tok, t) => TokenOf(tok, t)'
        /\ \A t \in Task : SessionsOf(t)' \subseteq SessionsOf(t)
        /\ \A tok \in Live' : tok \in Live /\ sessions'[tok] = sessions[tok]
        /\ \A tok \in Live : sessions[tok] \in Task
        /\ \A r \in Request : Acts(r) => req[r].tok \in Token /\ req[r].task \in Task
    BY TokenKept
       DEF SessionsOf, Live, TokenInv, TypeInv, SessInv, SessTypeOK, SouthInv, Acts, Acting
  <1>2. OneTokenInv'
    BY <1>1 DEF OneTokenInv, Acts, Live
  <1>3. EndingInv'
    <2>1. Ending' = Ending /\ Ending \subseteq Task
      BY DEF Ending, TokenInv, TypeInv, SharedInv, StoreTypeOK, ReaperInv, ReaperTypeOK
    <2>2. QED BY <1>1, <2>1 DEF EndingInv
  <1>4. \A t \in Stored' : t \in Stored \/ t \notin assigned
    BY TaskAssumption DEF Stored, storeVars, PutPending, RemoveIds, TokenInv, TypeInv, SharedInv, StoreTypeOK
  <1>5. \A t \in done : t \in assigned
    BY NoTokenYet DEF EndingInv, Ending, TokenInv, TypeInv, SharedInv, StoreTypeOK
  <1>6. RemovalInv'
    BY <1>4, <1>5 DEF RemovalInv, Removing
  <1>7. QED BY <1>2, <1>3, <1>6

\* The collector ends a task only after it has taken the one session it had.
LEMMA CollectorEnds ==
    ASSUME UniqueIds, EndInv, [Next]_vars, StoreStep, ReaperStep
    PROVE  OneTokenInv' /\ EndingInv' /\ RemovalInv'
  <1> USE DEF ReaperStep, EndInv, WakerInv
  <1>1. /\ done \subseteq Task /\ dead \subseteq Task
        /\ sessions \in [Token -> Task \union {NoTask}] /\ stale \subseteq Live
        /\ NoTask \notin Task
        /\ gpc \in {"finish", "remove"} => reaping \in Task
    BY TaskAssumption DEF TokenInv, TypeInv, SharedInv, StoreTypeOK, ReaperInv, ReaperTypeOK, SessInv, SessTypeOK
  <1>2. /\ UNCHANGED <<req, sessionToken>>
        /\ \A t \in Task, tok \in Token : TokenOf(tok, t) => TokenOf(tok, t)'
        /\ \A t \in Task : SessionsOf(t)' \subseteq SessionsOf(t)
        /\ \A t \in done : t \in Stored' => t \in Stored
    <2>1. \A t \in Stored' : t \in Stored \/ t \notin assigned
      BY TaskAssumption DEF StoreStep, Stored, storeVars, PutPending, RemoveIds, TokenInv, TypeInv, SharedInv, StoreTypeOK
    <2>2. \A t \in done : t \in assigned
      BY <1>1, NoTokenYet DEF EndingInv, Ending
    <2>3. QED BY <2>1, <2>2, TokenKept DEF StoreStep, SessionsOf, Live
  <1>3. OneTokenInv'
    BY <1>1, <1>2 DEF OneTokenInv, Acts, Acting, Live, StoreStep, TokenInv, TypeInv, SouthInv
  <1>4. ASSUME Ending' \subseteq Ending PROVE EndingInv'
    BY <1>1, <1>2, <1>4 DEF EndingInv, Ending
  <1>5. ASSUME UNCHANGED done, gpc = "remove" => UNCHANGED <<gpc, reaping>> PROVE RemovalInv'
    BY <1>2, <1>5 DEF RemovalInv, Removing
  <1>6. CASE GCExpire
    <2>1. dead = {} /\ reaping = NoTask /\ UNCHANGED <<done, reaping>> /\ gpc = "expire"
      BY <1>6 DEF GCExpire, ctxVars, PassInv
    <2>2. ASSUME NEW t \in dead'
          PROVE  t \in Task /\ SessionsOf(t)' = {} /\ \E tok \in Token : TokenOf(tok, t)
      <3>1. PICK tok \in stale : t = sessions[tok]
        BY <1>6, <2>2 DEF GCExpire
      <3>2. tok \in Token /\ t \in Task /\ TokenOf(tok, t)
        BY <1>1, <3>1 DEF Live, OneTokenInv
      <3>3. \A a \in SessionsOf(t) : a = tok
        BY <3>2, OneToken DEF SessionsOf, Live, OneTokenInv
      <3>4. sessions'[tok] = NoTask
        BY <1>6, <3>1, <3>2 DEF GCExpire, ExpireStale
      <3>5. SessionsOf(t)' = {}
        BY <1>2, <3>2, <3>3, <3>4 DEF SessionsOf, Live
      <3>6. QED BY <3>2, <3>5
    <2>3. EndingInv'
      BY <1>1, <1>2, <2>1, <2>2 DEF EndingInv, Ending
    <2>4. QED BY <1>3, <1>5, <2>1, <2>3
  <1>7. CASE \E t \in Task : GCReport(t)
    <2>1. Ending' \subseteq Ending
      BY <1>7 DEF GCReport, Ending, ctxVars
    <2>2. QED BY <1>3, <1>4, <1>5, <1>7, <2>1 DEF GCReport, ctxVars
  <1>8. CASE GCMarkDone
    <2>1. Ending' \subseteq Ending
      BY <1>1, <1>8 DEF GCMarkDone, MarkDone, Ending
    <2>2. RemovalInv'
      BY <1>2, <1>8 DEF GCMarkDone, MarkDone, RemovalInv, Removing
    <2>3. QED BY <1>3, <1>4, <2>1, <2>2
  <1>9. CASE GCRemove
    <2>1. Ending' \subseteq Ending
      BY <1>1, <1>9 DEF GCRemove, Ending, ctxVars
    <2>2. reaping \notin Stored'
      BY <1>1, <1>9, TaskAssumption
         DEF GCRemove, Remove, RemoveIds, Stored, TokenInv, TypeInv, SharedInv, StoreTypeOK
    <2>3. RemovalInv'
      BY <1>2, <1>9, <2>2 DEF GCRemove, RemovalInv, Removing, ctxVars
    <2>4. QED BY <1>3, <1>4, <2>1, <2>3
  <1>10. CASE GCSnapshot \/ GCStop \/ GCSweep \/ GCDone \/ \E t \in Task : GCInspect(t)
    <2>1. UNCHANGED <<done, dead, reaping>> /\ gpc # "remove"
      BY <1>10 DEF GCSnapshot, GCStop, GCSweep, GCDone, GCInspect, ctxVars
    <2>2. QED BY <1>3, <1>4, <1>5, <2>1 DEF Ending
  <1>11. QED BY <1>6, <1>7, <1>8, <1>9, <1>10 DEF GCLoop

\* A request ends a task only by the one session it has, and removes that next.
LEMMA RequestEnds ==
    ASSUME UniqueIds, EndInv, [Next]_vars, NEW r \in Request, SouthStep(r)
    PROVE  OneTokenInv' /\ EndingInv' /\ RemovalInv'
  <1>0. PICK t : t = req[r].task
    OBVIOUS
  <1> USE DEF EndInv, WakerInv
  <1>1. /\ Handle(r) /\ t = req[r].task
        /\ UNCHANGED <<gpc, dead, reaping>>
        /\ \A s \in Request : s # r => req'[s] = req[s]
        /\ req \in [Request -> [pc : RequestPC, kind : Kind, tok : Token \union {NoToken},
                                task : Task \union {NoTask}]]
        /\ req[r].pc # "free" => req[r].tok \in Token
        /\ req[r].pc \notin {"free", "lookup", "getreg"} => t \in Task /\ t = req[r].tok[1]
        /\ done \subseteq Task /\ dead \subseteq Task
        /\ sessions \in [Token -> Task \union {NoTask}]
        /\ \A s \in Request : Acts(s) => req[s].tok \in Token /\ req[s].task \in Task
    BY <1>0, OneRequestKinds
       DEF SouthStep, reaperVars, OneRequest, TokenInv, TypeInv, SouthInv, SouthTypeOK, OwnerInv,
           SharedInv, StoreTypeOK, ReaperInv, ReaperTypeOK, SessInv, SessTypeOK, Acts, Acting
  <1>2. \A u \in Task, tok \in Token : TokenOf(tok, u) => TokenOf(tok, u)'
    BY TokenKept
  <1>3. ASSUME UNCHANGED <<sessions, done>>,
               UNCHANGED tasks,
               Acts(r)' => TokenOf(req[r].tok, req[r].task)',
               req[r].pc \notin {"removeSession", "removeTask"}
        PROVE  OneTokenInv' /\ EndingInv' /\ RemovalInv'
    <2>1. OneTokenInv'
      BY <1>1, <1>2, <1>3 DEF OneTokenInv, Acts, Live
    <2>2. EndingInv'
      BY <1>1, <1>2, <1>3 DEF EndingInv, Ending, SessionsOf, Live
    <2>3. RemovalInv'
      BY <1>1, <1>3 DEF RemovalInv, Removing, Stored
    <2>4. QED BY <2>1, <2>2, <2>3
  <1> USE DEF At, Step, Answer, NoRequest, ctxVars, sessVars, storeVars
  <1>4. CASE LookUp(r)
    <2>1. Acts(r)' => /\ req'[r].tok = req[r].tok /\ req[r].tok \in Live
                      /\ req'[r].task = sessions[req[r].tok]
      BY <1>1, <1>4 DEF LookUp, Acts, Acting, Live
    <2>2. Acts(r)' => TokenOf(req[r].tok, req[r].task)'
      BY <1>1, <1>2, <2>1 DEF OneTokenInv, Live
    <2>3. QED BY <1>3, <1>4, <2>2 DEF LookUp
  <1>5. ASSUME Acts(r), Acts(r)' => req'[r].tok = req[r].tok /\ req'[r].task = t
        PROVE  Acts(r)' => TokenOf(req[r].tok, req[r].task)'
    BY <1>1, <1>2, <1>5 DEF OneTokenInv
  <1>6. CASE TouchSession(r)
    <2>1. Acts(r) /\ UNCHANGED <<sessions, done, tasks>> /\ req[r].pc = "touch"
      BY <1>6 DEF TouchSession, Touch, Acts, Acting
    <2>2. Acts(r)' => req'[r].tok = req[r].tok /\ req'[r].task = t
      <3>1. CASE req[r].tok \in Live
        <4>1. Authenticated(r, t)
          BY <1>1, <1>6, <3>1 DEF TouchSession
        <4>2. QED BY <1>1, <4>1 DEF Authenticated, Acts, Acting
      <3>2. CASE req[r].tok \notin Live
        <4>1. req'[r].pc = "free"
          BY <1>1, <1>6, <3>2 DEF TouchSession
        <4>2. QED BY <4>1 DEF Acts, Acting
      <3>3. QED BY <3>1, <3>2
    <2>3. QED BY <1>3, <1>5, <2>1, <2>2
  <1>7. CASE GetReg(r)
    BY <1>1, <1>3, <1>7 DEF GetReg, Acts, Acting
  <1>8. CASE Consume(r)
    BY <1>1, <1>3, <1>8 DEF Consume, MarkRegTokenConsumed, Acts, Acting
  <1>9. CASE CreateSession(r)
    <2>0. PICK new : new = NewToken(r)
      OBVIOUS
    <2>1. /\ new = NewToken(r)
          /\ UNCHANGED <<done, tasks>> /\ req[r].pc = "create"
          /\ new \in Token /\ t \in Task
          /\ sessions' = [sessions EXCEPT ![new] = t]
          /\ req' = [req EXCEPT ![r].pc = "link", ![r].tok = new]
      <3>1. NewToken(r) \in Token
        BY <1>9, NewTokenFacts DEF TokenInv, TypeInv
      <3>2. QED BY <1>1, <1>9, <2>0, <3>1 DEF CreateSession, InsertSession
    <2>2. \A tok \in Token : ~TokenOf(tok, t)
      BY <1>1, <2>1, NoTokenYet
    <2>3. TokenOf(new, t)'
      BY <1>1, <2>1 DEF TokenOf
    <2>4. \A u \in Ending : u # t
      BY <2>2 DEF EndingInv
    <2>5. \A u \in Task : u # t => SessionsOf(u)' \subseteq SessionsOf(u)
      BY <1>1, <2>1 DEF SessionsOf, Live
    <2>6. OneTokenInv'
      <3>1. ASSUME NEW tok \in Live' PROVE TokenOf(tok, sessions[tok])'
        <4>1. CASE tok = new
          BY <1>1, <2>1, <2>3, <4>1
        <4>2. CASE tok # new
          BY <1>1, <1>2, <2>1, <3>1, <4>2 DEF Live, OneTokenInv
        <4>3. QED BY <4>1, <4>2
      <3>2. ~Acts(r)'
        BY <1>1, <2>1 DEF Acts, Acting
      <3>3. QED BY <1>1, <1>2, <3>1, <3>2 DEF OneTokenInv, Acts
    <2>7. EndingInv'
      BY <1>1, <1>2, <2>1, <2>4, <2>5 DEF EndingInv, Ending
    <2>8. RemovalInv'
      BY <1>1, <2>1 DEF RemovalInv, Removing, Stored
    <2>9. QED BY <2>6, <2>7, <2>8
  <1>10. CASE LinkSession(r)
    <2>1. /\ UNCHANGED <<sessions, done, tasks>> /\ req[r].pc = "link"
          /\ sessionToken'[t] = req[r].tok
          /\ req'[r].task = t /\ req'[r].tok = req[r].tok /\ req'[r].kind = req[r].kind
          /\ req'[r].pc \in {"renew", "mark"}
      BY <1>1, <1>10 DEF LinkSession, SetSessionToken, TokenInv, TypeInv, SharedInv, StoreTypeOK
    <2>2. Acts(r)' => TokenOf(req[r].tok, req[r].task)'
      BY <2>1 DEF Acts, Acting, TokenOf
    <2>3. QED BY <1>3, <2>1, <2>2
  <1>11. CASE RenewSession(r)
    <2>1. /\ UNCHANGED <<sessions, done, tasks>> /\ req[r].pc = "renew"
          /\ req'[r].task = t /\ req'[r].tok = req[r].tok /\ req'[r].kind = req[r].kind
          /\ req'[r].pc = "mark"
      BY <1>1, <1>11 DEF RenewSession, Touch
    <2>2. Acts(r)' => TokenOf(req[r].tok, req[r].task)'
      BY <1>1, <1>2, <2>1 DEF OneTokenInv, Acts, Acting
    <2>3. QED BY <1>3, <2>1, <2>2
  <1>12. CASE MarkRegistered(r)
    <2>1. /\ UNCHANGED <<sessions, done, tasks>> /\ req[r].pc = "mark"
      BY <1>12 DEF MarkRegistered, MarkRunnerRegistered
    <2>2. Acts(r)' => Acts(r) /\ req'[r].task = t /\ req'[r].tok = req[r].tok
      BY <1>1, <1>12, <2>1 DEF MarkRegistered, Authenticated, Acts, Acting
    <2>3. Acts(r)' => TokenOf(req[r].tok, req[r].task)'
      BY <1>5, <2>2
    <2>4. QED BY <1>3, <2>1, <2>3
  <1>13. CASE Deliver(r) \/ ForwardOk(r) \/ ForwardError(r) \/ SetTerminal(r)
    <2>1. /\ UNCHANGED <<sessions, done, tasks>>
          /\ req[r].pc \in {"deliver", "forward", "setTerminal"}
      BY <1>13 DEF Deliver, ForwardOk, ForwardError, SetTerminal, SetStatus
    <2>2. Acts(r) /\ (Acts(r)' => req'[r].tok = req[r].tok /\ req'[r].task = t)
      BY <1>1, <1>13, <2>1 DEF Deliver, ForwardOk, ForwardError, SetTerminal, Acts, Acting
    <2>3. QED BY <1>3, <1>5, <2>1, <2>2
  <1>14. CASE CloseDone(r)
    <2>1. /\ UNCHANGED <<sessions, tasks>> /\ req[r].pc = "markDone" /\ t \in Task
          /\ done' = done \union {t}
          /\ req' = [req EXCEPT ![r].pc = "removeSession"]
      BY <1>1, <1>14 DEF CloseDone, MarkDone
    <2>2. TokenOf(req[r].tok, t) /\ req[r].tok \in Token
      BY <1>1, <2>1 DEF OneTokenInv, Acts, Acting
    <2>3. \A tok \in SessionsOf(t) : tok = req[r].tok
      BY <2>1, <2>2, OneToken DEF SessionsOf, Live, OneTokenInv
    <2>4. OneTokenInv'
      BY <1>1, <1>2, <2>1, <2>2 DEF OneTokenInv, Acts, Acting, Live
    <2>5. EndingInv'
      <3>1. ASSUME NEW u \in Task, u # t, u \in Ending'
            PROVE  /\ \E tok \in Token : TokenOf(tok, u)'
                   /\ \A tok \in SessionsOf(u)' : \E s \in Request :
                         req'[s].pc = "removeSession" /\ req'[s].task = u /\ req'[s].tok = tok
        BY <1>1, <1>2, <2>1, <3>1 DEF EndingInv, Ending, SessionsOf, Live
      <3>2. /\ \E tok \in Token : TokenOf(tok, t)'
            /\ \A tok \in SessionsOf(t)' : \E s \in Request :
                  req'[s].pc = "removeSession" /\ req'[s].task = t /\ req'[s].tok = tok
        BY <1>1, <1>2, <2>1, <2>2, <2>3 DEF SessionsOf, Live
      <3>3. Ending' \subseteq Task
        BY <1>1, <2>1 DEF Ending
      <3>4. QED BY <3>1, <3>2, <3>3 DEF EndingInv
    <2>6. RemovalInv'
      BY <1>1, <2>1 DEF RemovalInv, Removing, Stored
    <2>7. QED BY <2>4, <2>5, <2>6
  <1>15. CASE EndSession(r)
    <2>1. /\ UNCHANGED <<done, tasks>> /\ req[r].pc = "removeSession" /\ t \in Task
          /\ req' = [req EXCEPT ![r].pc = "removeTask"]
          /\ \A tok \in Token : sessions'[tok] = IF tok = req[r].tok THEN NoTask ELSE sessions[tok]
      BY <1>1, <1>15 DEF EndSession, RemoveSession
    <2>2. OneTokenInv'
      BY <1>1, <1>2, <2>1 DEF OneTokenInv, Acts, Acting, Live
    <2>3. EndingInv'
      BY <1>1, <1>2, <2>1 DEF EndingInv, Ending, SessionsOf, Live
    <2>4. RemovalInv'
      BY <1>1, <2>1 DEF RemovalInv, Removing, Stored
    <2>5. QED BY <2>2, <2>3, <2>4
  <1>16. CASE RemoveTask(r)
    <2>1. /\ UNCHANGED <<sessions, done>> /\ req[r].pc = "removeTask" /\ t \in Task
          /\ req'[r] = NoRequest
          /\ Stored' \subseteq Stored /\ t \notin Stored'
      BY <1>1, <1>16, TaskAssumption
         DEF RemoveTask, Remove, RemoveIds, Stored, TokenInv, TypeInv, SharedInv, StoreTypeOK
    <2>2. OneTokenInv'
      BY <1>1, <1>2, <2>1 DEF OneTokenInv, Acts, Acting, Live
    <2>3. EndingInv'
      BY <1>1, <1>2, <2>1 DEF EndingInv, Ending, SessionsOf, Live
    <2>4. RemovalInv'
      BY <1>1, <2>1 DEF RemovalInv, Removing
    <2>5. QED BY <2>2, <2>3, <2>4
  <1>17. QED
    BY <1>1, <1>4, <1>6, <1>7, <1>8, <1>9, <1>10, <1>11, <1>12, <1>13, <1>14, <1>15, <1>16
       DEF Handle

\* Only a task that Forgejo has just handed out is newly stored, and a removal
\* takes no other task along.
LEMMA StoredTasks ==
    ASSUME UniqueIds, EndInv, [Next]_vars
    PROVE  \A t \in Stored' : t \in Stored \/ (t \notin assigned /\ t \in assigned')
  <1> USE DEF EndInv, WakerInv
  <1>1. /\ tasks \in [Id -> Task \union {NoTask}] /\ IdOf \in [Task -> Id] /\ NoTask \notin Task
    BY TaskAssumption DEF TokenInv, TypeInv, SharedInv, StoreTypeOK
  <1>2. CASE \E r \in Request : SouthStep(r)
    <2>1. PICK r \in Request : OneRequest(r)
      BY <1>2, OneRequestKinds
    <2>2. UNCHANGED tasks \/ RemoveTask(r)
      BY <2>1 DEF OneRequest, Consume, MarkRegTokenConsumed, CreateSession, LinkSession,
                  EndSession, storeVars
    <2>3. QED BY <1>1, <2>2 DEF Stored, RemoveTask, Remove, RemoveIds
  <1>3. CASE \E r \in Request : ArriveStep(r)
    BY <1>3 DEF ArriveStep, Arrive, storeVars, Stored
  <1>4. CASE ~ \E r \in Request : ArriveStep(r) \/ SouthStep(r)
    <2>1. StoreStep
      BY <1>4, OtherSteps
    <2>2. QED BY <1>1, <2>1 DEF StoreStep, PutPending, RemoveIds, Stored, storeVars
  <1>5. QED BY <1>2, <1>3, <1>4

\* Whose step it is: only HandleTask moves itself on, the drain counts by itself,
\* and what has been reported, has expired, is done or was signalled remains so.
LEMMA Growth ==
    ASSUME TypeInv, [Next]_vars
    PROVE  /\ done \subseteq done' /\ expired \subseteq expired'
           /\ \A t \in Task : reported[t] \subseteq reported'[t]
           /\ stop => stop'
           /\ UNCHANGED <<phase, taskCh>> \/ (\E t \in Task : RunnerStep(t))
                \/ (UNCHANGED phase /\ \E p \in Instance : PollerStep(p))
           /\ UNCHANGED shutVars \/ SignalStep \/ DrainStep
  <1> DEFINE Grown == /\ done \subseteq done' /\ expired \subseteq expired'
                      /\ \A t \in Task : reported[t] \subseteq reported'[t]
                      /\ stop => stop'
             Own == /\ UNCHANGED <<phase, taskCh>> \/ (\E t \in Task : RunnerStep(t))
                         \/ (UNCHANGED phase /\ \E p \in Instance : PollerStep(p))
                    /\ UNCHANGED shutVars \/ SignalStep \/ DrainStep
  <1> SUFFICES Grown /\ Own
    OBVIOUS
  <1>1. reported \in [Task -> SUBSET Report] /\ done \subseteq Task
    BY DEF TypeInv, SharedInv, SurroundTypeOK, StoreTypeOK
  <1> USE DEF ctxVars, surroundVars, pollerVars, runnerVars
  <1>2. ASSUME NEW p \in Instance, PollerStep(p) PROVE Grown /\ Own
    BY <1>2 DEF PollerStep, PollLoop, PollAcquire, PollCancelled, PollNothing, PollAgain,
                PollReceive, PollSend, PollDrop
  <1>3. ASSUME NEW t \in Task, RunnerStep(t) PROVE Grown /\ Own
    <2>1. CASE ReportsFailure(t)
      BY <1>1, <1>3, <2>1 DEF RunnerStep, ReportsFailure, ReportFailure
    <2>2. CASE ~ReportsFailure(t)
      BY <1>3, <2>2
         DEF RunnerStep, HandleTask, TriggerReturns, AroundTrigger, Start, TriggerOk, TriggerFails,
             MarkDispatched, SetStatus, Finished, RunnerConnected, StartupTimeout,
             ShutdownUnregistered, ShutdownRegistered, Unlinks, GivesBack, Drops
    <2>3. QED BY <2>1, <2>2
  <1>4. ASSUME NEW t \in Task, GitHubStep(t) \/ TTLStep(t) PROVE Grown /\ Own
    BY <1>4 DEF GitHubStep, AskGitHub, TTLStep, TokenOutlivesTTL
  <1>5. ASSUME NEW r \in Request, ArriveStep(r) PROVE Grown /\ Own
    BY <1>5 DEF ArriveStep, Arrive
  <1>6. ASSUME NEW r \in Request, SouthStep(r) PROVE Grown /\ Own
    <2>1. Handle(r) /\ Own
      BY <1>6 DEF SouthStep
    <2>2. CASE ForwardOk(r) \/ ForwardError(r)
      BY <1>1, <2>1, <2>2 DEF ForwardOk, ForwardError, ReportResult
    <2>3. CASE ~(ForwardOk(r) \/ ForwardError(r))
      BY <2>1, <2>3
         DEF Handle, LookUp, TouchSession, GetReg, Consume, CreateSession, LinkSession,
             SetSessionToken, RenewSession, MarkRegistered, MarkRunnerRegistered, Deliver,
             SetTerminal, SetStatus, CloseDone, MarkDone, EndSession, RemoveTask
    <2>4. QED BY <2>1, <2>2, <2>3
  <1>7. ASSUME NEW tok \in Token, SilenceStep(tok) PROVE Grown /\ Own
    BY <1>7 DEF SilenceStep
  <1>8. CASE ReaperStep
    <2>1. ASSUME NEW t \in Task, GCReport(t) PROVE Grown /\ Own
      BY <1>1, <1>8, <2>1 DEF ReaperStep, GCReport, ReportFailure
    <2>2. CASE ~ \E t \in Task : GCReport(t)
      BY <1>8, <2>2 DEF ReaperStep, GCLoop, GCSnapshot, GCStop, GCInspect, GCSweep, GCExpire,
                        GCMarkDone, MarkDone, GCRemove, GCDone
    <2>3. QED BY <2>1, <2>2
  <1>9. CASE SignalStep
    BY <1>9 DEF SignalStep, Signal
  <1>10. CASE DrainStep
    BY <1>10 DEF DrainStep, Drain, CountSnapshot, CountStatus, CountResult, CountAgain
  <1>11. CASE UNCHANGED vars
    BY <1>11 DEF vars
  <1>12. QED
    BY <1>2, <1>3, <1>4, <1>5, <1>6, <1>7, <1>8, <1>9, <1>10, <1>11 DEF Next

\* HandleTask leaves only by a Remove of its own or because of the done channel.
LEMMA ExitNext ==
    ASSUME UniqueIds, EndInv, [Next]_vars
    PROVE  ExitInv'
  <1> USE DEF EndInv, WakerInv
  <1>1. /\ phase \in [Task -> Phases]
        /\ \A t \in Stored' : t \in Stored \/ phase[t] = "none"
    BY StoredTasks DEF OnItsWay, TokenInv, TypeInv, RunnerTypeOK, Stored
  <1>2. done \subseteq done'
    BY Growth DEF TokenInv
  <1>3. CASE UNCHANGED phase
    BY <1>1, <1>2, <1>3 DEF ExitInv
  <1>4. ASSUME NEW t \in Task, RunnerStep(t) PROVE ExitInv'
    <2>1. \A u \in Task : u # t => phase'[u] = phase[u]
      BY <1>1, <1>4 DEF RunnerStep, HandleTask, TriggerReturns, AroundTrigger, Start, TriggerOk,
         TriggerFails, Finished, RunnerConnected, StartupTimeout, ShutdownUnregistered,
         ShutdownRegistered, ReportsFailure, Unlinks, GivesBack, Drops, Move
    <2>2. CASE Drops(t)
      <3>1. t \notin Stored'
        BY <2>2, TaskAssumption
           DEF Drops, Remove, RemoveIds, Stored, TokenInv, TypeInv, SharedInv, StoreTypeOK
      <3>2. QED BY <1>1, <1>2, <2>1, <3>1 DEF ExitInv
    <2>3. CASE Finished(t)
      BY <1>1, <1>2, <2>1, <2>3 DEF ExitInv, Finished
    <2>4. CASE ~Drops(t) /\ ~Finished(t)
      <3>1. phase'[t] \in {"sdGiveBack", "exit"} => phase[t] = "sdGiveBack"
        BY <1>1, <1>4, <2>4 DEF RunnerStep, HandleTask, TriggerReturns, AroundTrigger, Start,
           TriggerOk, TriggerFails, RunnerConnected, StartupTimeout, ShutdownUnregistered,
           ShutdownRegistered, ReportsFailure, Unlinks, GivesBack, Move
      <3>2. QED BY <1>1, <1>2, <2>1, <3>1 DEF ExitInv
    <2>5. QED BY <2>2, <2>3, <2>4
  <1>5. QED BY <1>3, <1>4, Growth DEF TokenInv

\* At the start nothing has ended.
LEMMA EndInvInit == Init => EndInv
  <1> SUFFICES ASSUME Init PROVE EndInv
    OBVIOUS
  <1>1. OnItsWay
    BY DEF Init, SurroundInit, PollerInit, RunnerInit, OnItsWay
  <1>2. OneTokenInv /\ EndingInv
    BY TaskAssumption
       DEF Init, StoreInit, SessInit, SouthInit, NoRequest, ReaperInit, OneTokenInv, EndingInv,
           Ending, Acts, Acting, Live
  <1>3. RemovalInv /\ ExitInv
    BY DEF Init, StoreInit, RunnerInit, RemovalInv, ExitInv
  <1>4. QED BY <1>1, <1>2, <1>3, WakerInvInit DEF EndInv

\* No step of the daemon breaks the invariants of the end.
LEMMA EndInvNext == UniqueIds /\ EndInv /\ [Next]_vars => EndInv'
  <1> SUFFICES ASSUME UniqueIds, EndInv, [Next]_vars PROVE EndInv'
    OBVIOUS
  <1>1. WakerInv' /\ OnItsWay' /\ ExitInv'
    BY WakerInvNext, SlotStepNext, ExitNext DEF EndInv, WakerInv, TokenInv
  <1>2. CASE \E r \in Request : SouthStep(r)
    BY <1>1, <1>2, RequestEnds DEF EndInv
  <1>3. CASE \E r \in Request : ArriveStep(r)
    <2>1. PICK r \in Request, kind \in Kind, tok \in Token : Arrive(r, kind, tok)
      BY <1>3 DEF ArriveStep
    <2>2. /\ \A s \in Request : s # r => req'[s] = req[s]
          /\ req[r].pc = "free" /\ req'[r].pc \in {"lookup", "getreg"}
          /\ UNCHANGED <<sessions, tasks, done>>
      BY <2>1 DEF Arrive, At, ctxVars, storeVars, sessVars, EndInv, WakerInv, TokenInv, TypeInv,
                  SouthInv, SouthTypeOK
    <2>3. UNCHANGED <<gpc, dead, reaping>>
      BY <1>3 DEF ArriveStep, reaperVars
    <2>4. \A u \in Task, a \in Token : TokenOf(a, u) => TokenOf(a, u)'
      BY TokenKept DEF EndInv, WakerInv
    <2>5. /\ done \subseteq Task /\ dead \subseteq Task
          /\ sessions \in [Token -> Task \union {NoTask}]
          /\ \A s \in Request : Acts(s) => req[s].tok \in Token /\ req[s].task \in Task
      BY DEF EndInv, WakerInv, TokenInv, TypeInv, SharedInv, StoreTypeOK, ReaperInv, ReaperTypeOK,
             SessInv, SessTypeOK, SouthInv, Acts, Acting
    <2>6. OneTokenInv'
      BY <2>2, <2>4, <2>5 DEF EndInv, OneTokenInv, Acts, Acting, Live
    <2>7. EndingInv'
      BY <2>2, <2>3, <2>4, <2>5 DEF EndInv, EndingInv, Ending, SessionsOf, Live
    <2>8. RemovalInv'
      BY <2>2, <2>3 DEF EndInv, RemovalInv, Removing, Stored
    <2>9. QED BY <1>1, <2>6, <2>7, <2>8 DEF EndInv
  <1>4. CASE ~ \E r \in Request : ArriveStep(r) \/ SouthStep(r)
    <2>1. StoreStep
      BY <1>4, OtherSteps DEF EndInv, WakerInv
    <2>2. CASE ReaperStep
      BY <1>1, <2>1, <2>2, CollectorEnds DEF EndInv
    <2>3. CASE ~ReaperStep
      <3>1. UNCHANGED <<done, dead, reaping, gpc>>
        BY <1>4, <2>3
           DEF Next, PollerStep, PollLoop, PollAcquire, PollCancelled, PollNothing, PollAgain,
               PollReceive, PollSend, PollDrop, RunnerStep, HandleTask, TriggerReturns,
               AroundTrigger, Start, TriggerOk, TriggerFails, MarkDispatched, SetStatus, Finished,
               RunnerConnected, StartupTimeout, ShutdownUnregistered, ShutdownRegistered,
               ReportsFailure, Unlinks, GivesBack, Drops, GitHubStep, AskGitHub, TTLStep,
               SilenceStep, SignalStep, Signal, DrainStep, Drain, CountSnapshot, CountStatus,
               CountResult, CountAgain, vars, ctxVars, reaperVars
      <3>2. QED BY <1>1, <2>1, <3>1, CalmKeeps DEF EndInv
    <2>4. QED BY <2>2, <2>3
  <1>5. QED BY <1>2, <1>3, <1>4

\* The invariants of the end hold throughout.
LEMMA EndKept == ASSUME UniqueIds PROVE Spec => []EndInv
  <1>1. EndInv /\ [Next]_vars => EndInv'
    BY EndInvNext
  <1>2. QED BY <1>1, EndInvInit, PTL DEF Spec

\* Once a task is done and nobody is busy with it, neither the store, nor the token
\* index, nor the session manager holds anything of it: of the two ways a runner
\* connects and the three parties that clean up, none leaves a session that nobody
\* looks for any more.
THEOREM NothingStays == ASSUME UniqueIds PROVE Spec => []NothingLeftBehind
  <1>1. EndInv => NothingLeftBehind
    <2> SUFFICES ASSUME EndInv, NEW t \in Task, t \in done, ~Busy(t)
                 PROVE  t \notin Stored /\ byReg[t] = NoId /\ SessionsOf(t) = {}
      BY DEF NothingLeftBehind
    <2>1. t \notin Stored
      BY DEF EndInv, RemovalInv, Removing, Busy
    <2>2. SessionsOf(t) = {}
      BY DEF EndInv, EndingInv, Ending, Busy
    <2>3. byReg[t] = NoId
      BY NoTokenYet DEF EndInv, EndingInv, Ending, WakerInv
    <2>4. QED BY <2>1, <2>2, <2>3
  <1>2. QED BY <1>1, EndKept, PTL

\* HandleTask never returns from a task that is still stored, but for one that the
\* handler or the collector is just removing.
THEOREM ExitCleansUp == ASSUME UniqueIds PROVE Spec => []ExitLeavesNoTask
  <1>1. EndInv => ExitLeavesNoTask
    BY DEF EndInv, RemovalInv, Removing, ExitInv, ExitLeavesNoTask, Stored
  <1>2. QED BY <1>1, EndKept, PTL

\* A registration token opens one session, whatever presents it, at once or later,
\* and HandleTask, which removes the session by the token its task has learnt, never
\* looks for another one.
THEOREM RegistersOnce == ASSUME UniqueIds PROVE Spec => []OneRegistration
  <1>1. EndInv => OneRegistration
    <2> SUFFICES ASSUME EndInv, NEW t \in Task
                 PROVE  /\ opened[t] <= 1
                        /\ \A tok \in SessionsOf(t) : sessionToken[t] \in {tok, NoToken}
      BY DEF OneRegistration
    <2>1. opened[t] <= 1
      BY DEF EndInv, WakerInv, TokenInv, IndexInv
    <2>2. ASSUME NEW tok \in SessionsOf(t) PROVE sessionToken[t] \in {tok, NoToken}
      BY <2>2 DEF SessionsOf, EndInv, WakerInv, TokenInv, OneTokenInv, TokenOf, ConsumeInv, Consumer
    <2>3. QED BY <2>1, <2>2
  <1>2. QED BY <1>1, EndKept, PTL

-----------------------------------------------------------------------------
(* Admission *)

\* The stages of an admission exclude each other.
LEMMA AccessFacts ==
    ASSUME EndInv, NEW t \in Task
    PROVE  /\ SessionsOf(t) # {} => WasAdmitted(t)
           /\ WasAdmitted(t) => t \in assigned /\ ~Inviting(t)
           /\ Inviting(t) => t \in assigned
  <1> USE DEF EndInv, WakerInv
  <1>1. WasAdmitted(t) => \E tok \in Token : TokenOf(tok, t)
    <2>1. \A r \in Request : At(r, "link") => req[r].tok \in Token
      BY RequestFacts DEF TokenInv, TypeInv, At
    <2>2. sessionToken[t] \in Token \union {NoToken}
      BY DEF TokenInv, TypeInv, SharedInv, StoreTypeOK
    <2>3. QED BY <2>1, <2>2 DEF WasAdmitted, TokenOf, At
  <1>2. \A tok \in Token : TokenOf(tok, t) => WasAdmitted(t)
    BY TokenAssumption DEF TokenOf, WasAdmitted, At
  <1>3. SessionsOf(t) # {} => WasAdmitted(t)
    BY <1>2 DEF SessionsOf, Live, OneTokenInv
  <1>4. WasAdmitted(t) => t \in assigned /\ ~Inviting(t)
    BY <1>1, NoTokenYet DEF Inviting, At
  <1>5. Inviting(t) => t \in assigned
    BY DEF Inviting, At, TokenInv, IndexInv, ConsumeInv, Consumer
  <1>6. QED BY <1>3, <1>4, <1>5

\* The tasks whose admission a step cuts short are expelled together.
LEMMA Expulsion ==
    ASSUME UNCHANGED results,
           \A t \in Task : \/ Access(t)' = Access(t)
                           \/ Access(t) = "invited" /\ Access(t)' = "void"
                           \/ Access(t) = "admitted" /\ Access(t)' = "ended"
    PROVE  Admissions!Next
  <1> DEFINE S == {t \in Task : Access(t)' # Access(t)}
  <1>1. \A t \in S : access[t] \in {"invited", "admitted"}
    BY DEF access
  <1>2. access' = [t \in Task |-> IF t \notin S THEN access[t]
                                  ELSE IF access[t] = "invited" THEN "void"
                                  ELSE "ended"]
    BY DEF access
  <1>3. Admissions!Expel(S)
    BY <1>1, <1>2 DEF Admissions!Expel
  <1> HIDE DEF S
  <1>4. S \in SUBSET Task
    BY DEF S
  <1>5. QED BY <1>3, <1>4 DEF Admissions!Next

\* A step that only removes sessions and index entries lets nobody in.
LEMMA Shrinking ==
    ASSUME EndInv, UNCHANGED <<sessionToken, assigned>>,
           \A r \in Request : Consumer(r) \/ Consumer(r)' => req'[r] = req[r],
           \A u \in Task : byReg'[u] \in {byReg[u], NoId},
           \A tok \in Token : sessions'[tok] \in {sessions[tok], NoTask}
    PROVE  \A t \in Task : \/ Access(t)' = Access(t)
                           \/ Access(t) = "invited" /\ Access(t)' = "void"
                           \/ Access(t) = "admitted" /\ Access(t)' = "ended"
  <1> SUFFICES ASSUME NEW t \in Task
               PROVE  \/ Access(t)' = Access(t)
                      \/ Access(t) = "invited" /\ Access(t)' = "void"
                      \/ Access(t) = "admitted" /\ Access(t)' = "ended"
    OBVIOUS
  <1>1. SessionsOf(t)' \subseteq SessionsOf(t)
    BY TaskAssumption DEF SessionsOf, Live
  <1>2. WasAdmitted(t)' = WasAdmitted(t)
    BY DEF WasAdmitted, At, Consumer
  <1>3. Inviting(t)' => Inviting(t)
    BY DEF Inviting, At, Consumer
  <1>4. QED BY <1>1, <1>2, <1>3, AccessFacts DEF Access

\* Only a forwarded result is a runner's.
LEMMA ResultsNext ==
    ASSUME TypeInv, [Next]_vars, ~ \E r \in Request : ForwardOk(r) \/ ForwardError(r)
    PROVE  UNCHANGED results
  <1>1. reported \in [Task -> SUBSET Report]
    BY DEF TypeInv, SharedInv, SurroundTypeOK
  <1>2. ASSUME NEW t \in Task, ReportFailure(t) PROVE UNCHANGED results
    BY <1>1, <1>2 DEF ReportFailure, results
  <1>3. CASE UNCHANGED reported
    BY <1>3 DEF results
  <1>4. ASSUME ~ \E t \in Task : ReportFailure(t) PROVE UNCHANGED reported
    BY <1>4
       DEF Next, PollerStep, PollLoop, PollAcquire, PollCancelled, PollNothing, PollAgain,
           PollReceive, PollSend, PollDrop, RunnerStep, HandleTask, TriggerReturns, AroundTrigger,
           Start, TriggerOk, TriggerFails, Finished, RunnerConnected, StartupTimeout,
           ShutdownUnregistered, ShutdownRegistered, ReportsFailure, Unlinks, GivesBack, Drops,
           GitHubStep, AskGitHub, TTLStep, TokenOutlivesTTL, SilenceStep, SignalStep, Signal,
           DrainStep, Drain, CountSnapshot, CountStatus, CountResult, CountAgain, ArriveStep,
           Arrive, SouthStep, Handle, LookUp, TouchSession, GetReg, Consume, CreateSession,
           LinkSession, RenewSession, MarkRegistered, Deliver, SetTerminal, CloseDone, EndSession,
           RemoveTask, ReaperStep, GCLoop, GCSnapshot, GCStop, GCInspect, GCSweep, GCExpire,
           GCReport, GCMarkDone, GCRemove, GCDone, vars, surroundVars
  <1>5. QED BY <1>2, <1>3, <1>4

\* A request admits its runner, brings in a result, or lets nobody in.
LEMMA RequestAdmits ==
    ASSUME UniqueIds, EndInv, [Next]_vars, NEW r \in Request, SouthStep(r)
    PROVE  Admissions!Next \/ UNCHANGED Admissions!admissionVars
  <1>0. PICK t : t = req[r].task
    OBVIOUS
  <1> USE DEF EndInv, WakerInv
  <1>1. /\ Handle(r) /\ t = req[r].task
        /\ UNCHANGED assigned
        /\ \A s \in Request : s # r => req'[s] = req[s]
        /\ req \in [Request -> [pc : RequestPC, kind : Kind, tok : Token \union {NoToken},
                                task : Task \union {NoTask}]]
        /\ req[r].pc # "free" => req[r].tok \in Token
        /\ req[r].pc \notin {"free", "lookup", "getreg"} => t \in Task /\ t = req[r].tok[1]
        /\ sessions \in [Token -> Task \union {NoTask}]
        /\ byReg \in [Task -> Id \union {NoId}]
        /\ sessionToken \in [Task -> Token \union {NoToken}]
        /\ NoTask \notin Task /\ NoToken \notin Token
    BY <1>0, OneRequestKinds, TaskAssumption, TokenAssumption
       DEF SouthStep, OneRequest, TokenInv, TypeInv, SouthInv, SouthTypeOK, OwnerInv,
           SharedInv, StoreTypeOK, SessInv, SessTypeOK
  <1>2. ASSUME UNCHANGED sessionToken,
               \A s \in Request : Consumer(s) \/ Consumer(s)' => req'[s] = req[s],
               \A u \in Task : byReg'[u] \in {byReg[u], NoId},
               \A tok \in Token : sessions'[tok] \in {sessions[tok], NoTask},
               ~(\E s \in Request : ForwardOk(s) \/ ForwardError(s))
        PROVE  Admissions!Next
    BY <1>1, <1>2, Shrinking, ResultsNext, Expulsion DEF TokenInv
  <1> USE DEF At, Step, Answer, NoRequest, ctxVars, sessVars, storeVars
  <1>3. CASE CreateSession(r)
    <2>0. PICK new : new = NewToken(r)
      OBVIOUS
    <2>1. /\ new = NewToken(r) /\ new \in Token /\ new[1] = t
          /\ UNCHANGED <<byReg, sessionToken, reported>>
          /\ req[r].pc = "create" /\ t \in Task
          /\ sessions' = [sessions EXCEPT ![new] = t]
          /\ req' = [req EXCEPT ![r].pc = "link", ![r].tok = new]
      <3>1. NewToken(r) \in Token /\ NewToken(r)[1] = req[r].tok[1]
        BY <1>3, NewTokenFacts DEF TokenInv, TypeInv
      <3>2. QED BY <1>1, <1>3, <2>0, <3>1 DEF CreateSession, InsertSession, surroundVars
    <2>2. Access(t) = "invited"
      <3>1. Inviting(t)
        BY <1>1, <2>1 DEF Inviting
      <3>2. QED BY <2>1, <3>1, AccessFacts DEF Access
    <2>3. Access(t)' = "admitted"
      BY <1>1, <2>1 DEF Access, SessionsOf, Live
    <2>4. ASSUME NEW u \in Task, u # t PROVE Access(u)' = Access(u)
      <3>1. sessions[new] \in {t, NoTask}
        BY <1>1, <2>1 DEF TokenInv, OwnerInv, SessionRoutesToOwner, Live
      <3>2. SessionsOf(u)' = SessionsOf(u)
        BY <1>1, <2>1, <2>4, <3>1 DEF SessionsOf, Live
      <3>3. WasAdmitted(u)' = WasAdmitted(u) /\ Inviting(u)' = Inviting(u)
        BY <1>1, <2>1, <2>4 DEF WasAdmitted, Inviting
      <3>4. QED BY <1>1, <3>2, <3>3 DEF Access
    <2>5. Admissions!Admit(t)
      BY <2>1, <2>2, <2>3, <2>4 DEF Admissions!Admit, access, results
    <2>6. QED BY <2>1, <2>5 DEF Admissions!Next
  <1>4. CASE LinkSession(r)
    <2>1. /\ req[r].tok \in Token
          /\ UNCHANGED <<byReg, sessions, reported>>
          /\ req[r].pc = "link" /\ t \in Task
          /\ sessionToken' = [sessionToken EXCEPT ![t] = req[r].tok]
          /\ req'[r].pc \in {"mark", "renew"} /\ req'[r].task = t
      BY <1>1, <1>4 DEF LinkSession, SetSessionToken, surroundVars
    <2>2. ASSUME NEW u \in Task PROVE Access(u)' = Access(u)
      <3>1. WasAdmitted(u)' = WasAdmitted(u) /\ Inviting(u)' = Inviting(u)
        BY <1>1, <2>1 DEF WasAdmitted, Inviting
      <3>2. QED BY <1>1, <2>1, <3>1 DEF Access, SessionsOf, Live
    <2>3. QED BY <2>1, <2>2 DEF Admissions!admissionVars, access, results
  <1>5. CASE Consume(r)
    <2>1. /\ UNCHANGED <<sessions, sessionToken, reported>>
          /\ req[r].pc = "consume" /\ t \in Task /\ t = req[r].tok[1]
      BY <1>1, <1>5 DEF Consume, surroundVars
    <2>2. CASE byReg[t] = NoId
      <3>1. UNCHANGED byReg /\ req'[r].pc = "free"
        BY <1>1, <1>5, <2>1, <2>2 DEF Consume
      <3>2. ~(\E s \in Request : ForwardOk(s) \/ ForwardError(s))
        BY <1>1, <2>1 DEF ForwardOk, ForwardError
      <3>3. \A s \in Request : Consumer(s) \/ Consumer(s)' => req'[s] = req[s]
        BY <1>1, <2>1, <3>1 DEF Consumer
      <3>4. QED BY <1>2, <2>1, <3>1, <3>2, <3>3
    <2>3. CASE byReg[t] # NoId
      <3>1. /\ \A u \in Task : u # t => byReg'[u] = byReg[u]
            /\ req'[r].pc = "create" /\ req'[r].task = t
        <4>1. byReg' = [byReg EXCEPT ![t] = NoId] /\ req' = [req EXCEPT ![r].pc = "create"]
          BY <1>5, <2>1, <2>3 DEF Consume, MarkRegTokenConsumed
        <4>2. QED BY <1>1, <4>1
      <3>2. ASSUME NEW u \in Task PROVE Access(u)' = Access(u)
        <4>1. WasAdmitted(u)' = WasAdmitted(u)
          BY <1>1, <2>1, <3>1 DEF WasAdmitted
        <4>2. Inviting(u)' = Inviting(u)
          BY <1>1, <2>1, <2>3, <3>1 DEF Inviting
        <4>3. QED BY <1>1, <2>1, <4>1, <4>2 DEF Access, SessionsOf, Live
      <3>3. QED BY <2>1, <3>2 DEF Admissions!admissionVars, access, results
    <2>4. QED BY <2>2, <2>3
  <1>6. CASE ForwardOk(r) \/ ForwardError(r)
    <2>1. /\ UNCHANGED <<sessions, byReg, sessionToken>>
          /\ req[r].pc = "forward" /\ t \in Task
          /\ req'[r].pc \in {"setTerminal", "free"}
          /\ ReportResult(t) \/ UNCHANGED reported
      BY <1>1, <1>6 DEF ForwardOk, ForwardError
    <2>2. ASSUME NEW u \in Task PROVE Access(u)' = Access(u)
      <3>1. WasAdmitted(u)' = WasAdmitted(u) /\ Inviting(u)' = Inviting(u)
        BY <1>1, <2>1 DEF WasAdmitted, Inviting
      <3>2. QED BY <1>1, <2>1, <3>1 DEF Access, SessionsOf, Live
    <2>3. Access(t) \in {"admitted", "ended"}
      <3>1. req[r].tok \in Token /\ TokenOf(req[r].tok, t)
        BY <1>1, <2>1 DEF OneTokenInv, Acts, Acting
      <3>2. WasAdmitted(t)
        BY <1>1, <3>1 DEF TokenOf, WasAdmitted
      <3>3. QED BY <2>1, <3>2, AccessFacts DEF Access
    <2>4. UNCHANGED access
      BY <2>2 DEF access
    <2>5. CASE UNCHANGED reported
      BY <2>4, <2>5 DEF Admissions!admissionVars, results
    <2>6. CASE ReportResult(t)
      <3>1. results' = results \union {t}
        BY <2>1, <2>6 DEF ReportResult, results, TokenInv, TypeInv, SharedInv, SurroundTypeOK, Report
      <3>2. Admissions!Result(t)
        BY <2>1, <2>3, <2>4, <3>1 DEF Admissions!Result, access
      <3>3. QED BY <2>1, <3>2 DEF Admissions!Next
    <2>7. QED BY <2>1, <2>5, <2>6
  <1>7. CASE ~(\/ CreateSession(r) \/ LinkSession(r) \/ Consume(r)
               \/ ForwardOk(r) \/ ForwardError(r))
    <2>1. req[r].pc \notin {"create", "link"}
      BY <1>1, <1>7 DEF Handle, LookUp, TouchSession, GetReg, RenewSession, MarkRegistered, Deliver,
                        SetTerminal, CloseDone, EndSession, RemoveTask
    <2>2. OneRequest(r)
      BY OneRequestKinds
    <2>3. /\ UNCHANGED sessionToken
          /\ req'[r].pc \notin {"create", "link"}
          /\ \A u \in Task : byReg'[u] \in {byReg[u], NoId}
          /\ \A tok \in Token : sessions'[tok] \in {sessions[tok], NoTask}
      BY <1>1, <1>7, <2>2
         DEF OneRequest, Consumer, EndSession, RemoveSession, RemoveTask, Remove, RemoveIds
    <2>4. ~ \E s \in Request : ForwardOk(s) \/ ForwardError(s)
      <3>1. ASSUME NEW s \in Request, ForwardOk(s) \/ ForwardError(s) PROVE s = r
        BY <1>1, <3>1 DEF ForwardOk, ForwardError
      <3>2. QED BY <1>7, <3>1
    <2>5. QED BY <1>1, <1>2, <2>1, <2>3, <2>4 DEF Consumer
  <1>8. QED BY <1>3, <1>4, <1>5, <1>6, <1>7

\* Only a poller receives tasks.
LEMMA AssignedNext ==
    ASSUME [Next]_vars,
           ~ \E p \in Instance, t \in Task : PollerStep(p) /\ PollReceive(p, t)
    PROVE  UNCHANGED assigned
  BY DEF Next, PollerStep, PollLoop, PollAcquire, PollCancelled, PollNothing, PollAgain,
        PollSend, PollDrop, RunnerStep, HandleTask, TriggerReturns, AroundTrigger, Start,
        TriggerOk, TriggerFails, Finished, RunnerConnected, StartupTimeout,
        ShutdownUnregistered, ShutdownRegistered, ReportsFailure, Unlinks, GivesBack, Drops,
        GitHubStep, AskGitHub, TTLStep, TokenOutlivesTTL, SilenceStep, SignalStep, Signal,
        DrainStep, Drain, CountSnapshot, CountStatus, CountResult, CountAgain, ArriveStep,
        Arrive, SouthStep, Handle, LookUp, TouchSession, GetReg, Consume, CreateSession,
        LinkSession, RenewSession, MarkRegistered, Deliver, ForwardOk, ForwardError,
        SetTerminal, CloseDone, EndSession, RemoveTask, ReaperStep, GCLoop, GCSnapshot,
        GCStop, GCInspect, GCSweep, GCExpire, GCReport, GCMarkDone, GCRemove, GCDone, vars,
        surroundVars

\* A poller that receives a task invites its runner; its other steps, like those
\* of everybody else but the south handler, hand out nothing.
LEMMA InvitesOnce ==
    ASSUME UniqueIds, EndInv, [Next]_vars, ~ \E r \in Request : ArriveStep(r) \/ SouthStep(r)
    PROVE  Admissions!Next
  <1> USE DEF EndInv, WakerInv
  <1>1. /\ StoreStep
        /\ UNCHANGED <<req, sessionToken>>
        /\ \A tok \in Token : sessions'[tok] \in {sessions[tok], NoTask}
    BY OtherSteps DEF StoreStep
  <1>2. UNCHANGED results
    <2>1. ASSUME NEW r \in Request, ForwardOk(r) \/ ForwardError(r) PROVE FALSE
      BY <1>1, <2>1 DEF ForwardOk, ForwardError, At, Step, Answer, NoRequest, TokenInv, TypeInv,
                        SouthInv, SouthTypeOK
    <2>2. QED BY <2>1, ResultsNext DEF TokenInv
  <1>3. ASSUME NEW p \in Instance, NEW t \in Task, PollerStep(p), PollReceive(p, t)
        PROVE  Admissions!Next
    <2>0. byReg \in [Task -> Id \union {NoId}] /\ IdOf[t] # NoId
      BY TaskAssumption DEF TokenInv, TypeInv, SharedInv, StoreTypeOK
    <2>1. /\ t \notin assigned /\ assigned' = assigned \union {t}
          /\ byReg' = [byReg EXCEPT ![t] = IdOf[t]]
          /\ UNCHANGED <<sessions, sessionToken, req>>
      BY <1>1, <1>3 DEF PollReceive, PutPending, PollerStep, sessVars
    <2>2. Access(t) = "closed"
      BY <2>1, AccessFacts DEF Access
    <2>3. Access(t)' = "invited"
      <3>1. SessionsOf(t) = {}
        BY <2>1, AccessFacts
      <3>2. SessionsOf(t)' = {} /\ Inviting(t)'
        BY <2>0, <2>1, <3>1 DEF SessionsOf, Live, Inviting
      <3>3. QED BY <3>2 DEF Access
    <2>4. ASSUME NEW u \in Task, u # t PROVE Access(u)' = Access(u)
      BY <2>0, <2>1, <2>4 DEF Access, SessionsOf, Live, Inviting, WasAdmitted, At
    <2>5. Admissions!Invite(t)
      BY <1>2, <2>2, <2>3, <2>4 DEF Admissions!Invite, access
    <2>6. QED BY <2>5 DEF Admissions!Next
  <1>4. CASE ~ \E p \in Instance, t \in Task : PollerStep(p) /\ PollReceive(p, t)
    <2>1. UNCHANGED assigned
      BY <1>4, AssignedNext
    <2>2. \A u \in Task : byReg'[u] \in {byReg[u], NoId}
      BY <1>1, <2>1 DEF StoreStep, RemoveIds, storeVars
    <2>3. QED BY <1>1, <1>2, <2>1, <2>2, Shrinking, Expulsion DEF Consumer
  <1>5. QED BY <1>3, <1>4

\* No step goes back on an admission, or lets a second runner in.
LEMMA AdmissionNext ==
    ASSUME UniqueIds, EndInv, [Next]_vars
    PROVE  [Admissions!Next]_(Admissions!admissionVars)
  <1>1. ASSUME NEW r \in Request, ArriveStep(r) PROVE UNCHANGED Admissions!admissionVars
    <2>1. PICK kind \in Kind, tok \in Token : Arrive(r, kind, tok)
      BY <1>1 DEF ArriveStep
    <2>2. /\ UNCHANGED <<sessions, byReg, sessionToken, assigned, reported>>
          /\ \A s \in Request : s # r => req'[s] = req[s]
          /\ req[r].pc = "free" /\ req'[r].pc \in {"getreg", "lookup"}
      BY <2>1 DEF Arrive, At, storeVars, ctxVars, surroundVars, sessVars, EndInv, WakerInv,
                  TokenInv, TypeInv, SouthInv, SouthTypeOK
    <2>3. ASSUME NEW u \in Task PROVE Access(u)' = Access(u)
      <3>1. WasAdmitted(u)' = WasAdmitted(u) /\ Inviting(u)' = Inviting(u)
        BY <2>2 DEF WasAdmitted, Inviting, At
      <3>2. QED BY <2>2, <3>1 DEF Access, SessionsOf, Live
    <2>4. QED BY <2>2, <2>3 DEF Admissions!admissionVars, access, results
  <1>2. CASE \E r \in Request : SouthStep(r)
    BY <1>2, RequestAdmits
  <1>3. CASE ~ \E r \in Request : ArriveStep(r) \/ SouthStep(r)
    BY <1>3, InvitesOnce
  <1>4. QED BY <1>1, <1>2, <1>3

\* A registration token admits one runner to its task, once and for one stretch
\* of time, and Forgejo has a result only of a runner that was admitted: index,
\* session manager and handler implement Admission.
THEOREM TokensAdmitOnce == ASSUME UniqueIds PROVE Spec => AdmissionSpec
  <1>1. Init => Admissions!Init
    BY DEF Init, SurroundInit, StoreInit, SessInit, SouthInit, NoRequest, Admissions!Init, access,
           results, Access, SessionsOf, Live, Inviting, WasAdmitted, At
  <1>2. EndInv /\ [Next]_vars => [Admissions!Next]_(Admissions!admissionVars)
    BY AdmissionNext
  <1>3. QED BY <1>1, <1>2, EndKept, PTL DEF Spec, AdmissionSpec, Admissions!Spec

\* What follows from that: Forgejo has no runner's result of a task to which no
\* runner was ever admitted, nor of one whose invitation was withdrawn.
THEOREM ResultsAreOfAdmitted ==
    ASSUME UniqueIds
    PROVE  Spec => []\A t \in Task : "result" \in reported[t] => Access(t) \in {"admitted", "ended"}
  <1> DEFINE Earned == \A t \in results : access[t] \in {"admitted", "ended"}
  <1>1. Admissions!Init => Earned
    BY DEF Admissions!Init
  <1>2. ASSUME Earned, [Admissions!Next]_(Admissions!admissionVars) PROVE Earned'
    <2>1. CASE UNCHANGED Admissions!admissionVars
      BY <1>2, <2>1 DEF Admissions!admissionVars
    <2>2. CASE Admissions!Next
      <3> results \subseteq Task /\ access = [t \in Task |-> access[t]]
        BY DEF results, access
      <3> HIDE DEF results, access
      <3>1. ASSUME NEW t \in Task, Admissions!Invite(t) \/ Admissions!Admit(t) PROVE Earned'
        BY <1>2, <3>1 DEF Admissions!Invite, Admissions!Admit
      <3>2. ASSUME NEW t \in Task, Admissions!Result(t) PROVE Earned'
        BY <1>2, <3>2 DEF Admissions!Result
      <3>3. ASSUME NEW S \in SUBSET Task, Admissions!Expel(S) PROVE Earned'
        BY <1>2, <3>3 DEF Admissions!Expel
      <3>4. QED BY <2>2, <3>1, <3>2, <3>3 DEF Admissions!Next
    <2>3. QED BY <1>2, <2>1, <2>2
  <1>3. Earned => \A t \in Task : "result" \in reported[t] => Access(t) \in {"admitted", "ended"}
    BY DEF results, access
  <1> HIDE DEF Earned
  <1>4. Admissions!Spec => []Earned
    BY <1>1, <1>2, PTL DEF Admissions!Spec
  <1>5. QED BY <1>3, <1>4, TokensAdmitOnce, PTL DEF AdmissionSpec

-----------------------------------------------------------------------------
(* The drain *)

\* A task HandleTask is at work on, cleanups excluded.
Working == {"trigger", "awaitRunner", "awaitDone", "left"}

Accounted(t) == Acknowledged(t) \/ t \in done \/ t \in expired

\* Tasks leave the store by a report or by the sweep, and by nothing else before
\* HandleTask cleans up; so those missing in a snapshot, and those found Terminal,
\* are accounted for.
CountInv == /\ drain # "serving" => stop
            /\ doomed \subseteq expired
            /\ \A t \in Task : status[t] = "Terminal" => Acknowledged(t)
            /\ \A t \in assigned \ Stored : phase[t] \in Working \union {"none"} => Accounted(t)
            /\ drain = "read" /\ ~active =>
                  \A t \in Task \ counting : phase[t] \in Working => Accounted(t)
            /\ drain = "drained" => \A t \in Task : phase[t] \in Working => Accounted(t)

DrainInv == EndInv /\ ReportInv /\ CountInv

\* A status is Terminal only because the handler forwarded a result.
LEMMA StatusNext ==
    ASSUME DrainInv, [Next]_vars
    PROVE  \A t \in Task : status'[t] = "Terminal" => Acknowledged(t)'
  <1> USE DEF DrainInv
  <1>1. /\ \A t \in Task : Acknowledged(t) => Acknowledged(t)'
        /\ \A t \in Task : status[t] = "Terminal" => Acknowledged(t)
        /\ status \in [Task -> Status]
    BY Growth DEF ReportInv, CountInv, TypeInv, SharedInv, StoreTypeOK, Acknowledged
  <1>2. CASE UNCHANGED status
    BY <1>1, <1>2
  <1>3. ASSUME NEW t \in Task, NEW s \in Status, status' = [status EXCEPT ![t] = s],
               s = "Terminal" => Acknowledged(t)
        PROVE  \A u \in Task : status'[u] = "Terminal" => Acknowledged(u)'
    BY <1>1, <1>3
  <1>4. ASSUME NEW t \in Task, TriggerOk(t)
        PROVE  \A u \in Task : status'[u] = "Terminal" => Acknowledged(u)'
    BY <1>3, <1>4 DEF TriggerOk, MarkDispatched, SetStatus, Status
  <1>5. ASSUME NEW r \in Request, MarkRegistered(r)
        PROVE  \A u \in Task : status'[u] = "Terminal" => Acknowledged(u)'
    <2>1. req[r].task \in Task
      BY <1>5 DEF MarkRegistered, At, ReportInv, TypeInv, SouthInv
    <2>2. QED BY <1>3, <1>5, <2>1 DEF MarkRegistered, MarkRunnerRegistered, Status
  <1>6. ASSUME NEW r \in Request, SetTerminal(r)
        PROVE  \A u \in Task : status'[u] = "Terminal" => Acknowledged(u)'
    <2>1. req[r].task \in Task /\ Acknowledged(req[r].task)
      BY <1>6 DEF SetTerminal, At, ReportInv, TypeInv, SouthInv, HandlerInv
    <2>2. QED BY <1>3, <1>6, <2>1 DEF SetTerminal, SetStatus, Status
  <1>7. CASE /\ ~ \E t \in Task : TriggerOk(t)
             /\ ~ \E r \in Request : MarkRegistered(r) \/ SetTerminal(r)
    <2>1. UNCHANGED status
      BY <1>7
         DEF Next, PollerStep, PollLoop, PollAcquire, PollCancelled, PollNothing, PollAgain,
             PollReceive, PollSend, PollDrop, RunnerStep, HandleTask, TriggerReturns,
             AroundTrigger, Start, TriggerFails, Finished, RunnerConnected, StartupTimeout,
             ShutdownUnregistered, ShutdownRegistered, ReportsFailure, Unlinks, GivesBack, Drops,
             GitHubStep, AskGitHub, TTLStep, SilenceStep, SignalStep, Signal, DrainStep, Drain,
             CountSnapshot, CountStatus, CountResult, CountAgain, ArriveStep, Arrive, SouthStep,
             Handle, LookUp, TouchSession, GetReg, Consume, CreateSession, LinkSession,
             SetSessionToken, RenewSession, Deliver, ForwardOk, ForwardError, CloseDone, MarkDone,
             EndSession, RemoveTask, ReaperStep, GCLoop, GCSnapshot, GCStop, GCInspect, GCSweep,
             GCExpire, GCReport, GCMarkDone, GCRemove, GCDone, vars, ctxVars
    <2>2. QED BY <1>2, <2>1
  <1>8. QED BY <1>4, <1>5, <1>6, <1>7

\* Whoever takes a task out of the store has a reason to.
LEMMA LeavesExplained ==
    ASSUME UniqueIds, DrainInv, [Next]_vars, NEW t \in Task, t \in Stored, t \notin Stored'
    PROVE  \/ t \in done \/ t \in expired
           \/ phase[t] \in {"drop", "sdDrop"} /\ phase'[t] \in {"exit", "sdGiveBack"}
  <1> USE TaskAssumption DEF DrainInv, UniqueIds, Stored
  <1>1. phase \in [Task -> Phases]
    BY DEF ReportInv, TypeInv, RunnerTypeOK
  <1>2. ASSUME NEW r \in Request, SouthStep(r) PROVE t \in done
    <2>1. RemoveTask(r) /\ req[r].task = t
      <3>1. OneRequest(r)
        BY <1>2, OneRequestKinds DEF EndInv, WakerInv
      <3>2. RemoveTask(r)
        BY <3>1 DEF OneRequest, Consume, MarkRegTokenConsumed, CreateSession, LinkSession,
                    EndSession, storeVars
      <3>3. req[r].task \in Task
        BY <3>2 DEF RemoveTask, At, ReportInv, TypeInv, SouthInv
      <3>4. QED BY <3>2, <3>3 DEF RemoveTask, Remove, RemoveIds, ReportInv, TypeInv, SharedInv, StoreTypeOK
    <2>2. t \in done
      BY <2>1 DEF RemoveTask, At, EndInv, WakerInv, EnderInv
    <2>3. QED BY <2>2
  <1>3. ASSUME NEW u \in Task, RunnerStep(u)
        PROVE  phase[t] \in {"drop", "sdDrop"} /\ phase'[t] \in {"exit", "sdGiveBack"}
    <2>1. Drops(u)
      BY <1>3 DEF RunnerStep, HandleTask, TriggerReturns, AroundTrigger, Start, TriggerOk,
         TriggerFails, Finished, RunnerConnected, StartupTimeout, ShutdownUnregistered,
         ShutdownRegistered, ReportsFailure, Unlinks, GivesBack, storeVars
    <2>2. u = t
      BY <2>1 DEF Drops, Remove, RemoveIds, ReportInv, TypeInv, SharedInv, StoreTypeOK
    <2>3. QED BY <1>1, <2>1, <2>2 DEF Drops, Move
  <1>4. CASE ReaperStep
    <2>1. CASE GCSweep
      <3>1. t \in doomed
        BY <2>1 DEF GCSweep, RemoveIds, ReportInv, TypeInv, SharedInv, StoreTypeOK, ReaperInv, ReaperTypeOK
      <3>2. QED BY <3>1 DEF CountInv
    <2>2. CASE GCRemove
      <3>1. t = reaping /\ gpc = "remove"
        BY <2>2 DEF GCRemove, Remove, RemoveIds, ReportInv, TypeInv, SharedInv, StoreTypeOK, ReaperInv
      <3>2. t \in done
        BY <3>1 DEF EndInv, WakerInv, PassInv
      <3>3. QED BY <3>2
    <2>3. CASE ~GCSweep /\ ~GCRemove
      <3>1. UNCHANGED tasks
        BY <1>4, <2>3 DEF ReaperStep, GCLoop, GCSnapshot, GCStop, GCInspect, GCExpire, GCReport,
                          GCMarkDone, GCDone, storeVars
      <3>2. QED BY <3>1
    <2>4. QED BY <2>1, <2>2, <2>3
  <1>5. ASSUME NEW p \in Instance, PollerStep(p) PROVE FALSE
    BY <1>5 DEF PollerStep, PollLoop, PollAcquire, PollCancelled, PollNothing, PollAgain,
                PollReceive, PutPending, PollSend, PollDrop, storeVars, ReportInv, TypeInv,
                SharedInv, StoreTypeOK, SurroundTypeOK
  <1>6. CASE \/ \E u \in Task : GitHubStep(u) \/ TTLStep(u)
             \/ \E r \in Request : ArriveStep(r)
             \/ \E tok \in Token : SilenceStep(tok)
             \/ SignalStep \/ DrainStep \/ UNCHANGED vars
    BY <1>6 DEF GitHubStep, AskGitHub, TTLStep, ArriveStep, Arrive, SilenceStep, SignalStep, Signal,
                DrainStep, Drain, CountSnapshot, CountStatus, CountResult, CountAgain, vars, storeVars
  <1>7. QED BY <1>2, <1>3, <1>4, <1>5, <1>6 DEF Next

\* So a task that HandleTask has not begun to clean up is accounted for.
LEMMA LeavesAccounted ==
    ASSUME UniqueIds, DrainInv, [Next]_vars, NEW t \in Task, t \in Stored, t \notin Stored'
    PROVE  Accounted(t)' \/ phase'[t] \notin Working \union {"none"}
  BY LeavesExplained, Growth DEF DrainInv, ReportInv, Accounted, Acknowledged, Working

\* Before the signal a task is started; afterwards none is put to work any more.
LEMMA PhaseNext ==
    ASSUME DrainInv, [Next]_vars, NEW t \in Task
    PROVE  /\ phase'[t] \in Working \union {"none"} => phase[t] \in Working \union {"none"}
           /\ phase'[t] \in Working => phase[t] \in Working \/ (phase[t] = "none" /\ ~stop)
  <1>1. phase \in [Task -> Phases]
    BY DEF DrainInv, ReportInv, TypeInv, RunnerTypeOK
  <1>2. ASSUME NEW u \in Task, RunnerStep(u)
        PROVE  /\ phase'[t] \in Working \union {"none"} => phase[t] \in Working \union {"none"}
               /\ phase'[t] \in Working => phase[t] \in Working \/ (phase[t] = "none" /\ ~stop)
    BY <1>1, <1>2
       DEF RunnerStep, HandleTask, TriggerReturns, AroundTrigger, Start, TriggerOk, TriggerFails,
           Finished, RunnerConnected, StartupTimeout, ShutdownUnregistered, ShutdownRegistered,
           ReportsFailure, Unlinks, GivesBack, Drops, Move, Working
  <1>3. CASE UNCHANGED phase
    BY <1>3
  <1>4. QED BY <1>2, <1>3, Growth DEF DrainInv, ReportInv

\* A task handed out is stored at once.
LEMMA NewStored ==
    ASSUME DrainInv, [Next]_vars, NEW t \in Task, t \in assigned' \ assigned
    PROVE  t \in Stored'
  <1>1. CASE \E p \in Instance : PollReceive(p, t)
    <2>1. tasks \in [Id -> Task \union {NoTask}] /\ IdOf[t] \in Id
      BY TaskAssumption DEF DrainInv, ReportInv, TypeInv, SharedInv, StoreTypeOK
    <2>2. tasks' = [tasks EXCEPT ![IdOf[t]] = t]
      BY <1>1 DEF PollReceive, PutPending
    <2>3. QED BY <2>1, <2>2 DEF Stored
  <1>2. CASE \E p \in Instance, u \in Task : PollReceive(p, u) /\ u # t
    BY <1>2 DEF PollReceive
  <1>3. CASE ~ \E p \in Instance, u \in Task : PollReceive(p, u)
    BY <1>3, AssignedNext
  <1>4. QED BY <1>1, <1>2, <1>3

\* What the collector finds is expired.
LEMMA DoomedNext == ASSUME DrainInv, [Next]_vars PROVE doomed' \subseteq expired'
  <1>1. doomed \subseteq expired /\ expired \subseteq expired'
    BY Growth DEF DrainInv, CountInv, ReportInv
  <1>2. CASE ReaperStep
    BY <1>1, <1>2 DEF ReaperStep, GCLoop, GCSnapshot, GCStop, GCInspect, GCSweep, GCExpire,
                      GCReport, GCMarkDone, GCRemove, GCDone
  <1>3. CASE ~ReaperStep
    <2>1. UNCHANGED doomed
      BY <1>3 DEF Next, PollerStep, RunnerStep, GitHubStep, TTLStep, ArriveStep, SouthStep,
                  SilenceStep, SignalStep, DrainStep, vars, reaperVars
    <2>2. QED BY <1>1, <2>1
  <1>4. QED BY <1>2, <1>3

\* Each step of the daemon, and of CountActive's reading, keeps the account.
LEMMA CountNext == ASSUME UniqueIds, DrainInv, [Next]_vars PROVE CountInv'
  <1>1. /\ \A t \in Task : Accounted(t) => Accounted(t)'
        /\ stop => stop'
        /\ UNCHANGED shutVars \/ SignalStep \/ DrainStep
    BY Growth DEF DrainInv, ReportInv, Accounted, Acknowledged
  <1>2. /\ drain # "serving" => stop
        /\ \A t \in Task : status[t] = "Terminal" => Acknowledged(t)
        /\ \A t \in assigned \ Stored : phase[t] \in Working \union {"none"} => Accounted(t)
        /\ drain = "read" /\ ~active =>
              \A t \in Task \ counting : phase[t] \in Working => Accounted(t)
        /\ drain = "drained" => \A t \in Task : phase[t] \in Working => Accounted(t)
    BY DEF DrainInv, CountInv
  <1>3. \A t \in Task : phase[t] \in Working => t \in assigned
    BY DEF DrainInv, EndInv, OnItsWay, Working
  <1>4. drain' # "serving" => stop'
    BY <1>1, <1>2 DEF SignalStep, Signal, DrainStep, Drain, CountSnapshot, CountStatus, CountResult,
                      CountAgain, shutVars
  <1>5. \A t \in Task : status'[t] = "Terminal" => Acknowledged(t)'
    BY StatusNext
  <1>6. ASSUME NEW t \in Task, t \in assigned', t \notin Stored', phase'[t] \in Working \union {"none"}
        PROVE  Accounted(t)'
    <2>1. t \in assigned
      BY <1>6, NewStored
    <2>2. CASE t \in Stored
      BY <1>6, <2>2, LeavesAccounted
    <2>3. CASE t \notin Stored
      BY <1>1, <1>2, <1>6, <2>1, <2>3, PhaseNext
    <2>4. QED BY <2>2, <2>3
  <1>7. ASSUME drain # "serving", NEW t \in Task, phase'[t] \in Working PROVE phase[t] \in Working
    BY <1>2, <1>7, PhaseNext
  <1>8. ASSUME drain' = "read", ~active', NEW t \in Task \ counting', phase'[t] \in Working
        PROVE  Accounted(t)'
    <2>1. CASE UNCHANGED shutVars
      BY <1>1, <1>2, <1>7, <1>8, <2>1 DEF shutVars
    <2>2. CASE CountSnapshot
      <3>1. t \notin Stored /\ phase[t] \in Working
        BY <1>7, <1>8, <2>2 DEF CountSnapshot
      <3>2. QED BY <1>1, <1>2, <1>3, <3>1
    <2>3. ASSUME NEW u \in Task, CountStatus(u) PROVE Accounted(t)'
      <3>1. drain = "read" /\ ~active /\ status[u] = "Terminal" /\ counting' = counting \ {u}
        BY <1>8, <2>3, Zenon DEF CountStatus
      <3>2. phase[t] \in Working
        BY <1>7, <1>8, <3>1
      <3>3. QED BY <1>1, <1>2, <1>8, <3>1, <3>2 DEF Accounted
    <2>4. QED
      BY <1>1, <1>8, <2>1, <2>2, <2>3 DEF SignalStep, Signal, DrainStep, Drain, CountResult, CountAgain
  <1>9. ASSUME drain' = "drained", NEW t \in Task, phase'[t] \in Working PROVE Accounted(t)'
    <2>1. CASE UNCHANGED shutVars
      BY <1>1, <1>2, <1>7, <1>9, <2>1 DEF shutVars
    <2>2. CASE CountResult
      <3>1. drain = "read" /\ counting = {} /\ ~active
        BY <1>9, <2>2 DEF CountResult
      <3>2. QED BY <1>1, <1>2, <1>7, <1>9, <3>1
    <2>3. QED
      BY <1>1, <1>9, <2>1, <2>2
         DEF SignalStep, Signal, DrainStep, Drain, CountSnapshot, CountStatus, CountAgain
  <1>10. doomed' \subseteq expired'
    BY DoomedNext
  <1>11. /\ \A t \in assigned' \ Stored' : phase'[t] \in Working \union {"none"} => Accounted(t)'
         /\ drain' = "read" /\ ~active' =>
               \A t \in Task \ counting' : phase'[t] \in Working => Accounted(t)'
         /\ drain' = "drained" => \A t \in Task : phase'[t] \in Working => Accounted(t)'
    <2>1. assigned' \subseteq Task
      BY TypeInvNext DEF DrainInv, ReportInv, TypeInv, SharedInv, SurroundTypeOK
    <2>2. QED BY <1>6, <1>8, <1>9, <2>1
  <1>12. QED
    BY <1>4, <1>5, <1>10, <1>11 DEF CountInv

\* At the start nothing is to be accounted for.
LEMMA DrainInvInit == Init => DrainInv
  <1> SUFFICES ASSUME Init PROVE DrainInv
    OBVIOUS
  <1>1. EndInv /\ ReportInv
    BY EndInvInit, ReportInvInit
  <1>2. CountInv
    BY DEF Init, ShutInit, ReaperInit, StoreInit, SurroundInit, CountInv
  <1>3. QED BY <1>1, <1>2 DEF DrainInv

\* No step of the daemon breaks the account.
LEMMA DrainInvNext == UniqueIds /\ DrainInv /\ [Next]_vars => DrainInv'
  BY EndInvNext, ReportInvNext, CountNext DEF DrainInv

\* The account holds throughout.
LEMMA DrainKept == ASSUME UniqueIds PROVE Spec => []DrainInv
  <1>1. DrainInv /\ [Next]_vars => DrainInv'
    BY DrainInvNext
  <1>2. QED BY <1>1, DrainInvInit, PTL DEF Spec

\* The drain ends only when every runner whose task HandleTask left to it has
\* reported, or the task was swept with an outlived token: CountActive's copy and
\* its later reads of one status after the other never overlook a task at work.
THEOREM DrainWaits == ASSUME UniqueIds PROVE Spec => []DrainSound
  <1>1. DrainInv => DrainSound
    BY DEF DrainInv, CountInv, DrainSound, Accounted, Acknowledged, Working
  <1>2. QED BY <1>1, DrainKept, PTL

-----------------------------------------------------------------------------
(* Removals *)

\* Neither a signal comes nor does time pass where the bounds exclude it.
BoundInv == (stop => MaySignal) /\ expired \subseteq Expirable

\* Only the signal stops the daemon and only tokens that may do so expire.
LEMMA Bounded == Spec => []BoundInv
  <1>1. Init => BoundInv
    BY DEF Init, SurroundInit, BoundInv
  <1>2. ASSUME BoundInv, [Next]_vars PROVE BoundInv'
    <2>1. CASE SignalStep
      BY <1>2, <2>1 DEF SignalStep, Signal, BoundInv
    <2>2. CASE \E t \in Task : TTLStep(t)
      BY <1>2, <2>2 DEF TTLStep, TokenOutlivesTTL, BoundInv
    <2>3. CASE ~SignalStep /\ ~ \E t \in Task : TTLStep(t)
      <3>1. UNCHANGED <<stop, expired>>
        BY <1>2, <2>3
           DEF Next, PollerStep, PollLoop, PollAcquire, PollCancelled, PollNothing, PollAgain,
               PollReceive, PollSend, PollDrop, RunnerStep, HandleTask, TriggerReturns,
               AroundTrigger, Start, TriggerOk, TriggerFails, Finished, RunnerConnected,
               StartupTimeout, ShutdownUnregistered, ShutdownRegistered, ReportsFailure, Unlinks,
               GivesBack, Drops, GitHubStep, AskGitHub, SilenceStep, DrainStep, Drain,
               CountSnapshot, CountStatus, CountResult, CountAgain, ArriveStep, Arrive, SouthStep,
               Handle, LookUp, TouchSession, GetReg, Consume, CreateSession, LinkSession,
               RenewSession, MarkRegistered, Deliver, ForwardOk, ForwardError, SetTerminal,
               CloseDone, EndSession, RemoveTask, ReaperStep, GCLoop, GCSnapshot, GCStop,
               GCInspect, GCSweep, GCExpire, GCReport, GCMarkDone, GCRemove, GCDone, vars,
               surroundVars
      <3>2. QED BY <1>2, <3>1 DEF BoundInv
    <2>4. QED BY <2>1, <2>2, <2>3
  <1>3. QED BY <1>1, <1>2, PTL DEF Spec

\* As long as the daemon runs, the task of a registered runner whose token is
\* within its TTL stays in the store until a terminal report was made.  (Run
\* ShutdownRace shows that the signal is a condition, StuckPending and Daemon
\* let tokens expire.)
THEOREM RegisteredStays ==
    ASSUME UniqueIds, ~MaySignal, Expirable = {} PROVE Spec => RegisteredTaskStays
  <1> DEFINE Stays == \A t \in Stored \intersect registered : t \notin Stored' => reported[t] # {}
  <1>1. ASSUME DrainInv, BoundInv, [Next]_vars PROVE Stays
    <2>1. \A t \in Stored : t \in Task
      BY DEF Stored
    <2>2. expired = {} /\ ~stop
      BY <1>1 DEF BoundInv
    <2>3. /\ \A t \in done : reported[t] # {}
          /\ \A t \in Task : phase[t] = "drop" => reported[t] # {}
          /\ \A t \in Task : phase[t] # "sdDrop"
      BY <1>1, <2>2 DEF DrainInv, ReportInv, EndedInv, HandleTaskInv, Reported, ShutPhases
    <2>4. QED BY <1>1, <2>1, <2>2, <2>3, LeavesExplained
  <1>2. DrainInv /\ BoundInv /\ [Next]_vars => [Stays]_vars
    BY <1>1
  <1>3. QED BY <1>2, DrainKept, Bounded, PTL DEF Spec, RegisteredTaskStays
=============================================================================
