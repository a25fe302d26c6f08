-------------------------------- MODULE South --------------------------------
(***************************************************************************)
(* internal/south/handler.go: the RPCs the internal runners call.  Each    *)
(* request is a goroutine of its own and `req' says where it stands:       *)
(*   Register   the Register RPC;                                          *)
(*   Fetch      FetchTask;                                                 *)
(*   Call       any authenticated RPC that leaves the task as it is:       *)
(*              Declare, UpdateLog and UpdateTask with RESULT_UNSPECIFIED; *)
(*   Terminal   UpdateTask with a result.                                  *)
(***************************************************************************)
EXTENDS SessionManager

CONSTANT Request        \* the requests that may be in flight at the same time

VARIABLE req

southVars == <<req>>

Kind == {"Register", "Fetch", "Call", "Terminal"}

RequestPC == {"free", "lookup", "touch", "getreg", "consume", "create", "link", "renew",
              "mark", "deliver", "forward", "setTerminal", "markDone", "removeSession", "removeTask"}

NoRequest == [pc |-> "free", kind |-> "Call", tok |-> NoToken, task |-> NoTask]

SouthTypeOK == req \in [Request -> [pc : RequestPC, kind : Kind,
                                    tok : Token \union {NoToken}, task : Task \union {NoTask}]]

SouthInit == req = [r \in Request |-> NoRequest]

\* What a runner can present: the registration token its job was dispatched
\* with, or the session token that a completed Register answered.
Known(tok) == /\ tok[1] \in launched
              /\ tok = RegToken(tok[1]) \/ \E t \in registered : sessionToken[t] = tok

At(r, pc) == req[r].pc = pc
Step(r, pc) == req' = [req EXCEPT ![r].pc = pc]
Answer(r) == req' = [req EXCEPT ![r] = NoRequest]

\* Where the handler goes once authenticate has returned a session for t.
Authenticated(r, t) ==
    req' = [req EXCEPT ![r] =
        CASE @.kind = "Fetch"    -> [@ EXCEPT !.pc = "deliver", !.task = t]
          [] @.kind = "Terminal" -> [@ EXCEPT !.pc = "forward", !.task = t]
          [] OTHER               -> NoRequest]

Arrive(r, kind, tok) ==
    /\ At(r, "free")
    /\ Known(tok)
    /\ kind = "Register" => tok = RegToken(tok[1])
    /\ req' = [req EXCEPT ![r] = [pc |-> IF kind = "Register" THEN "getreg" ELSE "lookup",
                                  kind |-> kind, tok |-> tok, task |-> NoTask]]
    /\ UNCHANGED <<storeVars, ctxVars, surroundVars, sessVars>>

-----------------------------------------------------------------------------
(* authenticate and Register *)

\* sessions.Lookup: the handler keeps the session it found.
LookUp(r) ==
    /\ At(r, "lookup")
    /\ LET t == sessions[req[r].tok]
       IN  req' = [req EXCEPT ![r].pc = IF t # NoTask THEN "touch" ELSE "getreg", ![r].task = t]
    /\ UNCHANGED <<storeVars, ctxVars, surroundVars, sessVars>>

\* sessions.Touch: the request is refused if the session went away since LookUp.
TouchSession(r) ==
    /\ At(r, "touch")
    /\ IF req[r].tok \in Live THEN Authenticated(r, req[r].task) /\ Touch(req[r].tok)
                              ELSE Answer(r) /\ UNCHANGED sessVars
    /\ UNCHANGED <<storeVars, ctxVars, surroundVars>>

\* GetByRegToken and the expiry check.  A random session token is in no index.
GetReg(r) ==
    /\ At(r, "getreg")
    /\ LET tok == req[r].tok
           t == IF tok = RegToken(tok[1]) THEN GetByRegToken(tok[1]) ELSE NoTask
       IN  IF t \in Task \ expired
           THEN req' = [req EXCEPT ![r].pc = "consume", ![r].task = t]
           ELSE Answer(r)
    /\ UNCHANGED <<storeVars, ctxVars, surroundVars, sessVars>>

\* Mutation of Consume: whether the token was still there is not looked at.
ConsumeUnchecked(r) ==
    /\ At(r, "consume")
    /\ Step(r, "create")
    /\ MarkRegTokenConsumed(req[r].tok[1])
    /\ UNCHANGED <<ctxVars, surroundVars, sessVars>>

\* MarkRegTokenConsumed: of two requests with one token, one is refused.
Consume(r) ==
    /\ At(r, "consume")
    /\ LET u == req[r].tok[1]
       IN  IF byReg[u] # NoId THEN Step(r, "create") /\ MarkRegTokenConsumed(u)
                              ELSE Answer(r) /\ UNCHANGED storeVars
    /\ UNCHANGED <<ctxVars, surroundVars, sessVars>>

\* The token of the session a request is about to create.
NewToken(r) == IF req[r].kind = "Register" THEN FreshToken(req[r].tok[1]) ELSE req[r].tok

\* Create with a token drawn at random, or CreateWithToken with the registration
\* token: the session is visible from here on ...
CreateSession(r) ==
    /\ At(r, "create")
    /\ InsertSession(NewToken(r), req[r].task)
    /\ req' = [req EXCEPT ![r].pc = "link", ![r].tok = NewToken(r)]
    /\ UNCHANGED <<storeVars, ctxVars, surroundVars>>

\* ... and the task learns its token in a step of its own.
LinkSession(r) ==
    /\ At(r, "link")
    /\ SetSessionToken(req[r].task, req[r].tok)
    /\ Step(r, IF req[r].kind = "Register" THEN "mark" ELSE "renew")
    /\ UNCHANGED <<storeVars, surroundVars, sessVars>>

\* authenticate touches the session it created; the result is not looked at.
RenewSession(r) ==
    /\ At(r, "renew")
    /\ Step(r, "mark")
    /\ IF req[r].tok \in Live THEN Touch(req[r].tok) ELSE UNCHANGED sessVars
    /\ UNCHANGED <<storeVars, ctxVars, surroundVars>>

MarkRegistered(r) ==
    /\ At(r, "mark")
    /\ MarkRunnerRegistered(req[r].task)
    /\ Authenticated(r, req[r].task)
    /\ UNCHANGED <<storeVars, surroundVars, sessVars>>

\* FetchTask answers with the task of the session, on every call.
Deliver(r) ==
    /\ At(r, "deliver")
    /\ Answer(r)
    /\ UNCHANGED <<storeVars, ctxVars, surroundVars, sessVars>>

-----------------------------------------------------------------------------
(* UpdateTask with a result *)

\* ForwardUpdateTask returns: Forgejo has the result.
ForwardOk(r) ==
    /\ At(r, "forward")
    /\ ReportResult(req[r].task)
    /\ Step(r, "setTerminal")
    /\ UNCHANGED <<storeVars, ctxVars, sessVars, assigned, launched, expired, stop>>

\* Mutation of ForwardError: the error of ForwardUpdateTask is not looked at.
ForwardErrorIgnored(r) ==
    /\ At(r, "forward")
    /\ Step(r, "setTerminal")
    /\ UNCHANGED <<storeVars, ctxVars, surroundVars, sessVars>>

\* It fails, whether or not Forgejo got the report, or the id in the request is
\* another task's: the handler returns the error and changes nothing.
ForwardError(r) ==
    /\ At(r, "forward")
    /\ Answer(r)
    /\ \/ ReportResult(req[r].task)
       \/ UNCHANGED reported
    /\ UNCHANGED <<storeVars, ctxVars, sessVars, assigned, launched, expired, stop>>

\* Mutation of SetTerminal: MarkDone is left to somebody else.
SetTerminalOnly(r) ==
    /\ At(r, "setTerminal")
    /\ SetStatus(req[r].task, "Terminal")
    /\ Step(r, "removeSession")
    /\ UNCHANGED <<storeVars, surroundVars, sessVars>>

SetTerminal(r) ==
    /\ At(r, "setTerminal")
    /\ SetStatus(req[r].task, "Terminal")
    /\ Step(r, "markDone")
    /\ UNCHANGED <<storeVars, surroundVars, sessVars>>

CloseDone(r) ==
    /\ At(r, "markDone")
    /\ MarkDone(req[r].task)
    /\ Step(r, "removeSession")
    /\ UNCHANGED <<storeVars, surroundVars, sessVars>>

\* Mutation of EndSession: the session is left to expire.
EndSessionLater(r) ==
    /\ At(r, "removeSession")
    /\ Step(r, "removeTask")
    /\ UNCHANGED <<storeVars, ctxVars, surroundVars, sessVars>>

EndSession(r) ==
    /\ At(r, "removeSession")
    /\ RemoveSession(req[r].tok)
    /\ Step(r, "removeTask")
    /\ UNCHANGED <<storeVars, ctxVars, surroundVars>>

RemoveTask(r) ==
    /\ At(r, "removeTask")
    /\ Remove(req[r].task)
    /\ Answer(r)
    /\ UNCHANGED <<ctxVars, surroundVars, sessVars>>

Handle(r) == \/ LookUp(r)
             \/ TouchSession(r)
             \/ GetReg(r)
             \/ Consume(r)
             \/ CreateSession(r)
             \/ LinkSession(r)
             \/ RenewSession(r)
             \/ MarkRegistered(r)
             \/ Deliver(r)
             \/ ForwardOk(r)
             \/ ForwardError(r)
             \/ SetTerminal(r)
             \/ CloseDone(r)
             \/ EndSession(r)
             \/ RemoveTask(r)
=============================================================================
