--------------------------- MODULE TaskLifecycle ----------------------------
(***************************************************************************)
(* The running daemon, from the end of startup to the end of the drain:    *)
(* the pollers, one HandleTask goroutine per task, the south handler's     *)
(* requests, the garbage collector and the shutdown sequence, interleaved  *)
(* at the granularity of their critical sections and calls.                *)
(***************************************************************************)
EXTENDS Runner, South, Reaper, Shutdown

vars == <<slotVars, surroundVars, storeVars, ctxVars, sessVars,
          pollerVars, runnerVars, southVars, reaperVars, shutVars>>

Init == /\ SlotInit
        /\ SurroundInit
        /\ StoreInit
        /\ SessInit
        /\ PollerInit
        /\ RunnerInit
        /\ SouthInit
        /\ ReaperInit
        /\ ShutInit

-----------------------------------------------------------------------------
(* The components, with what each leaves alone. *)

PollerStep(p) == /\ PollLoop(p)
                 /\ UNCHANGED <<sessVars, runnerVars, southVars, reaperVars, shutVars>>

RunnerStep(t) == HandleTask(t) /\ UNCHANGED <<southVars, reaperVars, shutVars>>

GitHubStep(t) == AskGitHub(t) /\ UNCHANGED <<southVars, reaperVars, shutVars>>

ArriveStep(r) == /\ Accepting
                 /\ \E kind \in Kind, tok \in Token : Arrive(r, kind, tok)
                 /\ UNCHANGED <<slotVars, pollerVars, runnerVars, reaperVars, shutVars>>

SouthStep(r) == /\ Handle(r)
                /\ UNCHANGED <<slotVars, pollerVars, runnerVars, reaperVars, shutVars>>

ReaperStep == GCLoop /\ UNCHANGED <<slotVars, pollerVars, runnerVars, southVars, shutVars>>

SignalStep == /\ Signal
              /\ UNCHANGED <<slotVars, sessVars, pollerVars, runnerVars, southVars, reaperVars>>

DrainStep == /\ Drain
             /\ UNCHANGED <<slotVars, sessVars, pollerVars, runnerVars, southVars, reaperVars>>

TTLStep(t) == /\ TokenOutlivesTTL(t)
              /\ UNCHANGED <<slotVars, storeVars, ctxVars, sessVars,
                             pollerVars, runnerVars, southVars, reaperVars, shutVars>>

SilenceStep(tok) == /\ SessionAges(tok)
                    /\ UNCHANGED <<slotVars, surroundVars, storeVars, ctxVars,
                                   pollerVars, runnerVars, southVars, reaperVars, shutVars>>

Next == \/ \E p \in Instance : PollerStep(p)
        \/ \E t \in Task : RunnerStep(t) \/ GitHubStep(t) \/ TTLStep(t)
        \/ \E r \in Request : ArriveStep(r) \/ SouthStep(r)
        \/ \E tok \in Token : SilenceStep(tok)
        \/ ReaperStep
        \/ SignalStep
        \/ DrainStep

Spec == Init /\ [][Next]_vars

TypeOK == /\ SlotTypeOK
          /\ SurroundTypeOK
          /\ StoreTypeOK
          /\ SessTypeOK
          /\ PollerTypeOK
          /\ RunnerTypeOK
          /\ SouthTypeOK
          /\ ReaperTypeOK
          /\ ShutTypeOK

-----------------------------------------------------------------------------
(* Fairness.  Every goroutine keeps running and every call it makes comes  *)
(* back; timers and tickers fire; time passes.  Nothing is assumed of the  *)
(* world: GitHub need not start a job, Forgejo need not hand out a task, a *)
(* runner need not call, and the signal need not come.                     *)

Fairness == /\ \A p \in Instance : WF_vars(PollerStep(p))
            /\ \A t \in Task : WF_vars(RunnerStep(t)) /\ WF_vars(TTLStep(t))
            /\ \A r \in Request : WF_vars(SouthStep(r))
            /\ \A tok \in Token : WF_vars(SilenceStep(tok))
            /\ WF_vars(ReaperStep)
            /\ WF_vars(DrainStep)

FairSpec == Spec /\ Fairness

-----------------------------------------------------------------------------
(* The slots. *)

HoldingPollers == {p \in Instance : ppc[p] \in {"fetch", "send"}}

HoldingTasks == taskCh \union {t \in Task : phase[t] \in OwingPhases}

\* Every slot taken from the pool is owed by exactly one poller or one task
\* (buffered in taskCh or in the hands of HandleTask), and by nobody twice:
\* pool.Release never meets an empty pool and never returns another's slot.
SlotConservation == sem = Cardinality(HoldingPollers) + Cardinality(HoldingTasks)

Ledger == INSTANCE SlotLedger WITH Holder <- Instance \union Task,
                                   holders <- HoldingPollers \union HoldingTasks

\* The pollers and HandleTask, with their early returns, cleanups and the
\* shutdown, use the pool as the ledger promises: max_parallel_tasks bounds
\* pollers and tasks together and a slot is taken, passed on and given back
\* once.
LedgerSpec == Ledger!Spec

\* PollLoop never blocks in `taskCh <- taskCtx': the channel is as large as the
\* pool, and whoever sends holds a slot that no buffered task holds.
SendNeverBlocks == \A p \in Instance : ppc[p] = "send" => ChannelHasRoom

-----------------------------------------------------------------------------
(* Tokens, sessions and the store. *)

SessionsOf(t) == {tok \in Live : sessions[tok] = t}

\* A request, or the collector, is in the middle of something that concerns t.
Busy(t) == \/ \E r \in Request : req[r].task = t
           \/ t \in dead
           \/ t = reaping

\* An indexed registration token leads to the very task it was generated for,
\* and that task is stored: no removal leaves an index entry behind, and no
\* entry is ever seen without its task (MemStore.byReg and MemStore.tasks).
TokenIndexSound == \A u \in Task : byReg[u] # NoId => GetByRegToken(u) = u

\* A registration token opens one session, ever: whichever of Register and the
\* one-job path wins MarkRegTokenConsumed, of any number of requests that present
\* it at once or later the others are refused, also after that session has ended;
\* and the task knows the session, by whose token HandleTask removes it, or is
\* just about to learn it.
OneRegistration ==
    \A t \in Task : /\ opened[t] <= 1
                    /\ \A tok \in SessionsOf(t) : sessionToken[t] \in {tok, NoToken}

\* The registration token of t is indexed, or one request has consumed it and is
\* about to create the session.
Inviting(t) == byReg[t] # NoId \/ \E r \in Request : At(r, "create") /\ req[r].task = t

\* t has, or is about to learn, its session token.
WasAdmitted(t) == \/ sessionToken[t] # NoToken
                  \/ \E r \in Request : At(r, "link") /\ req[r].task = t

\* How far the admission of a runner to t has got.
Access(t) == IF SessionsOf(t) # {} THEN "admitted"
             ELSE IF Inviting(t) THEN "invited"
             ELSE IF WasAdmitted(t) THEN "ended"
             ELSE IF t \in assigned THEN "void"
             ELSE "closed"

access == [t \in Task |-> Access(t)]
results == {t \in Task : "result" \in reported[t]}

Admissions == INSTANCE Admission

\* Index, sessions and requests together admit as Admission promises, although
\* consuming the token, creating the session and linking it are separate steps
\* of requests that may present one token at once, among removals by HandleTask,
\* the handler and the collector.
AdmissionSpec == Admissions!Spec

\* The session a token opens is that of the task the token was generated for
\* (README: the token maps a connecting runner back to its task, and therefore
\* to its instance).
SessionRoutesToOwner == \A tok \in Live : sessions[tok] = tok[1]

\* A registered runner's task that HandleTask waits for, or has left to the
\* drain, can still be ended by somebody: its done channel is closed, or it has
\* a session by which the runner can report and which the collector can expire,
\* or that session is just being expired.
WaiterHasWaker ==
    \A t \in Task : phase[t] \in {"awaitDone", "left"} => \/ t \in done
                                                         \/ SessionsOf(t) # {}
                                                         \/ t \in dead
                                                         \/ t = reaping

\* While the daemon runs no task is given up in silence: when HandleTask has
\* returned or the done channel is closed, Forgejo has acknowledged the
\* runner's result or the daemon has issued a failure report of its own.
FinishedMeansReported ==
    ~stop => \A t \in Task : t \in done \/ phase[t] = "exit" => reported[t] # {}

\* Once the done channel is closed and nobody is still busy with the task, no
\* trace of it is left: it is not stored, its token is not indexed and it has
\* no session, whatever south, HandleTask and the collector did at once.
NothingLeftBehind ==
    \A t \in Task : t \in done /\ ~Busy(t) =>
        /\ t \notin Stored
        /\ byReg[t] = NoId
        /\ SessionsOf(t) = {}

\* When HandleTask has returned its task is out of the store, unless whoever
\* closed the done channel is just about to remove it.
ExitLeavesNoTask ==
    \A t \in Stored : phase[t] = "exit" =>
        \/ \E r \in Request : req[r].task = t /\ req[r].pc \in {"removeSession", "removeTask"}
        \/ gpc = "remove" /\ reaping = t

\* The task of a registered runner is not taken out of the store before a
\* terminal report for it was made (runner.go: "a registered runner's task
\* stays in the store").
RegisteredTaskStays ==
    [][\A t \in Stored \intersect registered : t \notin Stored' => reported[t] # {}]_vars

-----------------------------------------------------------------------------
(* HandleTask and the shutdown. *)

\* The startup timeout fails a task only if its runner never registered.
TimeoutMeansUnregistered ==
    [][\A t \in Task : StartupTimeout(t) => t \notin registered]_vars

\* The drain does not end while a runner whose task HandleTask left to it is
\* still at work, neither with its result at Forgejo nor ended by the collector:
\* CountActive, a copy and a series of separate reads, never adds up to zero then,
\* although statuses change between the reads.  Excepted are tasks with an outlived
\* registration token, which a sweep that inspected them while they were Pending
\* may have taken out of the store.
DrainSound ==
    drain = "drained" =>
        \A t \in Task : phase[t] \in {"awaitDone", "left"} =>
            \/ "result" \in reported[t]
            \/ t \in done
            \/ t \in expired

-----------------------------------------------------------------------------
(* Liveness. *)

Quiet == \A r \in Request : At(r, "free")

\* Once the runners have gone silent every task that holds a slot gives it
\* back, with or without a shutdown: a runner that dies without a terminal
\* report does not shrink the daemon for good.
SlotsComeBack ==
    (<>[]Quiet) => \A t \in Task : (t \in HoldingTasks) ~> (t \notin HoldingTasks)

\* Sessions nobody uses any more are reaped, also those that Register or the
\* one-job path created while HandleTask was cleaning up; only a shutdown ends
\* the collector.
OrphansReaped ==
    (<>[]Quiet) => \A tok \in Token : (tok \in Live) ~> (tok \notin Live \/ stop)

\* A task that fell out of dispatch while still Pending is removed by the
\* collector once its registration token has outlived its TTL.
StuckPendingReclaimed ==
    \A t \in Task :
        (t \in Stored /\ status[t] = "Pending" /\ phase[t] = "none" /\ t \in expired)
            ~> (t \notin Stored \/ phase[t] # "none")
=============================================================================
