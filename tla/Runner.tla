------------------------------- MODULE Runner -------------------------------
(***************************************************************************)
(* internal/run/runner.go: HandleTask, one goroutine per task, as the      *)
(* sequence of its steps.  Each `phase' names what the goroutine does next *)
(* or is waiting for.                                                      *)
(***************************************************************************)
EXTENDS Poller, SessionManager

VARIABLE phase

runnerVars == <<phase>>

\* The branch that reports a failure, after a failed dispatch or the timeout.
FailPhases == {"report", "unlink", "giveBack", "drop"}
\* The branch that cleans up at shutdown when no runner ever registered.
ShutPhases == {"sdUnlink", "sdDrop", "sdGiveBack"}

Phases == {"none", "trigger", "awaitRunner", "awaitDone", "exit", "left"}
              \union FailPhases \union ShutPhases

\* HandleTask still owes the pool a slot.
OwingPhases == {"trigger", "awaitRunner", "awaitDone"}
                   \union {"report", "unlink", "giveBack"} \union ShutPhases

RunnerTypeOK == phase \in [Task -> Phases]

RunnerInit == phase = [t \in Task |-> "none"]

Move(t, from, to) == phase[t] = from /\ phase' = [phase EXCEPT ![t] = to]

\* The goroutine of t starts.  Under a cancelled ctx Trigger fails at once.
Start(t) == /\ t \in taskCh
            /\ taskCh' = taskCh \ {t}
            /\ Move(t, "none", IF stop THEN "report" ELSE "trigger")
            /\ UNCHANGED <<slotVars, storeVars, ctxVars, surroundVars, sessVars, ppc, offer>>

\* dispatch sends its request: from here on GitHub may start a job for t, whenever
\* it likes and whatever Trigger is told (module Dispatch has the details).
AskGitHub(t) == /\ phase[t] = "trigger"
                /\ t \notin launched
                /\ launched' = launched \union {t}
                /\ UNCHANGED <<slotVars, storeVars, ctxVars, sessVars, pollerVars, phase,
                               assigned, reported, expired, stop>>

\* Trigger returns nil.  A runner may have registered, or finished, before.
TriggerOk(t) == /\ t \in launched
                /\ Move(t, "trigger", "awaitRunner")
                /\ MarkDispatched(t)
                /\ UNCHANGED <<slotVars, storeVars, surroundVars, sessVars, pollerVars>>

\* Trigger returns an error: retries exhausted, a 4xx, or ctx cancelled.
TriggerFails(t) == /\ Move(t, "trigger", "report")
                   /\ UNCHANGED <<slotVars, storeVars, ctxVars, surroundVars, sessVars, pollerVars>>

-----------------------------------------------------------------------------
(* Step 4.  A select takes any of its ready branches. *)

\* Mutation of Finished: the slot is left to somebody else to release.
FinishedKeepingSlot(t) ==
    /\ phase[t] \in {"awaitRunner", "awaitDone"}
    /\ t \in done
    /\ phase' = [phase EXCEPT ![t] = "exit"]
    /\ UNCHANGED <<slotVars, storeVars, ctxVars, surroundVars, sessVars, pollerVars>>

\* <-Done() in either phase of the wait: release the slot and return.
Finished(t) == /\ phase[t] \in {"awaitRunner", "awaitDone"}
               /\ t \in done
               /\ phase' = [phase EXCEPT ![t] = "exit"]
               /\ Release
               /\ UNCHANGED <<storeVars, ctxVars, surroundVars, sessVars, pollerVars>>

RunnerConnected(t) == /\ t \in registered
                      /\ Move(t, "awaitRunner", "awaitDone")
                      /\ UNCHANGED <<slotVars, storeVars, ctxVars, surroundVars, sessVars, pollerVars>>

\* Mutation of StartupTimeout: the branch cleans up without telling Forgejo.
StartupTimeoutUnreported(t) ==
    /\ Move(t, "awaitRunner", "unlink")
    /\ UNCHANGED <<slotVars, storeVars, ctxVars, surroundVars, sessVars, pollerVars>>

\* GA_STARTUP_TIMEOUT fires; nothing in the branch asks for Registered again.
StartupTimeout(t) == /\ Move(t, "awaitRunner", "report")
                     /\ UNCHANGED <<slotVars, storeVars, ctxVars, surroundVars, sessVars, pollerVars>>

\* <-ctx.Done() in phase 1, and the probe finds Registered still open.
ShutdownUnregistered(t) ==
    /\ stop
    /\ t \notin registered
    /\ Move(t, "awaitRunner", "sdUnlink")
    /\ UNCHANGED <<slotVars, storeVars, ctxVars, surroundVars, sessVars, pollerVars>>

\* <-ctx.Done() with a registered runner, in phase 1 (after the probe) or 2:
\* the slot is released, task and session stay.
ShutdownRegistered(t) == /\ stop
                         /\ \/ Move(t, "awaitDone", "left")
                            \/ t \in registered /\ Move(t, "awaitRunner", "left")
                         /\ Release
                         /\ UNCHANGED <<storeVars, ctxVars, surroundVars, sessVars, pollerVars>>

-----------------------------------------------------------------------------
(* The cleanups, one step per call. *)

ReportsFailure(t) == /\ Move(t, "report", "unlink")
                     /\ ReportFailure(t)
                     /\ UNCHANGED <<slotVars, storeVars, ctxVars, sessVars, pollerVars,
                                    assigned, launched, expired, stop>>

\* sessions.Remove(taskCtx.SessionToken())
Unlinks(t) == /\ \/ Move(t, "unlink", "giveBack")
                 \/ Move(t, "sdUnlink", "sdDrop")
              /\ RemoveSession(sessionToken[t])
              /\ UNCHANGED <<slotVars, storeVars, ctxVars, surroundVars, pollerVars>>

\* Mutation of GivesBack: the failure branch returns before store.Remove.
GivesBackAndReturns(t) ==
    /\ Move(t, "giveBack", "exit") \/ Move(t, "sdGiveBack", "exit")
    /\ Release
    /\ UNCHANGED <<storeVars, ctxVars, surroundVars, sessVars, pollerVars>>

\* pool.Release(): before store.Remove on failure, after it at shutdown.
GivesBack(t) == /\ \/ Move(t, "giveBack", "drop")
                   \/ Move(t, "sdGiveBack", "exit")
                /\ Release
                /\ UNCHANGED <<storeVars, ctxVars, surroundVars, sessVars, pollerVars>>

Drops(t) == /\ \/ Move(t, "drop", "exit")
               \/ Move(t, "sdDrop", "sdGiveBack")
            /\ Remove(t)
            /\ UNCHANGED <<slotVars, ctxVars, surroundVars, sessVars, pollerVars>>

TriggerReturns(t) == TriggerOk(t) \/ TriggerFails(t)

AroundTrigger(t) == \/ Start(t)
                    \/ Finished(t)
                    \/ RunnerConnected(t)
                    \/ StartupTimeout(t)
                    \/ ShutdownUnregistered(t)
                    \/ ShutdownRegistered(t)
                    \/ ReportsFailure(t)
                    \/ Unlinks(t)
                    \/ GivesBack(t)
                    \/ Drops(t)

HandleTask(t) == TriggerReturns(t) \/ AroundTrigger(t)
=============================================================================
