------------------------------ MODULE Shutdown ------------------------------
(***************************************************************************)
(* The end of app.Run: the signal cancels the daemon context, drainTasks   *)
(* polls CountActive until it is zero or the drain timeout elapses, then   *)
(* the south server is shut down.  CountActive copies the task pointers    *)
(* under the store lock and reads their statuses one by one outside it.    *)
(***************************************************************************)
EXTENDS TaskStore

CONSTANTS MaySignal,    \* a bound: FALSE leaves shutdown out of an instance
          MayCount      \* a bound: FALSE leaves CountActive out, and the drain with it open

ASSUME SignalAssumption == MaySignal \in BOOLEAN /\ MayCount \in BOOLEAN

VARIABLES drain,    \* where Run is
          counting, \* tasks of the CountActive snapshot still to be read
          active    \* some task read so far is not Terminal

shutVars == <<drain, counting, active>>

ShutTypeOK == /\ drain \in {"serving", "count", "read", "sleep", "drained", "timeout"}
              /\ counting \subseteq Task
              /\ active \in BOOLEAN

ShutInit == /\ drain = "serving"
            /\ counting = {}
            /\ active = FALSE

\* The south server accepts requests until the drain is over.
Accepting == drain \notin {"drained", "timeout"}

Signal == /\ MaySignal
          /\ drain = "serving"
          /\ drain' = "count"
          /\ stop' = TRUE
          /\ UNCHANGED <<counting, active, storeVars, ctxVars,
                         assigned, launched, reported, expired>>

CountSnapshot == /\ MayCount
                 /\ drain = "count"
                 /\ drain' = "read"
                 /\ counting' = Stored
                 /\ active' = FALSE
                 /\ UNCHANGED <<storeVars, ctxVars, surroundVars>>

\* Mutation of CountStatus: only tasks whose runner was seen to run count.
CountStatusRunningOnly(t) ==
    /\ drain = "read"
    /\ t \in counting
    /\ counting' = counting \ {t}
    /\ active' = (active \/ status[t] = "Running")
    /\ UNCHANGED <<drain, storeVars, ctxVars, surroundVars>>

CountStatus(t) == /\ drain = "read"
                  /\ t \in counting
                  /\ counting' = counting \ {t}
                  /\ active' = (active \/ status[t] # "Terminal")
                  /\ UNCHANGED <<drain, storeVars, ctxVars, surroundVars>>

CountResult == /\ drain = "read"
               /\ counting = {}
               /\ drain' = IF active THEN "sleep" ELSE "drained"
               /\ active' = FALSE
               /\ UNCHANGED <<counting, storeVars, ctxVars, surroundVars>>

\* The ticker or the drain timeout, whichever is ready.
CountAgain == /\ drain = "sleep"
              /\ drain' \in {"count", "timeout"}
              /\ UNCHANGED <<counting, active, storeVars, ctxVars, surroundVars>>

Drain == \/ CountSnapshot
         \/ \E t \in Task : CountStatus(t)
         \/ CountResult
         \/ CountAgain
=============================================================================
