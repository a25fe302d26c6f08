------------------------------- MODULE Reaper -------------------------------
(***************************************************************************)
(* The garbage collector: gcLoop and gcOnce of internal/app/app.go and     *)
(* MemStore.GC of internal/store/memstore.go.  One pass first removes the  *)
(* Pending tasks whose registration token has outlived its TTL, then reaps *)
(* the sessions that have been silent for too long and ends their tasks.   *)
(***************************************************************************)
EXTENDS SessionManager

CONSTANT MayCollect     \* a bound: FALSE leaves the collector out of an instance

ASSUME CollectAssumption == MayCollect \in BOOLEAN

VARIABLES gpc,      \* where the pass is
          scan,     \* tasks of the snapshot still to be inspected
          doomed,   \* tasks found Pending and expired
          dead,     \* tasks of the sessions Expire returned
          reaping   \* the one of them being ended

reaperVars == <<gpc, scan, doomed, dead, reaping>>

ReaperTypeOK == /\ gpc \in {"idle", "inspect", "expire", "reap", "finish", "remove", "stopped"}
                /\ scan \subseteq Task
                /\ doomed \subseteq Task
                /\ dead \subseteq Task
                /\ reaping \in Task \union {NoTask}

ReaperInit == /\ gpc = "idle"
              /\ scan = {}
              /\ doomed = {}
              /\ dead = {}
              /\ reaping = NoTask

\* The ticker fires; MemStore.GC copies the map under the read lock.
GCSnapshot == /\ MayCollect
              /\ gpc = "idle"
              /\ gpc' = "inspect"
              /\ scan' = Stored
              /\ UNCHANGED <<doomed, dead, reaping, storeVars, ctxVars, surroundVars, sessVars>>

\* The loop sees ctx.Done; with a tick pending as well it may take either.
GCStop == /\ gpc = "idle"
          /\ stop
          /\ gpc' = "stopped"
          /\ UNCHANGED <<scan, doomed, dead, reaping, storeVars, ctxVars, surroundVars, sessVars>>

\* Status is read outside the store lock ...
GCInspect(t) ==
    /\ gpc = "inspect"
    /\ t \in scan
    /\ scan' = scan \ {t}
    /\ doomed' = IF status[t] = "Pending" /\ t \in expired THEN doomed \union {t} ELSE doomed
    /\ UNCHANGED <<gpc, dead, reaping, storeVars, ctxVars, surroundVars, sessVars>>

\* Mutation of GCSweep: a pass that removes no task returns before it looks at sessions.
GCSweepOrReturn == /\ gpc = "inspect"
                   /\ scan = {}
                   /\ gpc' = IF doomed = {} THEN "idle" ELSE "expire"
                   /\ RemoveIds({IdOf[t] : t \in doomed})
                   /\ doomed' = {}
                   /\ UNCHANGED <<scan, dead, reaping, ctxVars, surroundVars, sessVars>>

\* ... and not looked at again by the sweep, which removes by id.
GCSweep == /\ gpc = "inspect"
           /\ scan = {}
           /\ gpc' = "expire"
           /\ RemoveIds({IdOf[t] : t \in doomed})
           /\ doomed' = {}
           /\ UNCHANGED <<scan, dead, reaping, ctxVars, surroundVars, sessVars>>

GCExpire == /\ gpc = "expire"
            /\ ExpireStale
            /\ dead' = {sessions[tok] : tok \in stale}
            /\ gpc' = "reap"
            /\ UNCHANGED <<scan, doomed, reaping, storeVars, ctxVars, surroundVars>>

\* The failure report for one orphaned task; its outcome is only logged.
GCReport(t) == /\ gpc = "reap"
               /\ t \in dead
               /\ dead' = dead \ {t}
               /\ reaping' = t
               /\ ReportFailure(t)
               /\ gpc' = "finish"
               /\ UNCHANGED <<scan, doomed, storeVars, ctxVars, sessVars,
                              assigned, launched, expired, stop>>

GCMarkDone == /\ gpc = "finish"
              /\ MarkDone(reaping)
              /\ gpc' = "remove"
              /\ UNCHANGED <<scan, doomed, dead, reaping, storeVars, surroundVars, sessVars>>

GCRemove == /\ gpc = "remove"
            /\ Remove(reaping)
            /\ reaping' = NoTask
            /\ gpc' = "reap"
            /\ UNCHANGED <<scan, doomed, dead, ctxVars, surroundVars, sessVars>>

GCDone == /\ gpc = "reap"
          /\ dead = {}
          /\ gpc' = "idle"
          /\ UNCHANGED <<scan, doomed, dead, reaping, storeVars, ctxVars, surroundVars, sessVars>>

GCLoop == \/ GCSnapshot
          \/ GCStop
          \/ \E t \in Task : GCInspect(t)
          \/ GCSweep
          \/ GCExpire
          \/ \E t \in Task : GCReport(t)
          \/ GCMarkDone
          \/ GCRemove
          \/ GCDone
=============================================================================
