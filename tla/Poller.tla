------------------------------- MODULE Poller -------------------------------
(***************************************************************************)
(* internal/north/poller.go: one PollLoop per Forgejo instance, all taking *)
(* slots from the shared pool and feeding the shared task channel.  The    *)
(* receiving end of the channel starts one goroutine per task, so the      *)
(* order inside the channel is of no consequence and `taskCh' is a set.    *)
(***************************************************************************)
EXTENDS SlotPool, TaskStore, FiniteSets

VARIABLES ppc,      \* where each poller is
          offer,    \* the task a poller is about to send
          taskCh    \* the tasks buffered in the channel

pollerVars == <<ppc, offer, taskCh>>

PollerPC == {"acquire", "fetch", "send", "wait", "stopped"}

PollerTypeOK == /\ ppc \in [Instance -> PollerPC]
                /\ offer \in [Instance -> Task \union {NoTask}]
                /\ taskCh \subseteq Task

PollerInit == /\ ppc = [p \in Instance |-> "acquire"]
              /\ offer = [p \in Instance |-> NoTask]
              /\ taskCh = {}

Goto(p, pc) == ppc' = [ppc EXCEPT ![p] = pc]

\* pool.Acquire succeeds.  Its select may take the slot though ctx is done.
PollAcquire(p) == /\ ppc[p] = "acquire"
                  /\ Acquire
                  /\ Goto(p, "fetch")
                  /\ UNCHANGED <<offer, taskCh, storeVars, ctxVars, surroundVars>>

\* ctx is done while the poller waits for a slot or for the poll interval.
PollCancelled(p) == /\ ppc[p] \in {"acquire", "wait"}
                    /\ stop
                    /\ Goto(p, "stopped")
                    /\ UNCHANGED <<sem, offer, taskCh, storeVars, ctxVars, surroundVars>>

\* FetchTask failed, Forgejo had nothing, or no token could be generated.
PollNothing(p) == /\ ppc[p] = "fetch"
                  /\ Release
                  /\ Goto(p, "wait")
                  /\ UNCHANGED <<offer, taskCh, storeVars, ctxVars, surroundVars>>

PollAgain(p) == /\ ppc[p] = "wait"
                /\ Goto(p, "acquire")
                /\ UNCHANGED <<sem, offer, taskCh, storeVars, ctxVars, surroundVars>>

\* Forgejo hands out t, a task of this instance; it is wrapped and stored.
PollReceive(p, t) == /\ ppc[p] = "fetch"
                     /\ InstOf[t] = p
                     /\ t \notin assigned
                     /\ assigned' = assigned \union {t}
                     /\ PutPending(t)
                     /\ offer' = [offer EXCEPT ![p] = t]
                     /\ Goto(p, "send")
                     /\ UNCHANGED <<sem, taskCh, ctxVars, launched, reported, expired, stop>>

ChannelHasRoom == Cardinality(taskCh) < Capacity

\* taskCh <- taskCtx: the slot travels with the task.
PollSend(p) == /\ ppc[p] = "send"
               /\ ChannelHasRoom
               /\ taskCh' = taskCh \union {offer[p]}
               /\ offer' = [offer EXCEPT ![p] = NoTask]
               /\ Goto(p, "acquire")
               /\ UNCHANGED <<sem, storeVars, ctxVars, surroundVars>>

\* Mutation of PollDrop: the loop returns with its slot.
PollDropKeepingSlot(p) ==
    /\ ppc[p] = "send"
    /\ stop
    /\ offer' = [offer EXCEPT ![p] = NoTask]
    /\ Goto(p, "stopped")
    /\ UNCHANGED <<sem, taskCh, storeVars, ctxVars, surroundVars>>

\* The other branch of that select: the slot is given back, the task stays stored.
PollDrop(p) == /\ ppc[p] = "send"
               /\ stop
               /\ Release
               /\ offer' = [offer EXCEPT ![p] = NoTask]
               /\ Goto(p, "stopped")
               /\ UNCHANGED <<taskCh, storeVars, ctxVars, surroundVars>>

PollLoop(p) == \/ PollAcquire(p)
               \/ PollCancelled(p)
               \/ PollNothing(p)
               \/ PollAgain(p)
               \/ \E t \in Task : PollReceive(p, t)
               \/ PollSend(p)
               \/ PollDrop(p)
=============================================================================
