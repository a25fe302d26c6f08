----------------------------- MODULE TaskStore ------------------------------
(***************************************************************************)
(* internal/store: the in-memory task store and the mutable fields of the  *)
(* TaskCtx it holds.  Each operator is one critical section of MemStore.mu *)
(* or of TaskCtx.mu, so it may be used as (part of) one atomic step.       *)
(*                                                                         *)
(* A registration token is random and belongs to one TaskCtx, so the index *)
(* byReg is keyed by that TaskCtx.  A session token is the registration    *)
(* token itself (the one-job path) or one that Register has drawn at       *)
(* random, which is to say one that nobody had before: <<u, 0>> is the     *)
(* registration token of u and <<u, n>> the token drawn for the n-th       *)
(* session that the registration token of u opens.                         *)
(***************************************************************************)
EXTENDS Surroundings, Naturals

CONSTANT MaxSessions    \* a bound: sessions one registration token may open

ASSUME SessionsAssumption == MaxSessions \in Nat \ {0}

VARIABLES tasks,        \* MemStore.tasks: Forgejo id -> TaskCtx
          byReg,        \* MemStore.byReg: registration token -> Forgejo id
          status,       \* TaskCtx.status
          sessionToken, \* TaskCtx.sessionToken
          done,         \* tasks whose done channel is closed
          registered    \* tasks whose registered channel is closed

storeVars == <<tasks, byReg>>
ctxVars == <<status, sessionToken, done, registered>>

Status == {"Pending", "Dispatched", "Running", "Terminal"}

Token == Task \X (0 .. MaxSessions)

RegToken(u) == <<u, 0>>

ASSUME TokenAssumption == NoToken \notin Token

StoreTypeOK == /\ tasks \in [Id -> Task \union {NoTask}]
               /\ byReg \in [Task -> Id \union {NoId}]
               /\ status \in [Task -> Status]
               /\ sessionToken \in [Task -> Token \union {NoToken}]
               /\ done \subseteq Task
               /\ registered \subseteq Task

StoreInit == /\ tasks = [i \in Id |-> NoTask]
             /\ byReg = [t \in Task |-> NoId]
             /\ status = [t \in Task |-> "Pending"]
             /\ sessionToken = [t \in Task |-> NoToken]
             /\ done = {}
             /\ registered = {}

\* The TaskCtx reachable through the store.
Stored == {t \in Task : tasks[IdOf[t]] = t}

-----------------------------------------------------------------------------
(* MemStore *)

PutPending(t) == /\ tasks' = [tasks EXCEPT ![IdOf[t]] = t]
                 /\ byReg' = [byReg EXCEPT ![t] = IdOf[t]]

\* The task the registration token of u leads to, by way of its id.
GetByRegToken(u) == IF byReg[u] = NoId THEN NoTask ELSE tasks[byReg[u]]

\* Mutation of MarkRegTokenConsumed: the token stays indexed until its task is removed.
MarkRegTokenConsumedLater(u) == u \in Task /\ UNCHANGED storeVars

\* MarkRegTokenConsumed, where the token is still indexed.
MarkRegTokenConsumed(u) == /\ byReg' = [byReg EXCEPT ![u] = NoId]
                           /\ UNCHANGED tasks

\* Mutation of RemoveIds: the index entries of the tasks stay behind.
RemoveIdsKeepingTokens(S) ==
    /\ tasks' = [i \in Id |-> IF i \in S THEN NoTask ELSE tasks[i]]
    /\ UNCHANGED byReg

\* removeLocked, for every id of S under one hold of the lock.
RemoveIds(S) ==
    /\ tasks' = [i \in Id |-> IF i \in S THEN NoTask ELSE tasks[i]]
    /\ byReg' = [u \in Task |-> IF byReg[u] \in S THEN NoId ELSE byReg[u]]

Remove(t) == RemoveIds({IdOf[t]})

-----------------------------------------------------------------------------
(* TaskCtx *)

SetStatus(t, s) == /\ status' = [status EXCEPT ![t] = s]
                   /\ UNCHANGED <<sessionToken, done, registered>>

MarkDispatched(t) == SetStatus(t, "Dispatched")

SetSessionToken(t, tok) == /\ sessionToken' = [sessionToken EXCEPT ![t] = tok]
                           /\ UNCHANGED <<status, done, registered>>

\* The registered channel is closed at most once, whoever calls.
MarkRunnerRegistered(t) == /\ status' = [status EXCEPT ![t] = "Running"]
                           /\ registered' = registered \union {t}
                           /\ UNCHANGED <<sessionToken, done>>

\* Mutation of MarkDone: the done channel is never closed.
MarkDoneSilently(t) == t \in Task /\ UNCHANGED ctxVars

MarkDone(t) == /\ done' = done \union {t}
               /\ UNCHANGED <<status, sessionToken, registered>>
=============================================================================
