--------------------------- MODULE SessionManager ---------------------------
(***************************************************************************)
(* internal/session/manager.go: the sessions of the internal runners, one  *)
(* operator per critical section of Manager.mu.  `sessions' maps a session *)
(* token to the TaskCtx of its session; LastActivity is abstracted to      *)
(* whether it is older than maxAge (`stale').                              *)
(***************************************************************************)
EXTENDS TaskStore

VARIABLES sessions, stale,
          opened        \* how many sessions a registration token has opened so far

sessVars == <<sessions, stale, opened>>

SessTypeOK == /\ sessions \in [Token -> Task \union {NoTask}]
              /\ stale \subseteq Token
              /\ opened \in [Task -> 0 .. MaxSessions]

SessInit == /\ sessions = [tok \in Token |-> NoTask]
            /\ stale = {}
            /\ opened = [u \in Task |-> 0]

Live == {tok \in Token : sessions[tok] # NoTask}

\* The token Create draws for a runner that presents the registration token of u.
FreshToken(u) == <<u, opened[u] + 1>>

\* CreateWithToken up to its unlock; SetSessionToken follows on its own.
InsertSession(tok, t) ==
    /\ opened[tok[1]] < MaxSessions
    /\ opened' = [opened EXCEPT ![tok[1]] = @ + 1]
    /\ sessions' = [sessions EXCEPT ![tok] = t]
    /\ stale' = stale \ {tok}

\* Touch of a session that exists.
Touch(tok) == stale' = stale \ {tok} /\ UNCHANGED <<sessions, opened>>

\* Remove: idempotent, and a no-op for the empty token of a task that has none.
RemoveSession(tok) ==
    /\ sessions' = [s \in Token |-> IF s = tok THEN NoTask ELSE sessions[s]]
    /\ stale' = stale \ {tok}
    /\ UNCHANGED opened

\* Expire: every session silent for more than maxAge goes in one critical section.
ExpireStale ==
    /\ sessions' = [s \in Token |-> IF s \in stale THEN NoTask ELSE sessions[s]]
    /\ stale' = {}
    /\ UNCHANGED opened

\* Time passes: the last activity of a session becomes older than maxAge.
SessionAges(tok) == /\ tok \in Live \ stale
                    /\ stale' = stale \union {tok}
                    /\ UNCHANGED <<sessions, opened>>
=============================================================================
