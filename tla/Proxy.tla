------------------------------- MODULE Proxy --------------------------------
(***************************************************************************)
(* internal/south/proxy.go: the registry of task tokens and how ServeHTTP  *)
(* routes a git, API or artifact request to an instance by it.  The tokens *)
(* Forgejo gave a task are the task's own and are registered together, so  *)
(* one entry per task stands for all of them.  lookup reads the status and *)
(* the session in two critical sections; as a session that is gone stays   *)
(* gone, its answer is one that a single step at one of the two gives.     *)
(* Paths, headers and the forwarding itself are left out.                  *)
(***************************************************************************)
EXTENDS SessionManager

VARIABLES entries,      \* the session an entry was registered for, or NoToken
          outdated      \* tasks whose tokens were registered longer than proxyEntryTTL ago

proxyVars == <<entries, outdated>>

ProxyTypeOK == /\ entries \in [Task -> Token \union {NoToken}]
               /\ outdated \subseteq Task

ProxyInit == /\ entries = [t \in Task |-> NoToken]
             /\ outdated = {}

\* putTaskTokens: an entry that is there already is replaced and renewed.
PutTaskTokens(t, tok) == /\ entries' = [entries EXCEPT ![t] = tok]
                         /\ outdated' = outdated \ {t}

\* Mutation of Routable: only a task that is known to run is routed.
RoutableWhileRunning(t) == /\ entries[t] # NoToken
                           /\ t \notin outdated
                           /\ status[t] = "Running"
                           /\ sessions[entries[t]] # NoTask

\* Mutation of Routable: the session is not looked at.
RoutableUntilTerminal(t) == /\ entries[t] # NoToken
                            /\ t \notin outdated
                            /\ status[t] # "Terminal"

\* What lookup demands of an entry.
Routable(t) == /\ entries[t] # NoToken
               /\ t \notin outdated
               /\ status[t] # "Terminal"
               /\ sessions[entries[t]] # NoTask

\* resolver.OnlyInstance: the sole configured instance, if there is just one.
OnlyInstance == {p \in Instance : Instance = {p}}

\* The instance ServeHTTP sends a request with a token of t to; none means 401.
Destination(t) == IF Routable(t) THEN {InstOf[t]} ELSE OnlyInstance

\* lookup finds an entry it must not use any more and evicts it.
Evict(t) == /\ entries[t] # NoToken
            /\ ~Routable(t)
            /\ entries' = [entries EXCEPT ![t] = NoToken]
            /\ UNCHANGED outdated

\* Time passes: 24 hours since the entry was registered.
EntryOutlivesTTL(t) == /\ entries[t] # NoToken
                       /\ t \notin outdated
                       /\ outdated' = outdated \union {t}
                       /\ UNCHANGED entries
=============================================================================
