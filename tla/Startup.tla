------------------------------ MODULE Startup -------------------------------
(***************************************************************************)
(* The first half of app.Run, again at every start of the process: each    *)
(* configured instance in turn restores its identity or registers, then    *)
(* declares itself; the south port is bound, the background services are   *)
(* started, the health port is bound.  Any failure ends the process.  The  *)
(* clients keep their identities in the state file, also when Forgejo      *)
(* revokes one and retryOnAuth registers anew (module NorthClient has the  *)
(* details of that).  Forgejo numbers the runners of a URL 1, 2, ...       *)
(***************************************************************************)
EXTENDS StateFile, Naturals

CONSTANTS Last,         \* the instances are 1 .. Last, in the order of the configuration
          MaxRunners    \* a bound on the runners Forgejo creates for a URL

ASSUME StartupAssumption == /\ Last \in Nat \ {0}
                            /\ MaxRunners \in Nat
                            /\ Client = 1 .. Last
                            /\ Identity = 1 .. MaxRunners
                            /\ NoIdentity = 0

VARIABLES boot,     \* where Run is
          turn,     \* the instance the startup loop is at
          mem,      \* the identity each client uses
          declared, \* instances that declared themselves in this life of the process
          up,       \* what this process has: the south port, the background services
          holding,  \* instances that have handed a task to this process
          runners,  \* Forgejo: runners created for each URL
          revoked,  \* Forgejo: runners whose token it rejects
          unsaved   \* runners whose registration never reached the state file

lifeVars == <<boot, turn, mem, declared, up, holding>>
worldVars == <<runners, revoked, unsaved>>
startVars == <<lifeVars, worldVars, fileVars>>

Boot == {"off", "load", "register", "declare", "listen", "spawn", "health", "serving"}

StartupTypeOK == /\ FileTypeOK
                 /\ boot \in Boot
                 /\ turn \in Client
                 /\ mem \in [Client -> 0 .. MaxRunners]
                 /\ declared \subseteq Client
                 /\ up \subseteq {"south", "services"}
                 /\ holding \subseteq Client
                 /\ runners \in [Url -> 0 .. MaxRunners]
                 /\ revoked \union unsaved \subseteq Url \X Identity

LifeInit == /\ boot = "off"
            /\ turn = 1
            /\ mem = [c \in Client |-> 0]
            /\ declared = {}
            /\ up = {}
            /\ holding = {}

StartupInit == /\ LifeInit
               /\ FileInit
               /\ runners = [u \in Url |-> 0]
               /\ revoked = {}
               /\ unsaved = {}

Runner(c) == <<UrlOf[c], mem[c]>>

\* The pollers run, and with them everything that uses the instances.
Polling == "services" \in up

-----------------------------------------------------------------------------
(* The end of the process *)

\* Nothing but the file and Forgejo remember this life.
ProcessEnds ==
    /\ boot' = "off"
    /\ turn' = 1
    /\ mem' = [c \in Client |-> 0]
    /\ declared' = {}
    /\ up' = {}
    /\ holding' = {}
    /\ FileAfterExit
    /\ UNCHANGED <<runners, revoked>>

\* A crash, a kill, the end after a shutdown, or an error of Run: Load fails,
\* Register or Declare is refused or times out, a port is taken.
Exit == /\ boot # "off"
        /\ ProcessEnds
        /\ unsaved' = unsaved \union {Runner(c) : c \in {d \in Client : ~NoSave(d)}}

-----------------------------------------------------------------------------
(* The startup loop *)

Launch == /\ boot = "off"
          /\ boot' = "load"
          /\ UNCHANGED <<turn, mem, declared, up, holding, worldVars, fileVars>>

\* Mutation of LoadIdentity: the state file is not looked into.
LoadIdentityIgnored ==
    /\ boot = "load"
    /\ mu = Unlocked
    /\ boot' = "register"
    /\ UNCHANGED <<turn, mem, declared, up, holding, worldVars, fileVars>>

\* north.New.
LoadIdentity ==
    /\ boot = "load"
    /\ mu = Unlocked
    /\ mem' = [mem EXCEPT ![turn] = Load(turn)]
    /\ boot' = IF Load(turn) # 0 THEN "declare" ELSE "register"
    /\ UNCHANGED <<turn, declared, up, holding, worldVars, fileVars>>

\* A client registers: the first time, or because its identity is rejected in
\* the Declare of the startup or in any RPC later on.  There the rejection may be
\* a late one of an identity that was replaced, if that could not be saved.
MayRegister(c) == \/ boot = "register" /\ c = turn /\ mem[c] = 0
                  \/ boot = "declare" /\ c = turn /\ Runner(c) \in revoked
                  \/ Polling /\ Runner(c) \in revoked \union unsaved

\* Register: Forgejo creates a runner, its identity is used and being saved.
Enrolls(c) ==
    LET u == UrlOf[c]
        n == runners[u] + 1
    IN  /\ MayRegister(c)
        /\ runners[u] < MaxRunners
        /\ runners' = [runners EXCEPT ![u] = n]
        /\ mem' = [mem EXCEPT ![c] = n]
        /\ CallSave(c, n)
        /\ UNCHANGED <<boot, turn, declared, up, holding, revoked, unsaved>>

\* The same, but the answer is lost.
AnswerLost(c) ==
    LET u == UrlOf[c]
        n == runners[u] + 1
    IN  /\ MayRegister(c)
        /\ NoSave(c)
        /\ runners[u] < MaxRunners
        /\ runners' = [runners EXCEPT ![u] = n]
        /\ unsaved' = unsaved \union {<<u, n>>}
        /\ UNCHANGED <<lifeVars, revoked, fileVars>>

\* The steps of Save that do not end it.
Saves(c) == /\ ReadAndMerge(c) \/ WriteTemp(c)
            /\ UNCHANGED <<lifeVars, worldVars>>

\* Save succeeds, and with it Register.
Saved(c) == /\ Rename(c)
            /\ boot' = IF boot = "register" THEN "declare" ELSE boot
            /\ UNCHANGED <<turn, mem, declared, up, holding, worldVars>>

\* Save fails: so does a startup; later the new identity stays in use.
NotSaved(c) == /\ IF Polling
                  THEN SaveFails(c) /\ UNCHANGED <<lifeVars, runners, revoked>>
                  ELSE saving[c].pc \in {"write", "rename"} /\ ProcessEnds
               /\ unsaved' = unsaved \union {Runner(c)}

\* Mutation of Declares: an instance that fails to declare itself is skipped.
DeclaresOrSkips ==
    /\ boot = "declare"
    /\ NoSave(turn)
    /\ \/ Runner(turn) \notin revoked /\ declared' = declared \union {turn}
       \/ UNCHANGED declared
    /\ IF turn = Last THEN boot' = "listen" /\ UNCHANGED turn
                      ELSE boot' = "load" /\ turn' = turn + 1
    /\ UNCHANGED <<mem, up, holding, worldVars, fileVars>>

\* Mutation of Declares: the loop runs past the last instance.
DeclaresBeyond ==
    /\ boot = "declare"
    /\ NoSave(turn)
    /\ Runner(turn) \notin revoked
    /\ declared' = declared \union {turn}
    /\ IF turn > Last THEN boot' = "listen" /\ UNCHANGED turn
                      ELSE boot' = "load" /\ turn' = turn + 1
    /\ UNCHANGED <<mem, up, holding, worldVars, fileVars>>

\* Declare succeeds; the next instance's turn, or the ports'.
Declares ==
    /\ boot = "declare"
    /\ NoSave(turn)
    /\ Runner(turn) \notin revoked
    /\ declared' = declared \union {turn}
    /\ IF turn = Last THEN boot' = "listen" /\ UNCHANGED turn
                      ELSE boot' = "load" /\ turn' = turn + 1
    /\ UNCHANGED <<mem, up, holding, worldVars, fileVars>>

Listens == /\ boot = "listen"
           /\ up' = up \union {"south"}
           /\ boot' = "spawn"
           /\ UNCHANGED <<turn, mem, declared, holding, worldVars, fileVars>>

\* gcLoop, the pollers, the dispatcher and the south server are started.
Spawns == /\ boot = "spawn"
          /\ up' = up \union {"services"}
          /\ boot' = "health"
          /\ UNCHANGED <<turn, mem, declared, holding, worldVars, fileVars>>

ServesHealth == /\ boot = "health"
                /\ boot' = "serving"
                /\ UNCHANGED <<turn, mem, declared, up, holding, worldVars, fileVars>>

-----------------------------------------------------------------------------
(* Forgejo *)

AssignsTask(c) == /\ Polling
                  /\ holding' = holding \union {c}
                  /\ UNCHANGED <<boot, turn, mem, declared, up, worldVars, fileVars>>

Revokes(u, n) == /\ n \in 1 .. runners[u]
                 /\ revoked' = revoked \union {<<u, n>>}
                 /\ UNCHANGED <<lifeVars, runners, unsaved, fileVars>>

SaveStep(c) == Saves(c) \/ Saved(c) \/ NotSaved(c)

StartupNext == \/ Launch \/ LoadIdentity \/ Declares \/ Listens \/ Spawns \/ ServesHealth
               \/ Exit
               \/ \E c \in Client : Enrolls(c) \/ AnswerLost(c) \/ SaveStep(c) \/ AssignsTask(c)
               \/ \E u \in Url, n \in Identity : Revokes(u, n)

StartupSpec == StartupInit /\ [][StartupNext]_startVars

\* The goroutine inside Save keeps running; sync.Mutex starves no waiter.
StartupFairSpec == StartupSpec /\ \A c \in Client : SF_startVars(SaveStep(c))

-----------------------------------------------------------------------------
(* Properties *)

\* Through all restarts, failing startups, lost answers and failing saves, every
\* runner Forgejo ever created is the one the state file leads a restart to, or
\* was revoked, or its registration could not be saved (README: "a restart reuses
\* the same runner instead of registering an orphan"; a file that cannot be read
\* is a hard error, not an empty one).
OrphansExplained ==
    \A u \in Url : \A n \in 1 .. runners[u] :
        \/ disk[u] = n
        \/ <<u, n>> \in revoked \union unsaved
        \/ \E c \in Client : Runner(c) = <<u, n>> /\ ~NoSave(c)

RecordOf(c) == INSTANCE ClientIdentity
                   WITH made <- runners[UrlOf[c]], used <- mem[c], kept <- Load(c),
                        bad  <- {n \in Identity : <<UrlOf[c], n>> \in revoked}

\* Every client keeps its identity as ClientIdentity promises, through restarts,
\* failing startups and the Saves of the others: what the process does is, for
\* each of them, a step that module allows, or nothing.
IdentitySpecs ==
    /\ \A c \in Client : RecordOf(c)!Init
    /\ [][\A c \in Client : [RecordOf(c)!Next]_(RecordOf(c)!identityVars)]_startVars

\* Forgejo hands a task only to a process that can serve it: every configured
\* instance has declared itself in this life and the south port is bound (app.go:
\* fail-fast, and the listener is bound before any goroutine starts).  The health
\* port is bound later: when that fails, such a process abandons its tasks.
TasksOnlyWhenReady == holding # {} => declared = Client /\ "south" \in up

\* Save returns, whoever else saves and whatever fails: no error path keeps the
\* mutex that all instances share.
SaveReturns == \A c \in Client : (~NoSave(c)) ~> NoSave(c)
=============================================================================
