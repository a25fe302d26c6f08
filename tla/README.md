# Forgery: TLA+ models, model checking and proofs

Forgery is a Go daemon between Forgejo and GitHub Actions. It polls one or more
Forgejo instances for tasks, starts a GitHub Actions job for each, and lets the
`forgejo-runner` in that job (the *internal runner*) talk to Forgejo through the
daemon. This directory holds TLA+ modules of the daemon, the TLC configurations
that check them and the theorems TLAPS proves about them.

Paths below are relative to `src/internal/`.

## 1. Inventory

| Component | Source | State | Operations | Hard part | Correct when |
|---|---|---|---|---|---|
| backpressure pool | `slots/pool.go` | elements in a buffered channel | Acquire, Release | Release on an empty pool is silent | every slot is given back exactly once |
| task store | `store/memstore.go` | `tasks` (id → TaskCtx), `byReg` (token → id), one RWMutex | PutPending, GetByRegToken, MarkRegTokenConsumed, Remove, GC, CountActive | GC and CountActive read statuses outside the lock | the index leads to the token's own task; GC takes only what it may |
| task context | `store/store.go` | status, session token, `done`, `registered` channels, a mutex each | SetStatus, MarkDispatched, MarkRunnerRegistered, MarkDone, SetSessionToken | three goroutines write it | waiters are always woken |
| session manager | `session/manager.go` | token → session, last activity | Create(WithToken), Lookup, Touch, Remove, Expire | the session is visible before the task knows its token | a task has one session; unused ones are reaped |
| poll loop | `north/poller.go` | one goroutine per instance | PollLoop | slot held across an RPC; select at shutdown | never blocks with a task in hand |
| task orchestration | `run/runner.go` | one goroutine per task | HandleTask | four-way select; cleanup races with registration | no exit leaks a slot, a task or a session, or drops a running task |
| south handler | `south/handler.go` | one goroutine per request | Register, Declare, FetchTask, UpdateTask, UpdateLog | lookup, expiry check, consumption and creation are separate steps | a token admits one runner; a result is reported before anything is cleaned up |
| garbage collector | `app/app.go`, `store/memstore.go` | one goroutine | gcLoop, gcOnce, GC, Expire | check, then act | only dead tasks and sessions go, and all of them do |
| shutdown | `app/app.go` | the daemon context, the drain | signal, drainTasks | counts while the world moves | registered runners finish before the end |
| dispatcher | `dispatch/github.go` | the attempt it is at | Trigger (retry, backoff) | the answer may be lost after the job started | the attempts are bounded; a task is run by one job |
| northbound identity | `north/client.go` | identity, generation, backoff | retryOnAuth, Register, Declare, forwards, heartbeat | concurrent authentication failures | one new runner per identity loss |
| state file | `state/state.go` | one JSON file and a mutex for all instances | Load, Save | crash between write and rename; two Saves at once | it behaves like an atomic map |
| startup | `app/app.go` | how far Run has come | registerInstance, the binds, the goroutines | any step may fail, and restarts see what earlier lives left | no task is taken before the daemon can serve it; no restart orphans a runner |
| reverse proxy | `south/proxy.go` | token registry | putTaskTokens, lookup | entries die with task, session or time, but only on lookup | a working job is routed, and with several instances an ended one is not |
| payload rewriting | `south/payload.go` | none | rewriteWorkflowPayload | pure | |
| configuration | `config/config.go` | none | Load, validate | pure | |
| token, logging, health, command line, workflow template | `token/`, `observability/`, `cmd/`, `templates/` | none | | | |

How they interact: a poller takes a slot from the pool, fetches a task, stores
it and sends it over `taskCh`; the receiving end starts `HandleTask`, which now
owes the slot. The dispatched job carries the task's registration token. The
internal runner presents it to the south handler, which consumes it in the store,
creates a session and marks the task registered; a terminal `UpdateTask` is
forwarded to Forgejo, then the handler closes `done` (which wakes `HandleTask`)
and removes session and task. The collector ends what everybody else forgot, by
the same `done` channel. FetchTask registers the task's tokens with the proxy, which
routes the job's git and API requests by them. A signal cancels the context all of them watch, and
`drainTasks` waits for the store to empty. `PROJECT.json` lists the hazards that
follow from this, each at its line.

## 2. Modules

| Module | Models | Notes |
|---|---|---|
| `SlotPool` | `slots/pool.go` | `sem` counts the channel's elements |
| `SlotLedger` | (abstract) | what the pool promises: a bounded set of holders |
| `Admission` | (abstract) | what a registration token promises: it admits one runner, once |
| `Surroundings` | Forgejo, GitHub, the clock of the tokens, the context | `reported[t]`: result acknowledged, or failure issued; under a cancelled context a failure report may not get that far |
| `TaskStore` | `store/` | one operator per critical section |
| `SessionManager` | `session/manager.go` | `stale` replaces LastActivity; `opened[t]` counts the sessions a registration token has opened |
| `Poller` | `north/poller.go` | extends SlotPool and TaskStore |
| `Runner` | `run/runner.go` | `phase[t]` is what HandleTask does next |
| `South` | `south/handler.go` | `req[r]` is where a request stands |
| `Reaper` | `gcLoop`, `gcOnce`, `MemStore.GC` | split where the lock is given up |
| `Shutdown` | the end of `Run`, `drainTasks`, `CountActive` | reads one status per step |
| `TaskLifecycle` | the composition, and every property | |
| `Dispatch` | `dispatch/github.go`, and GitHub's side of its requests | refines `AskGitHub`, `TriggerOk` and `TriggerFails` of `Runner` |
| `Proxy` | the token registry of `south/proxy.go`, `OnlyInstance` | one entry per task; `Destination(t)` is where a request with its tokens is sent |
| `Jobs` | `TaskLifecycle` with `Dispatch`, `Proxy` and the jobs that make the requests | proved to implement `TaskLifecycle` |
| `NorthClient` | `north/client.go`: `retryOnAuth`, `Register`, backoff; Load and Save of `state/` | one instance, RPCs in flight, restarts |
| `IdentityStore` | (abstract) | what `state.Store` promises |
| `ClientIdentity` | (abstract) | what the northbound client promises of its runner identity |
| `StateFile` | `state/state.go` | Save step by step, for several clients |
| `Startup` | the first half of `Run`, `registerInstance`, restarts; `north.New`, Register and Save of several clients | composes `StateFile` with the life of the process |
| `LifecycleProofs`, `TokenProofs`, `WakerProofs`, `ReportProofs`, `EndProofs` | theorems about `TaskLifecycle` | each extends those it uses |
| `JobsProofs` | theorems about `Jobs` | extends `EndProofs` |
| `NorthProofs`, `StartupProofs` | theorems about `NorthClient`; `StateFile` and `Startup` | |
| `MCOne`, `MCTwo`, `MCJobs`, `MCStartup` | instances for TLC | one Forgejo instance; two; one task and its jobs; two clients and a file |

Operators of `SlotPool`, `TaskStore` and `SessionManager` are the bodies of the
methods of the same name; an action of `Poller`, `Runner`, `South`, `Reaper` or
`Shutdown` is one atomic step of a goroutine: what it does between two places
where another goroutine may observe or change shared state. Two calls that take
different locks are two actions. Operators whose comment begins with *Mutation
of* are deliberately wrong variants, kept to show that a property notices them;
no specification uses them.

Abstractions, and why they lose nothing the properties speak of:

- Tokens are random: a drawn one is taken to be one that nobody had before. `<<t, 0>>`
  is the registration token of `t`, which the one-job path uses for its session too,
  and `<<t, n>>` the token drawn by Register for the n-th session opened with it
  (`FreshToken`). `byReg`, keyed by registration token, is keyed by task.
- A failure report (`ReportFailure`) runs under the daemon context. Once that is
  cancelled the call may end before anything has left the process, so the step may
  leave `reported` as it is.
- `Task` is the set of TaskCtx objects, `IdOf` the id Forgejo gave each. Every
  task is handed out at most once. With `IdOf` injective ids are unique; the run
  `SharedIds` gives tasks of two instances the same id, which independent Forgejo
  servers do.
- A `Call` request stands for Declare, UpdateLog and a non-terminal UpdateTask:
  they authenticate (and may thereby register) and change nothing else that is
  modelled. `Fetch` is FetchTask; what it does to the proxy registry is added by
  `Jobs`. The token of a request is one a real runner can have.
- In `TaskLifecycle` Trigger is its summary: once the first request has left, GitHub
  may start the job at any time, whatever Trigger is told; Trigger returns success
  or an error. `Dispatch` has the loop: attempts, backoff, cancellation, a final 4xx,
  retried 5xx and network errors, answers that are lost. A 204 says that GitHub has
  accepted the request and nothing about the job. Every attempt is a request
  that GitHub may take up however late; the jobs of all of them carry the same
  registration token. In `Jobs` every request at the south handler is made by a
  started job of its own task. In its instances the runners use the one-job path
  (`JobKind`), which is what the workflow template starts.
- The runtime tokens Forgejo gave a task are the task's own and are put into the
  proxy registry together, so `entries` has one place per task; `outdated` replaces
  the entry's time. `lookup` reads the status and the session in two critical
  sections; a session that is gone stays gone, so a single step at one of the two
  gives the same answer.
- The channel `taskCh` is a set, for the receiver starts one goroutine per element.
- A time is only compared with a limit, so `expired` and `stale` replace times.
- A FetchTask whose answer is lost, or a task for which no token could be
  generated, leaves the task with Forgejo; the daemon has no trace of it and the
  model none either (`PollNothing`).
- In `NorthClient` an identity is the number Forgejo gave the runner. Every RPC of
  the client runs under `retryOnAuth`, so `call[r]` stands for any of them,
  Declare at startup included; the retry of `fn` changes nothing and is part of
  the step before it. Steps that hold `regMu` to their end without being
  observable (`Deduplicate`, `BackOff`) are one action; a Register keeps `regMu`
  over its steps. Before the first RPC there is only the first `Register`, which
  takes no mutex. Its state file is written in one step, or not at all: that one
  client sees no more of it is what `FileImplementsStore` says.
- `Startup` has the clients of all instances but only what matters to the file: a
  client registers when it has no identity, or while the one in use is rejected or was
  never saved, which is what `NorthClient` shows of `retryOnAuth`; both modules are
  proved to keep the promise of `ClientIdentity`. Forgejo numbers the runners of a URL; an identity is the number.
  A corrupt or unreadable file is a Load or Save that fails. The temporary file
  has a name of its own and is never read; what `saving[c].data` holds stands for it.
- The daemon and its identities meet in the forwards and FetchTask only: `TaskLifecycle` allows
  each to fail at any time, whatever `NorthClient` makes of it.
- The model goes on after the drain has ended, where the process would exit;
  in-flight requests then finish, as `http.Server.Shutdown` lets them, and no new
  ones arrive.

## 3. What is checked

`vars`, `Init` and `Next` of `TaskLifecycle` are the whole daemon after its startup,
apart from its northbound identities, which `NorthClient` and `Startup` model. Every
passing run is exhaustive. The runs of `TaskLifecycle` and `Jobs` set
`CHECK_DEADLOCK FALSE`, for after a shutdown the daemon really stops; `North` and
`Startup` check for deadlock.

| Run | Instance | Shows |
|---|---|---|
| `Requests` | 1 task, 2 requests, collector | `WaiterHasWaker`, `FinishedMeansReported`, `NothingLeftBehind`, `ExitLeavesNoTask`, `OneRegistration`, `RegisteredTaskStays`, `AdmissionSpec` |
| `Daemon` | 1 task, 1 request, collector, signal, token expiry | `TypeOK`, `SlotConservation`, `TokenIndexSound`, `WaiterHasWaker`, `DrainSound` |
| `Pollers` | 2 instances with a task each, pool of 1, collector, signal, token expiry | `SlotConservation`, `SendNeverBlocks`, `TokenIndexSound`, `LedgerSpec` |
| `Liveness` | 1 task, 1 request, collector, signal, fairness | `OrphansReaped`, `SlotsComeBack` |
| `Jobs` | 1 task of one of 2 instances, 2 attempts and their jobs, 1 request at a time, signal | `JobsTypeOK`, `WorkingJobsAreRouted`, `EndedTasksAreNotRouted` |
| `North` | 2 RPCs, up to 3 runners, lost answers, failing saves, crashes, fairness | `NorthTypeOK`, `SavedIsCurrent`, `RegistersOnlyWhenNeeded`, `IdentitySpec`, `IdentityRecovered` |
| `Startup` | 2 instances, one file, up to 3 runners each, any number of starts and ends of the process, fairness of Save | `StartupTypeOK`, `OrphansExplained`, `TasksOnlyWhenReady`, `StoreSpec`, `IdentitySpecs`, `SaveReturns` |

The bounds: one task and two requests are the least at which two requests race
for a token, or a handler, HandleTask and the collector end the same task; two
tasks the least at which an operation on one can disturb the other; two pollers
and one slot the least at which they compete. `MaySignal` and `MayCollect` leave
a component out of an instance to keep it small, `Expirable` the expiry of
registration tokens; `Capacity` and the sizes of `Task`, `Instance` and `Request`
are the other bounds. `MaxSessions` bounds the sessions one registration token may open:
2 in `Requests`, where `OneRegistration` shows that no token opens a second one, and
therefore 1 everywhere else. `MayCount` leaves CountActive, and so the end of the drain,
out of `Liveness` and `Jobs`: the signal cancels the context there and the south server
goes on accepting requests. Requests are interchangeable, hence the symmetry in
`Requests`.

In `Jobs` one retry (`MaxRetries`, 3 in the code) is the least with which two jobs
exist for a task, one of a lost answer and one of a successful retry. One request at
a time suffices for what one job's fetch and report do to the entry of the other; the
second instance has no task, and its being configured closes the way by `OnlyInstance`;
the theorems of section 4 have no such bound.

In `North` two RPCs are the least that can be rejected together, or one late while
the other registers; three runners (`MaxRunners`) allow a second loss after the
first recovery and an orphan from a lost answer. `MaySaveFail`, `MayLoseAnswer`
and `MayCrash` choose the failures of an instance. In `Startup` two clients are the
least that can save at once, and the startup loop has a first and a last instance;
three runners of a URL allow a restored, a lost and a replaced identity.

Some properties hold with an exception, or on a part of the system only. Each of
these limits is needed; the changes named below make TLC find a counterexample.

- `DrainSound` excepts tasks whose registration token has outlived its TTL: GC
  inspects the status outside the store lock and then removes by id without looking
  again (`store/memstore.go:130-149`), so a task that was dispatched and registered
  in between leaves the store and the drain no longer sees it. Dropping
  `\/ t \in expired` makes `Daemon` fail. (The property is about the drain, not about
  this sweep, which is a hazard no property covers.)
- `RegisteredTaskStays` is checked without signal and expiry. With
  `Expirable <- AllTasks` and the collector the same sweep refutes it; the signal
  refutes it in the run `ShutdownRace`.
- `FinishedMeansReported` is stated for a daemon that is not shutting down: the
  shutdown branches of HandleTask send no report, and one that is sent under the
  cancelled context may not leave the process.
- `RegistersOnlyWhenNeeded` is what remains of `RegistersOnlyWhenLost` when saves may
  fail: Register uses the new identity before it is saved and advances the generation
  after (`north/client.go:293-308`), so when Save fails, a late rejection of the old
  identity registers once more although the one in use is accepted. Checked in its
  place in `North`, `RegistersOnlyWhenLost` fails; without failing saves it is proved.
- `WorkingJobsAreRouted` excepts entries that reached the age limit. The limit counts
  from FetchTask and nothing renews it, so a job that works for longer than 24 hours
  loses its route, although `south/proxy.go:159-160` says that "a long-running task is
  never cut off no matter how long it runs". Dropping `\/ t \in outdated` makes
  `Jobs` fail.
- `OrphansExplained` is checked for instances with different URLs. The file is keyed
  by `forgejo_url`, while `config/config.go:275-289` requires only distinct names: with
  `OwnUrl` the same URL for both, the Save of one overwrites the identity of the
  other, and the next restart gives both the same runner and orphans the first.
- `EndedTasksAreNotRouted` is about daemons with several instances. With a single one
  ServeHTTP sends every request whose token the registry does not know to that instance
  (`OnlyInstance`, `south/proxy.go:313-319`), an ended task's too: without the antecedent,
  `Jobs` with `Instance <- OneInstance` fails. `WorkingJobsAreRouted` is checked with two
  instances, where it cannot rely on that fallback.

### Where the code does not do what it says

Each of these runs ends in a counterexample.

| Run | Property | What happens |
|---|---|---|
| `Timeout` | `TimeoutMeansUnregistered` | the timeout branch does not ask again whether the runner registered, so a running task is reported failed and dropped |
| `StuckPending` | `StuckPendingReclaimed` | a task PollLoop drops at shutdown stays Pending; the collector that should reclaim it stops with the same context, and the drain runs into its timeout |
| `SharedIds` | `SessionRoutesToOwner` | two instances use one task id: a runner is given the other instance's task |
| `ShutdownRace` | `RegisteredTaskStays` | a runner that registers between the probe and the cleanup at shutdown loses its task from the store |
| `TwiceFetched` | `TaskRunsOnce` | the answer to a dispatch is lost, the retry starts a second job, and FetchTask, which returns the task on every call, hands it to both |

### Fairness

`Fairness` is weak fairness of the steps of every goroutine. It says that the Go
scheduler runs every goroutine that can run, that timers and tickers fire and
time passes, and that every call to Forgejo or GitHub comes back with an answer
or an error. The last is an assumption about the world: the forwards have no
timeout of their own (see the hazards). Nothing is assumed of Forgejo handing out
tasks, of GitHub starting jobs, of runners calling or of the signal.
`SlotsComeBack` and `OrphansReaped` are about what happens once the runners have
fallen silent (`<>[]Quiet`); a runner that keeps calling keeps its session, which
is what the code intends. `SlotsComeBack` holds through a shutdown, which ends the
collector, because HandleTask gives its slot back when the context is cancelled;
`OrphansReaped` excuses sessions that are left when the collector has stopped.

`NorthFairness` likewise says that goroutines run, RPCs come back and the backoff
elapses; that somebody keeps calling, as the pollers do in every cycle; and, of
Forgejo, that a rejected identity is rejected, and Register answered, again and
again (strong fairness of `Rejected`, `Enroll` and `SetIdentity`: each may fail any
number of times, but not for ever). Crashes and restarts are not assumed.
`IdentityRecovered` excuses the end of the process and the exhausted bound
`MaxRunners`.

`StartupFairSpec` says only that a goroutine inside Save goes on, by strong fairness,
for the mutex is taken and freed by others meanwhile and Go's `sync.Mutex` starves no
waiter. `SaveReturns` is then about the error paths.

## 4. What is proved

All theorems hold for every value of the constants under the `ASSUME`s of the modules
(capacity at least 1; `InstOf`, `IdOf` and `UrlOf` total; null values outside the sets
they complete; instances and tasks disjoint), so for any number of instances, tasks,
requests, jobs, retries, clients, runners and restarts. Two further assumptions are
stated where a theorem needs them: `UniqueIds` (no two tasks have the same Forgejo id;
the run `SharedIds` shows what happens otherwise) and `OwnUrls` (no two instances have
the same URL).

**Slots** (`LifecycleProofs`)

- `TypeCorrect`: `Spec => []TypeOK`. `TypeOK` is not inductive: `Authenticated`
  stores a task that must not be the null value, `GCMarkDone` uses `reaping`, a
  poller that sends uses `offer`. `TypeInv` adds that the null values occur only
  where nothing reads them. One lemma per component shows that its steps keep the
  parts of `TypeInv` it touches, `FrameTypes` that it keeps the rest.
- `SlotsConserved`: `Spec => []SlotConservation`. The inductive invariant
  `SlotInv` adds `OnItsWay` (a task is offered, buffered or started, one at a
  time, so handing it on never merges two holders) and that both sets of holders
  are finite, so that they can be counted. `SlotStep` lists the five things a
  step may do to pool and holders; the lemmas show that every step of every
  component is one of them, and that each of them keeps the count.
- `SendsNeverBlock`: `Spec => []SendNeverBlocks`. By the count, a poller in its
  send and the buffered tasks together hold at most `Capacity` slots, so fewer
  than `Capacity` tasks are buffered.
- `LedgerImplemented`: `Spec => LedgerSpec`. Every step maps to a step of
  `SlotLedger` or a stutter under `holders <- HoldingPollers \union HoldingTasks`.

**Tokens** (`TokenProofs`, with `UniqueIds`): `IndexIsSound`, `SessionsRouted`. The
invariant `TokenInv` says that an indexed token is that of a
stored task without a session token, that sessions and requests are concerned with
the task their token was made for, and that a request which has consumed a token is
the only one of its task between consumption and `SetSessionToken`.

**Admission** (`EndProofs`, with `UniqueIds`), `TokensAdmitOnce`: `Spec => AdmissionSpec`.
`Admission` is the life of an invitation, no state of which is ever returned to:
invited, admitted, ended, or void before it was used. The code keeps it in three places
(the token index, the sessions, the requests between consuming a token and linking
the session), which `Access` maps to one. The proof needs nothing beyond the
invariants of the other theorems (`EndInv` and what it rests on): a consumed token's
request is the only one of its task, and a task has one session token. `Shrinking` and
`Expulsion` show that whatever removes sessions and index entries, one task's or those of
all stale ones, ends stays and withdraws invitations and reopens none.
`ResultsAreOfAdmitted` is drawn from `Admission` alone and holds of the daemon by the
refinement: a result at Forgejo is that of a runner which was admitted.

**The end of a task**

- `WakerProofs`, `WaitersWake` (with `UniqueIds`): `Spec => []WaiterHasWaker`.
  `WakerInv` extends the claim from the moment a session is created up to the cleanup
  of HandleTask: whoever takes a session away either belongs to a task that is done,
  or is the collector on its way to close `done`.
- `ReportProofs`, `NoSilentEnd`: `Spec => []FinishedMeansReported`. `ReportInv` says
  where handler, collector and HandleTask have already seen to a report.
- `EndProofs` (with `UniqueIds`): `NothingStays`, `ExitCleansUp`. `EndInv` says that
  all sessions of a task, and all requests that act for one, go by its one session
  token, so that an ended task keeps no session but one about to be removed, and a
  done task is stored only while somebody is at its removal.
- `EndProofs`, `DrainWaits` (with `UniqueIds`): `Spec => []DrainSound`. `CountInv` says
  that a task missing in a snapshot, or read as Terminal, was reported or has an
  outlived token, and that this stays so for the tasks already counted while the
  others are read.
- `EndProofs`, `RegistersOnce` (with `UniqueIds`): `Spec => []OneRegistration`. A token
  that is no longer indexed stays so (`IndexInv`: no session was opened with a token that
  is indexed, and one at most with any other), and all sessions of a task go by the
  one token `OneTokenInv` speaks of. The bound `MaxSessions` plays no part.
- `EndProofs`, `RegisteredStays` (with `UniqueIds`): `Spec => RegisteredTaskStays` without
  signal and expiry, the conditions under which `Requests` checks it. `LeavesExplained`
  lists what takes a task out of the store, and `BoundInv` says that who has not seen a
  signal is not cleaning up after one, and that nothing outlives a TTL that is not
  reached.

**Jobs and the proxy** (`JobsProofs`)

- `JobsImplementLifecycle`: `JobsSpec => Spec`, so that all of the above holds of the
  daemon with its retries too.
- `JobsTyped`: `JobsInv` adds that attempts beyond the present one have not been sent,
  and that requests in flight are made by jobs.
- `WorkersAreRouted`, `EndedAreNotRouted` (with `UniqueIds`): `RouteInv` joins `JobsInv`
  with the invariants of the daemon and adds `RegistryInv`: every job that was handed
  its task has a session token of the task's own by which it was fetched, and as long
  as that session lives, the entry is still the one registered for it. Since a task has one session token
  (`EndInv`), a second job's fetch does not change the entry.

**Identities**

- `StartupProofs`, `FileImplementsStore`: `FileSpec => StoreSpec`. `FileInv` says that
  whoever is past reading the file holds the mutex and holds the present contents with
  his own entry changed. `IdentitiesKept` is the same for `StartupSpec`.
- `StartupProofs`, `StartupTyped` and `ReadyFirst`: `OrderInv` follows the order of
  the startup steps; `SaverInv` says who may be saving.
- `StartupProofs`, `NoUnexplainedOrphan` (with `OwnUrls`):
  `StartupSpec => []OrphansExplained`. `OverwriteInv` says that what a client's next Save
  overwrites is no runner, or a revoked or unsaved one.
- `NorthProofs`: `NorthTyped`; `IdentityPersisted`: `NorthSpec => []SavedIsCurrent`;
  `RegisterIsNeeded`: `NorthSpec => RegistersOnlyWhenNeeded`, and from it
  `OneRegisterPerLoss`: `NorthSpec => RegistersOnlyWhenLost` if the state file can
  be written (`~MaySaveFail`). `NorthInv` is the type invariant with three parts, each
  needed by the next: `Serial` (whoever is inside Register holds `regMu`, or is the
  first Register, which is alone), `Persisted` (between registrations the state file
  holds the identity in use, or the failed save is still counted by the backoff), and
  `Current` (a call of the present generation carries the identity in use unless that
  is being changed or is unsaved, and a rejected call carries a revoked one). A call
  that is about to register sees its own generation under `regMu` while nobody
  registers: so it was sent with the identity in use, which is therefore revoked,
  unless that is unsaved.

- `NorthProofs`, `IdentityRecorded`: `NorthSpec => IdentitySpec`. `Numbered` says, on top
  of `NorthInv`, that the answer to Register is the newest runner and that neither the
  state file nor the client has gone past it, and that a call about to register does so
  for a lost or unrecorded identity.
- `StartupProofs`, `EachIdentityRecorded` (with `OwnUrls`): `StartupSpec => IdentitySpecs`,
  the same promise for every instance, `RecordOf(c)` being its refinement mapping.
  `NumbersInv` says that what is being saved is newer than what the file says, and that
  what could not be saved is not in the file; `ToComeInv` that a start has given no
  identity yet to the instances the loop has not reached. `IdentitySpecs` says of
  all instances together that each takes a step of `ClientIdentity` or none, which is
  each instance's `RecordOf(c)!Spec`.
- `RecordAdvances` and `FileAdvances` are drawn from `ClientIdentity` through these two
  refinements: no Save ever puts an older runner back into the state file.
- `NorthProofs`, `RegMuIsReturned`, and `StartupProofs`, `MuIsReturned`: the mutexes
  `client.regMu` and `FileStore.mu` are held only by whoever is at work under them.
  These are the safety halves of `IdentityRecovered` and `SaveReturns`: no path leaves a
  mutex locked. That the holder gets on and a waiter gets its turn needs fairness.

Only model-checked: liveness (`OrphansReaped`, `SlotsComeBack`, `IdentityRecovered`,
`SaveReturns`), which is out of TLAPS's reach here. All other properties of the passing
runs are theorems. Both `NorthClient` and `Startup` are proved to implement
`ClientIdentity`; that the one implements the other is not stated, for they cut the
steps of Register differently (`Startup` has no generation, `NorthClient` no mutex
of the file).

## 5. Not modelled

- The heartbeat goroutine: it changes no state of the daemon but, through
  `retryOnAuth`, the identity, and there it is one more caller of `NorthClient`. (Its
  comment at `north/client.go:365-367` has callers stop it when the runner connects,
  while HandleTask lets it run until it returns, as the user's documentation says.)
- The second signal (`os.Exit`) and the HTTP shutdown after the drain.
- Payload rewriting: a pure function from stored bytes to answered bytes, on a clone
  of the task. Configuration: pure parsing and validation; its results are the
  assumptions above. Token generation: a drawn token is a new one.
- Of the proxy: path matching, header parsing, forwarding and transports.
- A south server whose `Serve` fails at run time: the daemon logs it and goes on.
- The contents of tasks, logs and sessions; names and labels. Two concurrent Declares
  of a session write its labels without a lock; no modelled decision reads them.
- Logging, the health endpoint, the command line, and the workflow template, whose
  jobs are the environment of the models.
