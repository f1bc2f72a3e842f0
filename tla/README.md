# BetterWright: verification project

TLA+ models of the concurrent and crash-prone parts of BetterWright, the TLC
configurations that check them on small instances, and TLAPS proofs of the
results that matter for every instance. Paths are relative to the repository
(`src/src/vault.ts` is the vault); `PROJECT.json` maps every definition of a
module to the lines it models, every property to a fault that violates it, and
every hazard to the properties that would catch it.

To check a run: `tlc -workers 2 -config VaultLock.cfg MCVaultLock`. To check a
proof: `tlapm VaultLockProofs.tla`.

## 1. The system

BetterWright gives a language model a browser. A *host* process holds a
`BetterWright` client object; the client owns one *worker* process, which owns
the browser; both talk in JSON messages over the worker's pipes. Credentials
live in a *vault* directory that several host processes may share. A *session
daemon* can hold one client on behalf of many short-lived command lines.

| Component | State it keeps | Operations | Talks to |
|---|---|---|---|
| Host client, `client.ts` | the child process, `_workerCloseBarrier`, pending calls and their timers, one promise tail per session, the exclusive gate, `_lastConfig`, pending-credential tables | run, syncCookies, live view, handoff, ask, closeSession, close, reconfigure | worker (messages), vault (calls) |
| Worker, `worker.ts` | browser context, sessions and pages, execution counts, per-session queues, the download gate, Cookie Sync flag | execute, session close, cookie sync, live-view requests, shutdown, idle reaper | client (RPC: guard, credentials), Chromium (CDP) |
| Profile lock, `profile-lock.ts` | a directory with an owner file and an mtime lease | acquire, heartbeat, release | other workers, through the file system |
| Vault, `vault.ts` | encrypted snapshot, data key, master-password envelope, the lock directory, the redaction set | generate, commit, discard, save, list, fill, unlock, lock | other host processes, through the file system |
| Pending credentials, `credential-fill.ts`, `client.ts`, `worker.ts` | recovery records of calls, the origin of each provisional entry | generate, commit, discard, recover | all three |
| Session daemon, `daemon.ts`, `daemon-client.ts` | sessions, task chains, run registry, replay rings, subscribers, orphan timers | exec, attach, interrupt, call, close_session, shutdown, reaping | clients over a socket, the browser client |
| Page parking, `page-park.ts` | desired and applied state of a page, its queue, a failure latch | park, unpark | Chromium |
| Live view, `worker-live-view.ts`, `live-view.ts` | the server, asks and handoffs in flight, chat | start, stop, ask, handoff | viewers over HTTP, the idle reaper |
| Agent loop, `agent.ts` | the transcript, steering, failure streak, completion checks, what it believes of the live view | run a task: model turns, tool calls, checks, teardown | the model, the client, people at a terminal and in the chat |
| Network guard, `guard-url.ts`, `policy.ts` | verdict cache | check a URL, flush | host policy (RPC) |

The rest (command line, page inspection, browser installation, local AI,
Electron hosts) is listed in `PROJECT.json` with the reason it is not
modelled.

What makes these parts hard, and what has to be true of them:

- **Locks on a file system.** There is no atomic "take over a stale lock". A
  contender reads, judges and renames in separate calls and may be arbitrarily
  late; processes die, are suspended, and pids are reused. Nobody may be robbed
  of a lock it holds, and a dead owner may not wedge the vault or cost a user
  the saved profile.
- **Worker generations.** A call that times out, is aborted or is told by its
  worker to restart takes a worker down while calls of other sessions share it;
  a replacement may not start, and the secrets the redactor knows may not be
  erased, before the old generation is over. Every call is answered.
- **Per-session order.** Calls of one session run in order, Cookie Sync runs
  alone, and neither may be achieved by everyone waiting on everyone.
- **One browser-wide download switch** shared by sessions whose approvals
  differ, driven by commands that take effect later.
- **Generated passwords.** A password may be stored although the answer that
  would have named it is lost to a timeout, an abort or a crash. Every failure
  must name what it may have left behind, and a redirect must not strand it.
- **A daemon that outlives its clients.** Connections break without either end
  knowing. A client that comes back gets its own run and is told what it missed;
  a run nobody watches stops; closing a session does not disturb running tasks.
- **Pages that are put to sleep.** A timer parks a session's page with two
  commands that nobody awaits and that may fail; executions and live views wake
  it, and a reaper closes whole sessions unless somebody waits for a human. A
  snippet may not run on a sleeping page, nor a viewer show one.
- **Vault files.** Key, records and envelope are separate files; a process may
  be killed between any two changes, and the machine may lose what it had not
  made durable. The records must stay readable, a reported save must stay, a
  key reported removed must stay removed, and a reported lock must revoke what
  every process had unlocked before.
- **A task with people around it.** Steering comes from two sources at any
  moment, a live view is started on the side, and the model, the page and the
  person asked may never answer. A completion may not pass over steering, the
  transcript handed back must be one that can be resumed, and the run must end.

## 2. Modules

| Module | Models | Lines up with the code |
|---|---|---|
| `VaultLease` | abstract: a lease that is taken when free and lost only by giving it back or dying | the promise of the vault lock |
| `VaultLock` | `acquireLock`, `quarantineStaleLock`, heartbeat, `verifyLockOwnership`, release | `pc` is where a process's operation is between two file-system calls; a directory is named by its maker and a number (inode, token); `seen` and `first` are the two readings of a lock, `tombs` the tombstone names in use |
| `VaultLockProofs` | proofs | |
| `ProfileLock` | `profile-lock.ts` and its heartbeat in the worker | `pc` as above; `stale` is the set of directories whose mtime is older than the lease |
| `WorkerLifecycle` | `_prepare`, spawn, `_dispatch`, timers, abort, exit and close handling, `close` | `proc[g]` is what a child process and the cleanup after it have reached, `prep` the single preparation in flight, `phase[c]` the call of a session |
| `SessionLanes` | `_enqueue`, `_enqueueExclusive` | jobs in the order of enqueueing; `waits[j]` is the promises a job was chained to |
| `SerialLanes` | abstract: jobs that may not overlap start in the order in which they were submitted | the promise of the client's queues |
| `ClientProofs` | proofs about `WorkerLifecycle` and `SessionLanes` | |
| `DownloadGate` | `setDownloadPermission`, claims and releases, the download handler, the awaits of `execute`, the context's close, shutdown | `wire` is the CDP commands not yet answered, `current` is `currentDownloadBehavior`, `switch` is Chromium's own |
| `WorkerProofs` | proofs about `ProfileLock` and `DownloadGate` | |
| `PendingCredentials` | `_serviceRpc` for generate, commit and discard, recovery records, the failing paths of `execute` and of the client | `call`, `answer` at the host, `snip` in the worker, `rpc` and `entry` at the vault |
| `PendingCredentialsProofs` | proofs | |
| `SessionDaemon` | `runExecOp`, `execOne`, `emitFrame`, `settleRun`, `attachToRun`, `ReplayBuffer`, `closeOneSession`, `execTask`, `reattach` | `run[c]` is the run that serves client `c`'s request; a connection is a pair of client and number; `open` is what the daemon believes, `phase` and `link` what the client knows |
| `SessionDaemonProofs` | proofs | |
| `PagePark` | `page-park.ts`: `parkPage`, `unparkPage`, `reconcile`, page by page | `chain[p]` is the page's promise queue, `at[p]` the command its oldest job awaits; `frozen` and `paused` are Chromium's |
| `WorkerSessions` | the worker's sessions: `execute` as far as pages go, `quietSessionPages`, park timers, the reaper, session close, and `worker-live-view.ts` (start, stop, handoff, ask) | `phase[s]` is the session's execution, `hold[s]` is `awaitingAnswerSince`, `view` the reference `liveView`, `start` and `woken` a start between its awaits |
| `WorkerSessionsProofs` | proofs | |
| `VaultStore` | `#load`, `loadKeyAndSnapshot`, `persistSnapshot`, `ownerSetupMaster`, `ownerUnlock`, `ownerLock`, auto-lock | `now` is the vault's directory, `past` the directories a power failure may restore; `pc[p]` is the next file-system step of process `p` |
| `VaultStoreProofs` | proofs | |
| `AgentLoop` | `runAgentTask` and its helpers: steering, tool dispatch, completion check, live view, `sealTranscript`, teardown | `pc` is where the loop stands between two awaits, `where[m]` where a human message is (typed at the terminal or in a viewer's chat, held by a collection, told to the model, or gone), `inbox` the chat's uncollected messages, `due` those that must reach the model before a completion, `left` those of them the last collection could not get at, `lane` the live view operations queued at the browser's host lane |
| `AgentLoopProofs` | proofs | |

`MC...` modules only give constants values. An action is what the code does
between two awaits (client, worker, daemon) or two system calls (the locks).
`VaultLock` implements `VaultLease`, and `VaultStore` runs each of its operations
under the actions of `VaultLease`: the lock enters the store only by what the
lock has been proved to promise, and is proved in turn to use the lease in no
other way (`UsesTheLease`; a power failure is a `Die` of several processes at
once). `SessionLanes` implements `SerialLanes`. `WorkerSessions` extends `PagePark` and
interleaves its steps with everything that acts on a page. The others do not
share variables: `SessionLanes` is why `WorkerLifecycle` gives
each session at most one call, and the worker generations of `WorkerLifecycle`
are the `worker` of `DownloadGate` and the `dead` of `PendingCredentials`. The
host lane whose operations `AgentLoop` queues is one of the lanes of
`SessionLanes`, and the `HostView` of `AgentLoop` is a start or a stop of
`WorkerSessions` by the run's host.

What the models leave out, deliberately: contents (files, messages, pages,
passwords), wording, logging; real time (any
reading of a vault lease may look old; a profile lock expires when nobody tends
it or, where `MayStall` says so, whenever its owner is suspended; a timer may go
off at any moment it is armed); the Windows fallbacks of the vault lock.

Things a reader might take for mistakes of a model:

- `VaultLock!Judge` lets any lock whose process is gone or has another identity
  be judged reclaimable, once it is old: the code compares the process's start
  time, not only its pid. `Identified` names the processes that can tell theirs.
- `WorkerLifecycle` uses the token of a dead child again. Nobody refers to it
  any more; the token stands for a new process.
- `SessionDaemon!Quiet` keeps the next event from overtaking microtasks: when a
  run settles, a close that waited for it deletes the session three microtasks
  later, before the chain starts the next task in the fourth.
- `SessionDaemon!SettleRun` is allowed at any time: a task ends when it wants
  to. Only for an aborted one is that fair.
- `PagePark!Unpark` may return without waiting: when another caller has
  countermanded a park, `desired` is active and the early return at
  `page-park.ts:175` is for a page whose wake-up is still queued if `applied` was
  never set. `AwakeUnderSnippet` names what follows from it.
- `WorkerSessions!ViewListens` starts a server although a stop came in between:
  the start holds a reference of its own.
- In `VaultStore` a power failure restores the directory as it was after some
  step since the last fsync, never a mixture: directory updates are assumed to
  reach the disk in order, which journalling file systems give and POSIX does
  not promise.
- `VaultStore!End` lets any operation fail at any point where it holds a loaded
  or half-loaded vault. What it had renamed stays.
- `AgentLoop!Serve` carries out operations after the run has stopped waiting for
  them, and their results still set the run's flags: the promise's `then` does
  not know that the deadline has passed.
- `VaultStore!Begin` and `VaultStore!Done` make nothing durable, although taking
  and giving back the vault's lock each fsync the directory the files are in
  (`vault.ts:1298`, `vault.ts:1176`). The promises of the store are proved
  without that help. States that only these two fsyncs would exclude, such as
  an operation that begins while an earlier rename is not yet durable, are
  states of the model and not of the program.
- `AgentLoop!Steer` may lose a message at once: a pending ask takes what is typed
  as its answer, and a full inbox gives up its oldest message for the new one.
- `AgentLoop` starts a viewer in `Mirror` only up to `MaxLane` queued operations.
  The code queues one per note.
- A note sent on a connection that the client has lost is received by nobody;
  the daemon learns of it at the close event or at the next failing write.

## 3. Runs

Between them the passing runs take every action of every module, each within a
few minutes.

| Run | Instance | What it shows |
|---|---|---|
| `vault_lock` | three processes, two sharing a pid; one may time out; one operation each; one lease renewal | `HolderKeepsLock`, `IndInv` (which contains that two processes are never inside at once); every step is a step of `VaultLease` (`LeaseSpec`); `AbandonedLockReclaimed` |
| `profile_lock` | three workers, two attempts each, stalls, refused writes, crashes | `ProfileTypeOK`; `AloneRecovers`: a lone worker gets the saved profile past whatever crashes left; `OneHeartbeat`: two owners do not both keep renewing |
| `profile_lock_owner` (violation) | three workers, no stalls, no refused writes | `OneOwner` fails, see findings |
| `worker_lifecycle` | two sessions, two process tokens, two configs | `IndInv` (types, and `OneWorker`: generations do not overlap), `RedactionOwned`, `OnlyOwnWorker`, `EveryCallSettles`, `ClosedStaysClosed` |
| `session_lanes` | two lanes and the exclusive one, five jobs in every mixture | `SerialSpec`: every step is a step of `SerialLanes`; `LanesInv`, the inductive invariant (which contains that jobs run in order); `EveryJobRuns` |
| `download_gate` | two sessions, a browser that may crash, commands that may fail | `IndInv` (types, `NoLateSave`: no file is saved after the result that should list it, and that whoever waits for the gate has one command under way), `AcceptedUnderApproval`, `EveryRunEnds` |
| `pending_credentials` | two executions, two finalizers, room for one tracked entry | `IndInv` (types, and `OriginKept`: a provisional entry keeps its origin), `TimelyEntryNamed`, `RedirectFindsEntry` |
| `session_daemon` | two clients with a task each; one loses and replaces its connection once; three notes, a ring of one; one close or death | `IndInv` (types, and `NoSilentSkip`: no note is missed without being told), `OwnAnswer`, `SettleExtends`, `UnwatchedStops`, `EveryExecAnswered` |
| `session_daemon_overlap` (violation) | three clients, no broken connections | `OneExecAtATime` fails, see findings |
| `worker_sessions` | two sessions, a human asked in one, one refused browser command | `AwakeUnderSnippet`: a snippet finds its page awake; `ViewSeesLivePages`: so does a viewer; `IndInv` (types, and `LoneWaitHolds`: the reaper spares a session that waits for a human) |
| `vault_store` | three process incarnations, two keys, two records, two envelopes; deaths and power failures at any step | `KeyOpensData`, `SavedStays`, `ClearKeyGone`, `UnlockHonoured`, and the inductive invariant |
| `agent_loop` | a task watched with a live view, and one under the checkout skill in a browser of its own; two human messages, a chat that holds one, batches of two calls, one queued view operation, streaks of two failures, two checks | `TurnsAnswered`, `SteeringHeard`, `OkIsEarned`, `OwnViewerStopped`, `EveryRunReturns`, and the inductive invariant |

**Bounds, and why they are enough.** Three processes are what the classical
lock races need: one that is late, one that reclaims, one that owns what the
late one takes. `MaxGrants` counts acquisitions per process, `MaxBeats` lease
renewals of one lock: one is enough to make a first and a second reading
differ. `MaxTries` is 2 of the code's 4 attempts in the passing run of
`ProfileLock` (one for the stale lock, one to take the free path) and 4 in the
other. In `WorkerLifecycle` a call can outlive one generation and meet the next,
with a second session on either; tokens are reused, so the number of
generations is not bounded. `MaxJobs` of `SessionLanes` allows an exclusive job
between jobs of both lanes and a second one after; `LanesInductive` and
`ImplementsSerialLanes` are proved for any number. `MaxTracked` 1 (100 in the code) makes the table of tracked entries
overflow. In `SessionDaemon` a ring of one (512 in the code) and three notes
make notes roll out between the loss and the return; `Frames` bounds the notes
that are told apart, after which a note still finds out who has gone; `Flaky`
and `MaxDrops` bound broken connections, `MaxUpsets` closes and deaths.
`Refusals` 1 in `WorkerSessions` lets any one command of any park or wake-up be
refused; two sessions give a live view one page to wake while the other's timer
fires. `MaxStamp` 2 in `VaultStore` counts envelopes: a setup that a power
failure undoes and one that stays, or a setup and a lock; a process that dies
comes back as another of the three incarnations. In `AgentLoop` two messages,
numbered as they are typed, take every pair of paths from either source, and an
`InboxLimit` of 1 (50 in the code) makes the second push the first out;
`MaxCalls` 2 is a call done and one cut, or one cut and one not reached;
`MaxLane` 1 keeps one operation of the run in flight beside the host's own;
`FailureLimit` is 2 of the code's 5, `CheckLimit` 2 of its 3. Its two ways to
start a task take every action; a task both watched and under the checkout
skill, one with limits set by the deployer, and one without viewer or check are
left to the proofs, which hold for every set of options and any of these bounds.

**Deadlock** is checked where the system can always go on (`WorkerLifecycle`,
`DownloadGate`, `WorkerSessions`, and `VaultStore`, where the power can always
fail). The other models end: a run of the agent loop returns, and every process has had its operations or
has died, or every client its answer.

**Fairness.** Each specification assumes only that started work goes on:

- `VaultLock`, `ProfileLock`: a running process takes its next file-system step.
  Nobody has to begin, to crash or to time out. Reclaiming is strongly fair,
  separately for the first and the confirming judgement: the lease of a dead
  owner only grows older, so every late enough judgement finds it aged.
- `WorkerLifecycle`: timers fire, an ended worker leaves or is killed, its
  cleanup settles within its own deadline. No worker has to answer, and nobody
  has to call, abort, reconfigure or close.
- `SessionLanes`: a job that can start starts, a running job finishes (every
  call has a timer, `EveryCallSettles`).
- `DownloadGate`: each wait of an execute has a deadline; Chromium answers or
  the transport fails. A download may never settle.
- `SessionDaemon`: chains and closes proceed, close events arrive, timers fire,
  an aborted task unwinds, a running task goes on telling what it does. Tasks
  need not end by themselves (`EveryExecAnswered` takes that as its own premise)
  and lost clients need not come back.
- `AgentLoop`: the run goes on whenever it can do a step of its own, is to be cut
  or has an operation in the host lane (each has a time-out of its own), and the
  deadline's timer fires. The model, the page and the people may never do
  anything, which is what `EveryRunReturns` is about.
- `WorkerSessions` and `VaultStore` state safety only.

## 4. Proofs

`VaultLockProofs` (for all sets of processes, any sharing of pids, any bounds)
assumes `ConstAssumption` of `VaultLock` and, as `VaultLock` does, that only
vault processes touch the lock directory.

- `TypeCorrect`: the types.
- `Inductive`: `Spec => []IndInv`. `HolderKeepsLock` is not inductive: a
  contender about to rename is harmless only because of what it read before.
  `IndInv` says so. A reading that mixes two locks started from a directory
  that has left the path for good (`SeenOK`); what the first pass found
  reclaimable is a dead process's lock or such a mixture (`FirstOK`); once the
  second pass met the same directory it is a dead process's, it is either still
  at the path or its one tombstone name is taken (`ConfirmOK`), so the late
  rename collides.
- `HolderSafe`, `Exclusive`: the two promises, from `IndInv`. `Exclusive` (two
  processes are never inside at once) is a corollary that no run checks by name.
- `ImplementsLease`: `Spec => LeaseSpec`, initial state and step by step.

`VaultStoreProofs` (for any processes, keys, records and number of envelopes)
assumes `StoreAssumption`, the promise of `VaultLease`, and ordered directory
updates (section 2).

- `Inductive`: `Spec => []IndInv`. The promises are not inductive. `Alone` says
  that only the lock's holder is in an operation, so `Knows` may say what an
  operation knows of the directory at each of its steps: which files its key
  opens, that its snapshot is what is on disk. `Stamped` orders the envelopes and
  `Entitled` ties every key in memory that could still be used to an unlock that
  nobody has revoked. Every directory in `past` satisfies what `now` does.
- `DataCanBeOpened`, `RecordsSurvive`, `ClearKeyStaysGone`, `LockRevokes`: the
  four promises, from `IndInv`.
- `UsesTheLease`: `Spec => Lease!Spec`. The store takes, loses and gives back the
  lease as `VaultLease` allows, deaths and power failures included, so what
  `ImplementsLease` proves of the lock is all the store needs. `OperationsAreAlone`:
  one operation at a time is between its load and its end.

`AgentLoopProofs` (for any number of messages, any limit of the inbox, any bounds
and options) assumes `OptionsAssumption`.

- `Inductive`: `Spec => []IndInv`, part by part. `Queues`: the calls without a
  result are the rest of the batch; with it, `Whole`: no turn is open but the one
  being carried out. `Bounded`: a check is asked for only while there is one
  left. `Earned`: a conclusion is drawn at the end of a turn, withdrawn for the
  check and returns with it. `Lanes`: no viewer operation without a surface for
  one. `Boxed`: the inbox holds each of the chat's messages once and no
  more than its limit, so what a new one pushes out is gone and nothing else is.
  With these and `Earned`, `Heeded`: what is due, not gone and not left where it
  was typed, is where the next collection looks for it. `Owned`: the run knows of
  every viewer it started, and the stop it waits for is the last of its lane.
- `TranscriptWhole`, `SteeringIsHeard`, `OkEarned`, `ViewerStopped`: the four
  safety promises, from `IndInv`. `SteeringIsHeard` covers what was typed at the
  terminal or in any viewer's chat. Its exceptions are in the property, because
  they are in the code: a message gone from the chat (pushed out, closed with
  the viewer, drained by another reader, or lost by a drain that failed on the
  way back), and one that is still where it was typed because the drain failed
  or the run had not joined that viewer.
- `LateRunsEnd`: the safety half of `EveryRunReturns`. Once the time is up or the
  caller has interrupted the run, the loop has at most two steps left for each
  call of the turn and eleven more (`StepsLeft` decreases with each), and every
  live view operation carried out shortens the lane it may still wait for.

`WorkerSessionsProofs` (for any sessions, pages and number of refused commands)
assumes `SessionAssumption`.

- `Inductive`: `Spec => []IndInv`. That a page is awake when a snippet runs is
  decided long before: `Driven` says that a page to be kept awake is awake, has
  refused a command, or has a wake-up queued behind whatever puts it to sleep.
  `Undisturbed` says that the page of an execution is not to be put to sleep and
  that a snippet runs only once its own wake-up is over, `Watched` that under a
  live view only a session the view has still to wake may have a park timer or a
  page that is to sleep; `Opened` covers sessions without a page.
- `SnippetsFindPagesAwake`, `ViewsShowLivePages`: the two promises.

`ClientProofs` (for any sessions and process tokens, any lanes and any number of
jobs) assumes `NoneIsNoChild` and `ExclusiveIsNoLane`. About the worker's
generations:

- `Inductive`: `Spec => []IndInv`. `Barred`: the barrier is that of whatever
  process is not yet cleaned up after, so there is at most one and a spawn finds
  none; this is why generations do not overlap. `Told`: the worker of a
  call whose time is up has been told to end and is not ready again, nor is a
  handshake awaited from a worker that has answered it.
- `SecretsStayRedacted`, `StopsOnlyItsOwn`: `RedactionOwned`, and from `Told`
  the action property `OnlyOwnWorker`.
- `RestIsForGood`, `NobodyWaitsInVain`: the safety halves of `ClosedStaysClosed`
  and `EveryCallSettles`. A closed browser that has cleaned up never spawns
  again. `Underway`: whoever awaits a worker's end awaits one that has been told
  to end, whoever shares a preparation has one in flight.

About the queues:

- `LanesInductive`: `LanesSpec => []LanesInv`. A job is chained to the tail of
  its lane and to the gate, not to all it must follow; `Covered` says that some
  unfinished dependency always stands for those, `TailsAndGate` that the tables
  still hold those a new job needs.
- `ImplementsSerialLanes`: `LanesSpec => SerialSpec`, step by step;
  `NoNeedlessWait` is the converse: a job that `SerialLanes` would let start has
  nothing left to wait for. Together: a job can start exactly when it is due.
- `OneJobRuns`: jobs that may not overlap do not, which is what
  `WorkerLifecycle` relies on when it names calls after their sessions.

`WorkerProofs` (for any sessions; any workers and number of attempts) assumes
`SessionsAreFinite` and `ProfileConstants`. About the download gate:

- `GateInductive`: `Spec => []IndInv`. `NoLateSave` alone says nothing about the
  order of commands and answers. `Queued`: each execute that waits for the gate
  has exactly one command on the wire and nobody else has one, so an answer is
  never taken for another's. `Claimed`: claims belong to approved runs and are at
  most as many as they. `Settled`: from the last look at the downloads in progress
  to the report of a successful run, and until the session's next, nothing of it
  is being saved.
- `NothingSavedLate`, `DownloadsNeedApproval`: the two promises, the second an
  action property.
- `RunsAreShort`: the safety half of `EveryRunEnds`. Each step of a run and each
  answer brings it nearer to its end, ten at most, and nothing sets it back.

About the saved profile:

- `ProfileTypes`: the types, with which no heartbeat timer outlives its hold.
- `OwnersNeedRemoval`: `OneOwner` fails in the run `profile_lock_owner`. The
  theorem says in which steps it can: as long as nobody takes away the directory
  made by a worker that is about to sign it or owns the profile, nothing else
  (suspensions, crashes, releases, simultaneous starts) makes two owners.
- `LoneWorkerKeepsCourse`: the safety half of `AloneRecovers`, which needs two
  attempts or more: no step leads a lone worker away from the profile.

`PendingCredentialsProofs` (for any executions, finalizers and room for entries)
assumes `PendingConstants`.

- `Inductive`: `Spec => []IndInv`. The argument is the order of one execution's
  lines on the worker's output: it asks once (`AsksOnce`), and its result comes
  after (`ResultsLast`) unless it asks when its time is up (`late`). So an open
  call has on record what it may leave (`Recoverable`), and a request that finds
  no origin on record is about an entry that is gone for good (`Finalizable`).
  The cap on tracked entries is part of the types: storing an entry never adds
  one, because `OriginKept` finds it there.
- `FailuresNameEntries`, `RedirectsFindEntries`: the two promises.

`SessionDaemonProofs` (for any clients, lost connections, notes, ring and upsets)
assumes `ConstAssumption` of `SessionDaemon`.

- `Inductive`: `Spec => []IndInv`. `Subscribed`: a first connection subscribes to
  its own run, a later one to the run its client names. `Cursors`: a client names
  its own run or none, and asks from no later than what it has heard. With
  `Abreast` (who is still sent notes has seen the last one) a note that skips
  others can reach only a client that had seen none.
- `AnswersAreOwn`, `SkipsAreTold`: from `IndInv`. The second is a corollary that
  no run checks by name.
- `SettlesExtend`: `SettleExtends`, from a second invariant, `Ordered`, which
  holds while no task that a close left behind has got to run. The unfinished
  tasks stand in one `Line`, each queued on the one before it, and only the
  registered run is running, having begun with all that is saved (`Registered`).
  So what a run settles is what it began with and more.
- `OneExecUntilClose`: the counterpart of the violation run. Executes of one
  session overlap only after a close has left a queued task behind.
- `NothingForgotten`: `Attended`, what `UnwatchedStops` and `EveryExecAnswered`
  rest on. Somebody still tends every run (`Tended`), somebody will answer every
  client that waits (`Served`), and every queued task is chained to one that has
  not ended (`Chained`).

Only model-checked is all liveness: `AbandonedLockReclaimed`, `AloneRecovers`,
`OneHeartbeat`, `EveryCallSettles`, `ClosedStaysClosed`, `EveryJobRuns`,
`EveryRunEnds`, `UnwatchedStops`, `EveryExecAnswered` and `EveryRunReturns`
(fairness and ENABLED are outside the prover). Where a safety half is proved,
the lists above name it. Every invariant and every action property of the
passing runs is stated by a theorem.

## 5. Findings

Two statements of the repository are shown not to be what the code does, each
by a run; `PROJECT.json` quotes the lines.

1. `profile-lock.ts`: a contender that saw the lock disappear renames whatever
   is at the path when it gets there, so two workers can be given the saved
   profile. `VaultLock` shows the remedy: a confirming second reading and a
   tombstone named after what was read.
2. `daemon.ts`, `closeOneSession`: it drops the chain but not the task queued on
   it; the next task then runs beside that one in the same tabs.

Behaviour met while modelling that is worth knowing. The properties of the
passing runs are stated around these, and say so.

Downloads and credentials:

- `setDownloadPermission` compares with the last *acknowledged* setting
  (`worker.ts:678`), so a claim taken while a closing command is on the wire
  leaves an approved run with the gate shut.
- A snippet whose time is up may still generate a password before its worker is
  down (`credential-fill.ts:1268`); the failure already sent does not name it.
- `closeDownloadGuard` zeroes the count of claims while executes hold claims; a
  later release can take away another's claim on the relaunched browser.

Sessions and pages:

- `reattach` asks with the run id and the note of the *first* loss. After a
  second loss notes are delivered again; a client whose task was still queued
  names no run and is given the result of whichever run is registered. This is
  why `OwnAnswer` and `NoSilentSkip` are about clients that knew their run and
  had seen a note.
- After an owner of the profile lock was suspended past its lease, two processes
  hold the profile until the first one's next heartbeat. An outsider that moves
  a vault lock away can let two operations overlap; both then fail their next
  ownership check.
- `unparkPage` returns at once when `desired` and `applied` are active
  (`page-park.ts:175`), also for a page whose park is half carried out and
  already countermanded: a snippet can start on a page that a live view is still
  waking.
- A command refused after `setPlaybackRate 0` leaves the page's animations
  stopped, with `applied` still active.
- A `live_view_start` that fails leaves `liveView` set, so nothing is parked
  until a stop. A stop during a start's wake-ups leaves a server running that
  nothing refers to.
- A handoff, an ask and a screenshot that asks share one `awaitingAnswerSince`:
  the first to end, a refused second one, or the next execution clears it for
  the others (`docs/live-view.md:233-234` promises the hold for the wait).
- `session_close` closes pages in the middle of a handoff.
- Cookie Sync may be refused as busy by an execution that has already sent its
  failure and is still flushing page events (`worker.ts:2643`).

Vault:

- A save that failed may be on disk all the same.

Agent loop:

- Cut while a viewer started by a note is still starting, the run leaves that
  viewer behind (`agent.ts:1529`; `docs/live-view.md:245-246` says the run
  closes its own). `OwnViewerStopped` is about runs with nothing outstanding.
- After `live_view stop` the next mirrored note opens the viewer again, and the
  same tool stops a viewer the host opened. If the host stopped the run's viewer
  and opened its own, the teardown stops the host's.
- Under the checkout skill an empty answer of `done` is accepted without a check
  (`agent.ts:973`).
- A chat message that arrives between the drain of the chat and that of the
  terminal is for the next collection; after the last collection nobody reads
  it.
- A viewer's chat keeps 50 uncollected messages (`live-view.ts:452`): one more
  silently loses the oldest, so a long model turn can complete over steering
  that had arrived. While an ask is pending, of this run or of another on the
  browser, whatever is typed is taken as its answer (`live-view.ts:448`).
- A drain of chat or terminal that fails is taken for an empty one
  (`agent.ts:818`, `agent.ts:828`): messages the worker had already handed over
  are lost, others wait for a next collection that may not come. The chat of a
  viewer that the host opened is not drained until the run has joined it
  (`agent.ts:812`), and whoever else drains it (a host, another run, the MCP
  server) has the messages to itself. `SteeringHeard` names these exceptions.
- `login`, `live_view` stop and status, and the drains themselves are not
  under the deadline.

## 6. Not modelled, and what is left to do

Not modelled of the modelled parts: keys supplied by the host, vault settings,
the audit log, the throttle of wrong passwords, password rotation; the reaper's
24-hour limit on a hold, pages of a session beyond its first, the vault sensor
that keeps a page from being parked (`isBusy`), the wake-up by Cookie Sync;
retries of model calls, context vision, the transcript's elision and usage
counters; the spawn and socket races between daemons, the daemon's idle reaper
and its empty exit; byte limits and quotas of downloads; the Windows branches of
both locks.

Smaller steps left out, none of which a property depends on:

- `VaultLock`: I/O failures while a lock is retired (`vault.ts:1309-1317`,
  `vault.ts:1327-1332`).
- `ProfileLock`: a worker that has released its lock and exited, whose pid is
  dead as well (`PidDead` is about crashed ones); failures to write that are not
  refusals of permission, and those of `mkdirPrivate`, which throw
  (`profile-lock.ts:202`, `profile-lock.ts:216`, `profile-lock.ts:224-227`).
- `WorkerLifecycle`: a ready line read after the worker's exit and before its
  close.
- `DownloadGate`: the check of the redaction capacity in the failing path of an
  execute (`worker.ts:2592`).
- `PendingCredentials`: a second generation by an abandoned snippet, after the
  guard against one was reset (`worker.ts:2674`); a finalization that failed
  after it was stored.
- `SessionDaemon`: a shutdown is one step; in the code an aborted run may still
  save its transcript before the process exits (`daemon.ts:944-988`).
- `WorkerSessions`: two starts of the live view that overlap
  (`worker.ts:2806`; the client's host lane keeps them apart), a browser launched
  by an execution (its await is one with the wake-up), and an execution that
  fails before its snippet runs (`worker.ts:2450-2471`).

Not modelled at all, with the reasons in `PROJECT.json`. Most of the
repository's lines are of this kind: dialogues and set-up (`cli-main.ts`), the
HTML and streaming of the live view, page inspection and form filling (scans of
a DOM a model would have to invent), recognition of challenges, catalogues of
packages and models, browser installation, adapters for hosts. They keep no
state that two actors share, or what they keep is the page's. Claiming them
would mean inventing the page; the share of the implementation that `map` covers
is therefore small and will stay so, while the parts that hold shared state
across awaits, processes and crashes are covered almost entirely.

Next, in this order:

1. `GuardCache` (`guard-url.ts`): verdicts in flight across a flush; it would
   join `WorkerSessions`.
2. Daemon start-up: several daemons and clients, one socket path; the idle
   reaper and the empty exit, in `SessionDaemon`.
3. Cookie Sync: the busy gate, commit and rollback, and its wake-up of pages.
4. Pure algorithms: `elideTranscript`, the ring of `ReplayBuffer` against a
   sequence of all notes, over bounded inputs.

Proofs, in this order: the safety half of `AbandonedLockReclaimed` (whoever
judges an abandoned lock late enough moves it); a promise for `SessionDaemon` and
one for `PagePark` small enough to be read at once, and their refinement.
