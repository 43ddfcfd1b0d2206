# Formal models of fast-spider

fast-spider connects AI clients to machines: a **Hub** (MCP, OAuth, web) relays
capability calls to **Nodes**, which run shell jobs, agent sessions (Codex, Claude
Code), a browser and file tools, and which update themselves. The modules in this
directory model the parts of it whose correctness depends on what happens
concurrently, and across crashes; TLC checks them on small instances, and TLAPS
proves the most important invariants for every instance. `PROJECT.json` maps each
definition to the lines it models, and lists the hazards that the properties
are for.

There is one module per component; the header of each says which state it keeps,
what a step stands for and what it leaves out. Components that share state are
composed (`NodeLink`, `ReleaseDrain`, `JobDiagnostics`, `CloudCompletion`). Those
that share none are instantiated together in `MCLive`, `MCHub` and `MCAgent`: a
behaviour of these runs one part, and the other parts rest.

Paths below are relative to `src/internal/`.

## 1. Inventory

"Module" names the one that models the component; `-` means that it is not modelled.

| Component | State | Operations | What is hard | Correct when | Module |
|---|---|---|---|---|---|
| Job manager `node/jobs*.go` | jobs in memory, idempotency index, reservations, semaphore, ledger `jobs/records.json`, processes | start, watch, cancel, cancel all, maintenance, recovery | racing callers of one key, crash between save and start, failed saves, retention, shutdown | a retained key has one process; terminal means stopped; slots come back | `JobManager` |
| Session with the Hub `node/run.go`, `connect.go`, `client.go` | session, request slots | dial, handshake, heartbeat, requests, replies | half-open connections, requests across sessions | requests are executed once, sessions end | `NodeLink` |
| Connection registry and handler `hub/registry`, `hub/server/node_ws.go` | connection per machine, pending calls, generations | admit, register, replace, remove, close stale, close revoked | old handlers racing with new ones, late writes and late answers | the newest session owns the machine; calls end | `NodeLink` |
| Capability calls and revocation `hub/core/service.go` | machine status | call, classify error, revoke | an answer lost with its connection; revocation during a handshake | retryable means not executed; revoked is cut off | `NodeLink` |
| Release drain `node/activity.go`, `node/capabilities.go`, `nodeui/release_notice.go`, `update.go` | drain flag, request slots, active tasks, push in progress | request check, busy reasons, begin and end drain, apply | reasons read one by one, overlapping pushes, failed updates | no restart under a task; a drain ends | `ReleaseDrain` |
| Session creation ledger `agent/session_create_store.go`, `agent/manager.go` | records by idempotency key in memory and on disk, sessions at the provider | create, delete, release, load | lost answers, crash during creation, failed saves, deletion during creation | a key has one session; an answered session is replayed; a deleted one is forgotten | `SessionCreate` |
| Codex adapter `agent/codex_adapter.go` | app-server process and generation, numbered requests, loaded threads, active turns, questions | start, request, turn, steer, interrupt, archive, delete, unload, respond, close | a process that ends or is replaced under its callers, requests that time out, notifications that overtake answers | one process; one turn of a thread; one answer for a question; nobody waits for the dead | `CodexAdapter` |
| Claude Code adapter `agent/claude_adapter.go`, `session_store.go` | index of sessions in memory and on disk, active runs | create, send, cancel, rename, delete, read output, wait, load | reservations without the lock, failed starts and saves, readers that outlive the process | one process of a session since the Node started; memory and disk agree | `ClaudeAdapter` |
| Session visibility `agent/session_visibility.go`, `manager.go` | sidecar index of hidden sessions | record, forget, list, fork, reload | the provider's session and the record change in two steps | a hidden session is never listed | `SessionVisibility` |
| Caches of lists and models `agent/cache.go` | entries with a time | get, put, drop | - | - | - |
| Artifacts `hub/core/artifacts.go`, `store/store.go`, `node/artifact.go` | uploads, part files, blobs, deletion queue | create, chunk, complete, abort, expire, sweep | crash between file and database, reuse of a blob that is queued for deletion | a complete artifact can be opened; what nothing refers to goes | `ArtifactStore` |
| Result pool `hub/core/result_pool.go`, `node/result.go` | results with revisions, pages | open, attach, commit, abort, fail, publish | late requests, lost answers, overlapping publications | a ready result has all its pages and stays ready | `ResultPool` |
| Cloud collaboration `hub/core/cloud_collaboration.go` | a document with a revision: lease, goals, tasks with generations, CHATs, decisions | dispatch, poll, continue, rotate, delete, decide, close | calls of the Node between load and save, answers of an older generation | a stalled CHAT is continued once; done has evidence | `CloudCollaboration` |
| Completion callbacks `hub/core/cloud_completion.go` | notifications, claims with leases | notify, claim, acknowledge | a batch of acknowledgements that stops in the middle, leases that run out | an acknowledged completion is recorded | `CloudCompletion` |
| OAuth server `hub/server/oauth.go`, `store/oauth.go` | clients, codes, authorizations, token pairs | register, authorize, exchange, refresh, revoke, clean up | reuse of a code or refresh token, revoke racing refresh | a token lives within its authorization; a code is redeemed once | `OAuthServer` |
| Accounts `hub/core/accounts.go`, `store/accounts.go`, `server/web.go`, `login_limiter.go` | password, web sessions, tokens, keys, failures | login, logout, change the password, create, revoke and delete tokens and keys | check and insert are two steps | quotas and the limiter hold up to what is in flight | `Accounts` |
| First owner and administrator `core/service.go`, `core/admin.go`, `store/admin.go` | owners, administrator, bootstrap token in table and file | start, set up, create users, log in | a Hub that ends within its start | the token makes the first owner only | `HubSetup` |
| Presentation relay `hub/server/presentations.go` | reservations, records, files, counters | reserve, write, commit, expire, get, clear | counters next to files that cannot be removed | disk within the quota, counters exact | `Presentations` |
| Release feed `hub/server/releases.go` | manifest cache, loads in progress | get, wait, load, evict | waiting for another's load, its cancellation, files replaced meanwhile | a manifest is of files that stood together | `ReleaseCache` |
| MCP and HTTP front end `hub/server/mcp.go`, `direct.go`, `tool_executor.go`, `web.go` | none of its own | translate requests | - | - | handlers with their component |
| Atomic edit `node/file_edit*.go` | locks of paths, temporary files | replace, create, preview | two editors, links, an external editor, a killed Node | no change is lost | `FileEdit` |
| Search, git, reads `node/code_search.go`, `git.go`, ... | the project's files | read | - | - | - |
| Node application `nodeui/app.go`, `components.go`, `config.go` | configuration in memory and on disk, runtime, installed components | configure, connect, ensure, restart | pages that restart what does not stop in time | one runtime; no restart is lost | `NodeApp` |
| Update of the Node `nodeupdate`, `nodeui/update.go` | executable, copy, previous one, staged versions, marker | check, download, stage, apply, roll back, clean up | a helper that is killed between two renames, an executable that does not start | the executable is there; the Node comes back | `NodeUpdate` |
| Browser and screenshots `node/browser*.go` | sidecar process, sessions | open, act, close | a sidecar that dies | requests end | as a reason of `ReleaseDrain` |
| Local bridge, local MCP `localbridge`, `localmcp` | connections | local capability calls | not counted by the drain | as remote calls | `ReleaseDrain` |
| Backup `opsbackup/backup.go`, `prune.go` | archives, a target directory | create, verify, restore, rotate | the Hub writes beside the copy | an archive is a snapshot; the newest ones stay | `HubBackup` |
| Prune of staging `opsbackup/staging_prune.go` | staging directories, quarantine | plan, look again, isolate, remove | a directory that changes between plan and removal | only what was planned is removed | `StagingPrune` |
| Device enrolment `store/store.go` | nonces, device tokens | issue, authenticate | - | - | - |
| Operation log, security, secret scan, routing, commands | log | - | - | - | - |

Interactions: an MCP client calls the Hub; `Service.CallCapability` looks the machine's
connection up in the registry and writes the request on the WebSocket that
`node_ws.go` serves; the Node's read loop takes a slot of `requestSem`, checks the
release drain, executes the capability (job manager, agent manager, browser, files)
and replies. Heartbeats on the same connection carry release notices to the user
interface, which drains the client and restarts the process. Local programs reach the
same handler through the local bridge. The job ledger and the session ledger are what
survives the process; the Hub's tables are one SQLite database.

## 2. Modules

| Module | Models | Role |
|---|---|---|
| `JobManager` | `node/jobs.go`, `jobs_persistence.go`, process helpers | component |
| `JobDiagnostics` | `JobManager` plus the second manager that `nodeui/diagnostics.go:159` creates | composition |
| `JobManagerProofs` | type correctness, stopped jobs, at most one process, shutdown, what callers are told, slots and retention | proofs |
| `NodeLink` | Node session, connection handler, registry, calls and revocation, over sockets that fail silently | composition |
| `NodeLinkProofs` | the current connection, revocation, the answers of calls | proofs |
| `ReleaseDrain` | requests, drain, pushed releases | composition |
| `SessionCreate` | session ledger, session.create, session.delete | component |
| `CodexAdapter`, `ClaudeAdapter`, `SessionVisibility` | the adapters of agents and the sidecar of hidden sessions | components |
| `CodexProofs` | the Codex adapter: processes, requests, turns, questions, their types | proofs |
| `FileEdit`, `NodeApp`, `NodeUpdate` | the writer of files, the application with its runtime, the swap of the executable | components |
| `NodeProofs` | the ledger of sessions, the Claude Code adapter, hidden sessions, the runtime of the application, edits of files; the types of all parts of `MCAgent` | proofs |
| `OpenArtifacts` | what the artifact store promises | abstract specification |
| `ArtifactStore` | uploads, blobs, deletions; implements `OpenArtifacts` | component |
| `UpdateProofs` | a completed artifact has its blob; the refinement; no restart while busy; the executable is there; the types of all parts of `MCLive` | proofs |
| `ResultPool` | results by pages and the Node's publication | component |
| `CloudCollaboration` | the document of a collaboration and its requests | component |
| `CloudCompletion` | `CloudCollaboration` plus notifications, claims and acknowledgements | composition |
| `OAuthServer`, `Accounts`, `HubSetup` | tokens; sessions and secrets; first owner and administrator | components |
| `Presentations`, `ReleaseCache` | the relay of files; the manifests of releases | components |
| `HubProofs` | results, tokens, manifests, backups, accounts, removals of the maintenance commands | proofs |
| `CloudProofs` | the document of a collaboration, acknowledged completions | proofs |
| `RelayProofs` | the counters of the relay and its disk; the types of all parts of `MCHub` | proofs |
| `HubBackup`, `StagingPrune` | the maintenance commands | components |
| `MCJobManager`, `MCNodeLink`, `MCReleaseDrain`, `MCSessionCreate` | instances for TLC | |
| `MCLive`, `MCHub`, `MCAgent` | instances of several parts for TLC | |

**JobManager.** One variable per field of `JobManager` and of `Job`, the ledger
(`dstate`, `dident`) and the processes of the operating system (`proc`). A caller of
`StartExecution` is a program counter: it enters, finds a job or a reservation or
reserves the key, prepares, saves "starting", starts the process, records it, and
returns; every early return and deferred release is a step. `m.mu` is free between
steps, except in the critical section that saves, starts and records, where the
variable `lock` names the holder: a crash can fall inside it. `runJob` is `TakeStop`,
`TimeOut`, `Reap`, `Finish`, `PersistFinished`, `FreeSlot`. `Crash` keeps the ledger and
the processes; `Load`, `RestoreRecord`, `Restored` are `restorePersistedJobs`.
Output buffers, shells and environments are not there. A process has no descendants: `runJob` waits
for the pipes of a command too (`streams.Wait`, `jobs.go:377`), which a descendant that escapes the
kill can hold open, so that `SlotsReturn` speaks of commands without such descendants. `Faults` says
whether saves or the load may fail.

**NodeLink.** The Node opens one session after the other. Each has a socket with two
queues, and a handler on the Hub that goes through admit, register, close the replaced
connection, touch, establish, read, remove; handlers of old sessions go on for as long
as they like. A socket may die silently: both ends then learn of it only through
heartbeats. A call checks the machine, looks the connection up, enrols, is written by a
goroutine that may outlive it, and waits for the response, the loss of the
connection or its deadline. One machine is modelled, since entries of
different machines do not touch each other. A request that finds no slot is
refused at any time, because requests that are not modelled may hold the slots.

**ReleaseDrain.** Requests (of the Hub, with a slot; of the local bridge, without)
arrive, pass or fail the check of `releaseDrain`, start a task and respond; the task may
go on. A push waits until the Node has been idle, begins the drain under `activityMu`
by reading the reasons one by one, applies the update and lets the application end, or
fails and ends the drain. The clock is a flag (`idle`): at some tick the idle
period is over. Downloading and verifying the update is the one step `Refresh`; what the
installation does is `NodeUpdate`.

**SessionCreate.** `rec` and `disk` are the records in memory and in the ledger. A
session gets its number when its creation is sent to the provider, which may create or
refuse it after the caller has given up or the Node has ended. `Release` is
`decision=confirm_not_created`; its guard says that the owner confirms only what is
true. Session visibility appears through its failures. An answer of `begin` for
`creationConfirmed` is not modelled, as nothing in the code sets it; nor is
`setAttempt`, which only tests call.

**CodexAdapter.** `codex` is the adapter's own state: the generation of its process, the
gate of a start, the number of the next request, pending requests, loaded threads, active
turns, questions. Every app-server process has an inbox (requests that were
written), threads and turns of its own, and a pipe of messages to the adapter's reader, which goes on
after the adapter has turned to the next process. The app-server is external: it answers
requests in any order, and pipes keep the order in which it wrote. A caller goes
through `ensureStarted` (wait at the gate, start, initialize), the wait for its thread to
be loaded, its own request, and what it does with the answer; a turn that completes may
start a goroutine that unloads its thread. The gate and the generation check after the
wait are steps of their own, as a process may be replaced between them.

**ClaudeAdapter.** A turn is a process: reserve the run and save "running", start the command,
read its output, wait for its end, save the result, release the run; a start that fails rolls the
record back to the copy taken before. When the Node ends, by a crash or after `Close`, the processes that
live are orphans: nothing kills them, `loadIndex` marks their sessions interrupted, and a turn of such a session
starts another process beside them. Whether an orphan still runs makes no difference to the adapter, so it has no end
in the model. The index is saved in two steps that can fail separately (the
rename, the sync of the directory), since the code treats both as a save that failed.

**SessionVisibility.** A caller creates a session at the provider, records it as hidden,
starts its first turn, and cleans up when that is refused; others list, fork, delete, or reload
the sidecar. The ledger of creations appears through its failures.

**NodeApp.** Pages edit the configuration (copy, change, save, swap, restart if what the
runtime was started with changed), connect, and ensure the component (download, publish,
configure, restart, clean up). A runtime that does not stop in time goes on stopping beside
the one that follows. **NodeUpdate.** Applications check, download and stage
a version with its marker, and hand over to a helper (`ApplyReadyUpdate` at their start,
`HandleUpdateInstall` on request), or go on when it cannot be started. The helper copies itself, waits for
the application to end, moves the executable away, puts the copy in its place and starts it; if that fails it removes
the new one, renames the previous one back and starts that: each of these is a step that may fail,
and after which the helper may be killed. An application has a number, its process id, and a helper
that ended without starting anything keeps the number of the one it was started by. **FileEdit.** The steps of one request: resolve,
lock, read, compare, write a temporary file, compare again, rename, sync. Other programs
save the file or move a link meanwhile.

**ArtifactStore.** Rows of uploads and artifacts, part files and blobs, the queue of
deletions, and who holds the locks. Handlers and the sweep take a step per transaction
or change of the file system; a crash ends them all and keeps what is on disk.
**OpenArtifacts** has two variables, the artifacts that can be opened and those whose
retention has ended, and two actions, publish and expire. `ArtifactStore!StaysOpen` is
its specification under the mapping in which an artifact is open when its row says
complete and its blob is there.

**ResultPool.** The row of a result with its revision, the calls that the Node made for it and
the requests still on their way. A call opens, attaches, commits or gives up; any request
may be executed late, or its answer lost.

**CloudCollaboration.** `doc` is the stored document. A request that calls the Node between
load and save holds a copy with its revision, and its save succeeds while the copy is
current; what has no call in between is one step. **CloudCompletion** extends it by
the rows of notifications, the claims with leases, and the acknowledgement of a claim, which goes
through the notifications of the batch one by one, on the Hub and on the Node, and may stop in the middle.

**OAuthServer, Accounts, HubSetup.** A request is a process with one step for each
transaction of the store; codes, grants, tokens and sessions are rows; a start of the Hub
is a sequence of steps that may end anywhere.

**Presentations.** Uploads reserve, write, rename and commit; records expire; files may
resist removal, which counters have to remember. **ReleaseCache.** Readers of a manifest share
one load; a publisher replaces two files one after the other; the cache evicts; a load that
nobody waits for any more is cancelled.

**HubBackup.** A backup reads the files of the data directory in order while the Hub
writes, looks again, and publishes or starts anew; verification, restore and rotation work
on archives. **StagingPrune.** Plan, look again, isolate, look again, remove, beside a
release that may write the same root. The contents of a file are the number of a write; a copy
that was caught between two writes is `Torn`, which no write makes. `Snapshots` are the
past states of the directory without the index `hub.db-shm`, which no archive holds.

**MCLive, MCHub, MCAgent.** `livePart`, `hubPart` and `agentPart` name the part a
behaviour runs. Three components with all operations at once are too large: `MCHub` looks at
the accounts and the collaborations in parts, and `MCAgent` at the Codex adapter. A part
restricts which operations meet, never what a step does; the headers of `MCHub` and
`MCAgent` list the parts, and `InPart`, `InAgentPart` define them.

## 3. Runs

| Run | Checks | Shows |
|---|---|---|
| `jobs` | `TypeOK`, `OneLiveProcessPerKey`, `AtMostOnce`, `StopsAreSound`, `RetentionBound` | retries, evictions, cancellation, shutdown and a crash in any order start no key twice, kill only for a reason, and leave nothing running after a clean shutdown |
| `jobs_faults` | `TerminalMeansStopped`, `ReportsAreTrue`, `SlotsAccounted`, `WaitersWake`, `SlotsReturn` | what holds when saves fail: reports stay true and nobody waits for ever |
| `jobs_read_fault` | violates `AtMostOnce` | finding 1 |
| `jobs_diagnostics` | violates `KilledForAReason` | finding 2 |
| `nodelink_sessions` | `ConnectionIsCurrent` | overlapping handlers leave the newest session in charge, and a revoked machine is cut off |
| `nodelink_calls` | `TypeOK`, `CallsAreSafe`, `CallsEnd` | a call is executed at most once, a retryable error means it was not, and it ends without its deadline |
| `nodelink_poison` | violates `LostIsRemoved` | finding 3 |
| `live` | `LiveTypeOK`, `NoRestartWhileBusy`, `DrainEnds`, `TargetIsThere`, `NodeComesBack`, `CompleteHasBlob`, `StaysOpen`, `OrphansReclaimed` | a remote task is never cut off and no drain stays; a Node under update comes back; a published artifact can be opened until its retention ends, and what nothing refers to goes |
| `release_drain_local` | violates `NoRestartWhileBusy` | finding 4 |
| `hub` | `HubTypeOK`, `ResultsAreFinal`, `TokensAreSound`, `AccountsAreSound`, `ContinueOnce`, `DoneHasEvidence`, `AckedIsRecorded`, `BackupIsSnapshot`, `PruningIsSafe`, `RelayIsExact`, `ManifestsAreSound` | the Hub's own state under concurrent requests, lost answers and restarts |
| `agents` | `AgentTypeOK`, `LedgerIsSound`, `CodexIsSound`, `ClaudeIsSound`, `InternalStaysHidden`, `RuntimeIsKept`, `NoChangeIsLost` | what a Node keeps under concurrent callers, processes that end, failing saves and restarts |
| `session_create_early` | violates `DeletedIsReclaimed` | finding 5 |

Some properties are conjunctions of named parts: `StopsAreSound`, `ReportsAreTrue`,
`ConnectionIsCurrent`, `CallsAreSafe`, and those of the components in `MCHub` and `MCAgent`; they
are defined in the component's module, next to their parts. Each property of a passing run has a mutant in `PROJECT.json`: a
plausible bug in a mapped definition under which TLC finds the property violated. The
conjuncts that have no mutant there were each violated by one of their own.

### Bounds

All bounds are constants, and the configurations give their values.

*Jobs*: two callers are enough for one to wait for the other,
two keys with one retained job for eviction to happen while another start is
in progress, and one restart for a crash at every step of a start and a recovery of every
intermediate ledger; the proofs remove these bounds for the properties they cover.
*NodeLink*: three sessions give a handler that is replaced, one that replaces it and is
itself replaced, and a late older generation, with a revocation at any time; a call meets an old
and a new session with two, and a revocation up to the first (`RevokeAt`). Calls do not interact except through the connection that one of
them may mark lost, which one call shows.
*Drain*: two requests for one slot make one pass the check while the other is refused or
comes late; two pushes overlap. *Update*: two helpers, one after the other, are an update
and the one after it, which finds what the first one left, and three releases keep a newer one
at hand. An application ends only after it has started a helper, so three applications are as many as two
helpers can call for: the bound never keeps one from coming up. The first application may find a release that an earlier one has staged.
*Artifacts*: two uploads of one content share a
blob, one may be complete when the other's blob is deleted; one crash or failed removal.
*Sessions*: two sessions are a first creation and the one that must not happen; one
restart falls in each step of a creation and of a deletion; with one
record and two keys the capacity limit is met.
*Codex*: two processes are the one replaced and its successor; two callers, two turns of one
thread; each process poses one question of its own, and both have the same number, so that an answer meant for the
first can meet the second.
*Claude*: two turns of one session by two users, one restart: the turn before it may leave an orphan
beside the turn after it, and a creation that takes its session back can meet a turn that another user has reserved. *Visibility*: two sessions and
one record, so that the limit of the sidecar is met. *App*: two pages with two requests, three runtimes.
*Edits*: two requests for two files and a link, and one save by another program.
*Results*: two overlapping publications of two pages, three calls in all.
*OAuth*: two requests, two codes, two authorizations, two pairs, and every lifetime one tick: enough for a code
redeemed twice at once and a refresh that races a revocation. *Setup*: three starts, of which two may end within.
*Accounts*: a quota of one and a limit of one failure, two requests. *Cloud*: one task, two generations, two
requests, two claims; `race` is two requests at once, the other parts one request beside the operation they name.
*Backup*: two files; one archive and two writes, two archives and one write, or three archives (a name that is used again); two commands. *Staging*: one candidate, one later release, two trees.
*Relay*: three uploads of two machines, quotas that two of them fill. *Releases*: two readers, two keys,
a cache of one manifest, two replacements.

What these bounds do not show: three or more tasks of a collaboration under its limit of
active CHATs, clocks beyond one lifetime, and more than one crash of the Hub while an artifact lives.

Pairs of callers, pages or requests with equal parts are symmetric (`HubSymmetry`,
`AgentSymmetry`); `MCLive`, which checks liveness, uses no symmetry and only orders the
kinds of its requests.

Deadlock is checked for the job manager. The other models stop when their sessions,
calls, uploads or starts are used up, and a Node that is idle or revoked may rest for ever;
there `CHECK_DEADLOCK FALSE` is set, and `CallsEnd`, `DrainEnds`, `NodeComesBack` and
`OrphansReclaimed` say what must not stop.

### Fairness

*JobManager*: a goroutine that wants `m.mu` again and again gets it (Go's mutex is
starvation-free), hence strong fairness for callers and runners; timers fire, a
killed process ends, and the restored manager finishes its recovery. Nothing is
assumed of commands: they end only when killed. Crashes, cancels and the calls of
clients are never required.
*NodeLink*: the goroutines of the Node and of the Hub run; a Node whose socket is dead
ends its session (missing heartbeat acks, `run.go`); the Hub's ticker closes a
connection that is stale. Neither the network nor the deadline of a call is assumed
to help.
*Drain*: the goroutine of a push runs, and the application ends once the
updater waits for it. That tasks end, or requests stop, is not assumed.
*Update*: an application that has begun to install an update goes on, and a helper that was started
runs: its waits and its repeated renames end at a deadline (`waitForProcessExit`, `deadline`), so weak fairness is enough.
Neither is required to succeed, nor are checks and pushes required to happen; `NodeComesBack` therefore excepts
a helper of the latest application that was killed or ended with an error.
*Artifacts*: a request that has begun goes on; the lock of an upload and the maintenance lock are
`sync` locks, so whoever wants one again and again gets it (strong fairness of handlers and of the sweep);
deadlines pass, and the maintenance ticker begins a sweep again and again. Crashes and failed removals are
bounded by `MaxMishaps` and never required.

### Faults

`Faults`, `AckFaults`, `ArtFaults`, `UpdateFaults`, `CodexFaults`, `ClaudeFaults`, `VFaults`,
`AppFaults`, `EditFaults`, `BackupFaults`, `StagingFaults`, `RelayFaults` and `RelFaults` name what may go wrong besides
the order of steps. The configurations turn on every fault under which the properties hold. Off are:

| Fault | Why |
|---|---|
| `SessionCreate` "sync", "index" | a failed sync of the directory makes reservations of callers at work in doubt; `OneSessionPerKey` fails once the ledger has room for two records |
| `CodexAdapter` "cancel" | two starts of a turn can be accepted when the first caller is cancelled; `OneTurnPerThread` fails |
| `NodeUpdate` "twice" | a second helper at once removes the previous executable that the first one needs (a second request to install before the application ends, or a user's start beside a helper); `TargetIsThere` fails |
| `ArtifactStore` "cancel" | the row is complete, the answer an error, and the blob is moved back; `CompleteHasBlob` fails |
| `CloudCompletion` "reclaim" | a claim that is asked for again during its acknowledgement; `AckedIsRecorded` fails |
| `HubBackup` "processes" | the lock of the backup directory exists in one process; two processes rotate at once, and one removes the archive that took the name of what the other has removed; `PruneKeepsNewest` fails |
| `FileEdit` links moved beside two requests | they take different locks for one file; `NoChangeIsLost` fails |

### Findings

1. `jobs_read_fault`: when the ledger cannot be read at start, the manager goes on with
   no jobs; maintenance then saves over the ledger, and after the next restart a
   key starts a second process.
2. `jobs_diagnostics`: opening the diagnostics page builds a second manager on the
   data directory of the live Node; its recovery kills the running jobs.
3. `nodelink_poison`: a call that gives up while its request waits to be written marks
   the shared connection lost; it stays registered, with live heartbeats, and fails
   every call.
4. `release_drain_local`: requests of the local bridge hold no slot, so the drain does
   not see one that has passed the check; the Node restarts under its task.
5. `session_create_early`: `update` overwrites the state "deleting", so deleting a
   session while it is created leaves a record that replays a deleted session.

Other behaviours were met while modelling and have no run of their own; most follow from a fault of
the table above.

- *Jobs*: with failing saves `AtMostOnce` does not hold: a start whose second save fails
  (`node/jobs.go:326`) is dropped from the ledger by the next save.
- *Link*: the Hub registers a connection before it has written `session.established`
  (`node_ws.go:88`, `:106`), so that a call can reach the Node first and end the session.
- *Artifacts*: `CompleteArtifactUpload` commits and then reads the row again
  (`store/store.go:864`-`903`); if that read fails the caller moves the blob back to the part. `CleanupResults` deletes by
  the column `id` (`store.go:1753`), which `result_records` does not have, so old results are never removed.
- *Cloud*: the acknowledgement of a batch stops at the first notification whose file or result has changed; after the
  lease the rest is claimed again only if that one is resolved (`PartialAckIsRetried`, which does not hold).
  An `event.ack` of an older generation advances the task of the newer one
  (`cloud_collaboration.go:1937`). A failed creation with a stale copy leaves a CHAT "creating".
- *Codex*: `RespondPendingRequest` finds the question again by number only when it resets it
  (`codex_adapter.go:1929`), which may be the question of the next process: that one can then be answered twice
  (`OneAnswerEach` does not hold; `AnsweredOnce` says that it takes an earlier process with a question of that number); a `turn/start` whose answer comes after
  `turn/completed` leaves an active turn nobody ends (`:1860`; `BusyHasTurn` does not hold);
  an unload that timed out leaves the thread in the set of loaded ones.
- *Claude*: a roll back restores the record as it was before the turn and with it an older name
  (`RenameIsKept` does not hold); if the save of the roll back fails too, the record says "running" without a run
  (`RunningHasRun`).
  An end of the Node leaves Claude processes alive: they are in a group of their own only, `Close` does not wait and does
  not reach a run without its command (`claude_adapter.go:711`). `markInterruptedClaudeSessions` (`session_store.go:138`)
  frees the session, and the next `session.send` starts a second process beside the first. `OneClaudeProcess`
  holds of the processes since the Node started, and of no more.
- *Update*: a helper that is killed, or whose rename fails, between the removal of the executable and the return of the
  previous one (`apply_windows.go:81`-`87`, `:98`-`99`) leaves none, and nothing puts one there later; the
  property names those helpers ("publish", "restore", "torn"). A helper that cannot copy itself, or does not see the old application
  end within its minute, ends and starts nothing: the Node stays down with its old executable in place.
- *Visibility*: between `thread/start` and its record a list shows a hidden session
  (`manager.go:1160`-`1185`; `InternalIsNeverListed`); the fork of a hidden session has no record.
- *App*: two pages that save at once lose one of the changes (`app.go:460`-`518`; `SavedIsShown`), and the clean-up of an
  ensure can remove the version that another one has just configured (`ConfiguredIsInstalled`, with two versions); a restart compares with a
  configuration that may be old (`RuntimeIsCurrent`).
- *Edits*: between the last comparison and the rename a save of another program is lost; no portable
  rename prevents it, and `NoChangeIsLost` excludes it (`late`).
- *Backups*: a killed `Create` leaves its temporary file; a killed prune of staging leaves its quarantine.
- *Relay*: when the removal of a temporary file fails, the error is ignored (`presentations.go:207`).

The properties that these notes name are defined in the modules, next to those that hold.

## 4. Proofs

Checked by TLAPS for all constants that satisfy the `ASSUME`s of the modules.

| Theorem | Assumes | Statement |
|---|---|---|
| `JobManagerProofs!TypeCorrect` | - | `Spec => []TypeOK` |
| `JobManagerProofs!TerminalIsStopped` | - | `Spec => []TerminalMeansStopped` |
| `JobManagerProofs!StartsAtMostOnce` | `Faults = {}` | `Spec => []AtMostOnce` |
| `JobManagerProofs!OneLiveProcess` | `Faults = {}` | `Spec => []OneLiveProcessPerKey` |
| `JobManagerProofs!KilledWithReason` | - | `Spec => []KilledForAReason` |
| `JobManagerProofs!StopsStaySound` | `Faults = {}` | `Spec => []StopsAreSound` |
| `JobManagerProofs!ReportsStayTrue` | `"read" \notin Faults` | `Spec => []ReportsAreTrue` |
| `NodeLinkProofs!LinkIsCurrent` | - | `Spec => []ConnectionIsCurrent` |
| `NodeLinkProofs!CallsAreAnswered` | - | `Spec => []CallsAreSafe` |
| `NodeLinkProofs!LinkTypeCorrect` | - | `Spec => []TypeOK` |
| `UpdateProofs!RestartsWhenIdle` | `Local = {}` | `Spec => []NoRestartWhileBusy` |
| `UpdateProofs!BlobIsThere` | `"cancel" \notin ArtFaults` | `ArtSpec => []CompleteHasBlob` |
| `UpdateProofs!StoreImplementsOpenArtifacts` | `"cancel" \notin ArtFaults` | `ArtSpec => StaysOpen`, the refinement |
| `UpdateProofs!ExecutableStays` | `"twice" \notin UpdateFaults` | `UpdateSpec => []TargetIsThere` |
| `JobManagerProofs!SlotsStayAccounted` | - | `Spec => []SlotsAccounted` |
| `JobManagerProofs!RetentionStaysBounded` | - | `Spec => []RetentionBound` |
| `HubProofs!BackupsAreSnapshots` | - | `BackupSpec => []BackupIsSnapshot` |
| `HubProofs!PruningStaysSafe` | `"processes" \notin BackupFaults` | `BackupSpec /\ StagingSpec => PruningIsSafe`, an action property |
| `HubProofs!AccountsStaySound` | - | `SetupSpec /\ AcctSpec => []AccountsAreSound` |
| `HubProofs!ResultsStay` | - | `ResSpec => []ReadyIsWhole /\ ResultsAreFinal`, an action property |
| `HubProofs!TokensStaySound` | - | `OAuthSpec => []TokensAreSound` |
| `HubProofs!ManifestsStaySound` | - | `ReleaseCacheSpec => []ManifestsAreSound` |
| `CloudProofs!ContinuesOnce` | - | `CompletionSpec => []ContinueOnce` |
| `CloudProofs!DoneByEvidence` | - | `CompletionSpec => []DoneHasEvidence` |
| `CloudProofs!AcksAreRecorded` | `"reclaim" \notin AckFaults` | `CompletionSpec => []AckedIsRecorded` |
| `NodeProofs!LedgerStays` | `Faults \cap {"sync", "index"} = {}`, `~EarlyDelete` | `Spec => []LedgerIsSound` |
| `NodeProofs!ClaudeStaysSound` | - | `ClaudeSpec => []ClaudeIsSound` |
| `NodeProofs!HiddenStayHidden` | - | `VisSpec => []InternalStaysHidden` |
| `NodeProofs!RuntimeStays` | - | `AppSpec => []RuntimeIsKept` |
| `CodexProofs!CodexStaysInOrder` | - | `CodexSpec => [](OneAppServer /\ NoneWaitsForTheDead /\ AnsweredOnce)` |
| `CodexProofs!CodexStaysSound` | `"cancel" \notin CodexFaults` | `CodexSpec => []CodexIsSound` |
| `NodeProofs!ChangesStay` | `"relink" \notin EditFaults`, or one request | `FileEditSpec => []NoChangeIsLost` |
| `RelayProofs!RelayStaysExact` | - | `RelaySpec => []RelayIsExact` |
| `RelayProofs!RelayStaysTyped` | - | `RelaySpec => []RelayTypeOK` |
| `RelayProofs!HubStaysTyped` | - | `HubSpec => []HubTypeOK` |
| `UpdateProofs!StoreStaysTyped` | - | `ArtSpec => []ArtTypeOK` |
| `UpdateProofs!DrainStaysTyped` | - | `Spec => []TypeOK` of the drain |
| `UpdateProofs!UpdateStaysTyped` | - | `UpdateSpec => []UpdateTypeOK` |
| `UpdateProofs!LiveStaysTyped` | - | `LiveSpec => []LiveTypeOK` |
| `NodeProofs!AgentStaysTyped` | - | `AgentSpec => []AgentTypeOK` |

`TerminalMeansStopped` is not inductive: it needs to know who holds `m.mu`
(`LockHolder`), that a job being started is in no other state (`BeingStarted`), that an
id that was not drawn has left no trace (`FreshIds`), and that a live process has a
runner, a starter or a record to be recovered (`Supervised`). Together they are
`StoppedInv`, which also gives `TypeOK`, under all faults.

`AtMostOnce` needs more, in `OnceInv`: nothing of a Node that is not up yet is in memory
(`NotYetUp`); a caller between reservation and return holds its key (`HoldsKey`); the
index and the jobs agree (`Indexed`); a key has one record in memory or in the
ledger (`OneRecordPerKey`); a process that was created and not evicted is remembered
by memory or, while the Node is down, by the ledger (`Remembered`); and what retention
evicted has stopped (`EvictedStopped`). `Remembered` is what a lost or overwritten
ledger breaks, hence the assumption `Faults = {}`; the run `jobs_read_fault` shows that
it is needed.

`NoRestartWhileBusy` needs `DrainInv`: a remote request holds its slot from arrival to
response (`SlotsHeld`); one push at a time is inside `BeginReleaseDrain` or drains
(`OneDrain`); what has been read as idle stays idle while `activityMu` is held
(`ReadHolds`), which is why requests are the first reason that is read; and under a drain
nothing runs (`Quiet`). `SlotsHeld` is false of local requests, hence `Local = {}`; the
run `release_drain_local` shows the need.

`CompleteHasBlob` needs `StoreInv`: a number that was not given out has no rows and no
handler (`FreshNumbers`); a handler at work has a row with a digest (`RowsStay`); one
handler at a time works on a blob (`OnePerBlob`, which `lockArtifactKey` gives); a
handler that is about to commit has its blob, and one that has made it is the only one that
needs it (`BlobStays`), so that it may move it back when the commit fails. With the same
invariant every step of the store is a publication, an expiry or a stutter
of `OpenArtifacts`: the refinement mapping reads only the rows, as each complete row
has its blob (`RowsDecide`). Both theorems assume that the read after the commit does not fail:
with "cancel" a blob is moved back under a complete row.

`TargetIsThere` needs `UpdateInv`: one helper at a time is at work (`OneHelper`), since `StartApply` is called by an
application that leaves then and a second one is excluded as a fault; from the first rename to the start of an executable
(`Away`) the previous one is kept, so that the way back has what it needs (`PreviousIsKept`, `RestoredIsThere`); and a step that finds
the target missing belongs to the helper that has taken it away. Whatever fails, a helper that ends without an executable has
stopped between the two halves of a swap: the state "torn". A user's start, or a second request to
install while the application ends ("twice"), gives a second helper.

The other theorems of `JobManager` add to these invariants. A process that is killed without a
reason belongs to a start that could not be recorded, and no other caller and no supervisor has
that job (`StartsAreApart`). A manager that shuts down is closed, nobody is inside a start, and
what it waits for are all of its jobs (`QuietInv`); a lost ledger would leave processes that it does
not know. `ReportsAreTrue` needs what keys and jobs were created for (`Answers`), that a job
without a process is one a crash left at "starting" (`NoProcess`), and that a reported state stays
in memory and in the ledger (`Reports`): the latter also when saves fail, since `Watch` reports a
state only after it was saved, but not when the ledger cannot be read.

`SlotsAccounted` and `RetentionBound` are proved with the lemmas of the library on cardinalities, by what a
step adds to a set or takes out of it: most steps leave the sets of slots alone (`SlotsStay`), and each of
the others moves one caller or one job. The sets are finite although `Callers` and `Keys` may be infinite: each start in
flight holds a slot, and each reservation a place, so that limits bound them. Retention needs `StoppedInv`,
that a Node which is not up has nothing in memory, and that a reservation is a caller's (`HoldsKey`).

`ConnectionIsCurrent` needs `LinkInv`: an admitted handler has a generation of its own
(`Generations`); the entry belongs to a registered handler; who was registered and is not the
machine's connection any more is being replaced by a newer one, or is lost with its socket closed
(`OthersAreReplaced`); and after `CloseMachine` whatever was established is cut off or is about to
be (`Revoked`). `CallsAreSafe` needs `CallInv`: a request is at one place, in the hands of the
writing goroutine, once in one queue of its own connection, or at the Node (`OneRequest`); and what a
caller was told, or will be told by a message under way, fits what the Node did or can still do
(`Answers`). There is no message twice, because a queue loses its content with its session.

`ResultsAreFinal` is an action property: no request runs ahead of the revision that its sender has
seen, late duplicates included (`CallsAreBehind`, `LateAreBehind`), the pages in the table are those
counted, and who was told "published" was told of a result that is over (`PublishedIsOver`).
`TokensAreSound` needs that exchanges which have taken a code have different ones, that a code of a
live authorization is gone (`CodesAreTaken`), that only the newest pair of an authorization
refreshes (`NewestRefreshes`), and that an exchange about to save is alone: with an authorization that
only it has created, or right behind the pair that it has read (`SaversAreSingle`). `ManifestsAreSound`
needs that every stamp in a request, a load or the cache stood on disk while its artifact did
(`Dated`), that waiters are counted, and that an entry in the cache has no error to give.

`BackupIsSnapshot` needs, of a backup in its first pass, that every copy is torn or no newer than the directory
(`CopyTrue`), and in its second pass that there was a moment, the one when the files were listed again, at which
the directory lay between the copies and what it is now, and agreed with the copies that have been compared since (`HashTrue`).
At the end of the second pass all copies agree with that moment. The argument rests on the order of a database
file's contents, which the code takes for granted: a file whose digest is the same before and after was not changed and
changed back. A restore copies from the archive that it has verified (`ExtractTrue`); that one may be damaged
on the disk, but not in what was verified.

`PruningIsSafe` is about steps. A rotation keeps the candidates with fewer than `KeepBackups` newer ones and removes the
others. The lemma `FewAreEnough` says that of the candidates newer than a planned one, enough are kept: among those that are not
kept, one with the fewest newer ones would have all of them kept, hence too few not to be kept itself. `RotationInv` says that the
holder of the directory's lock is the only command that changes the archives (`LockHeld`), so what it has seen, and later
what it keeps and has yet to remove, is still there and as old as it was (`Rotates`). Two processes do not share the lock, hence the
assumption. Of the staging directories the tree in the hands of the command is the planned one or what is left of it
(`StageIsPlanned`).

`AccountsAreSound` joins two components. A limit that is checked in one step and used in the next is kept together with the
requests between the two: secrets in use and requests about to add one are fewer than the limit plus all requests
(`WithinQuota`), and likewise failures and logins being verified. `SetupInv` says what follows from the step of a start:
once it has put the token into the table there is an owner or the row is this start's; once the Hub serves there is an owner, or
the file has the row's token; and a request that has yet to clear the token has added an owner (`TokenFollows`).

The document of a collaboration is read, changed in a copy and saved with a revision. `CloudInv`
says what holds of the saved document and of every copy that is still current (`DocTrue`): a task that is
done has its evidence, a CHAT that does not exist yet has no attempt, and every prompt on record was an
attempt of its CHAT first (`Tried`). Stale copies may be anything, since the revision keeps them from being
saved. For acknowledgements a batch that is being applied has recorded every completion it no longer has
to apply (`BatchTrue`); a claim that is asked for again meanwhile ("reclaim") breaks it.

`LedgerIsSound` needs `LedgerInv`: while the Node runs memory and ledger differ only in a record that memory
has in doubt (`InStep`); a record names the only session of its key that may exist (`GoodRecord`), and
without a record on disk there is none (`KeyIsSound`); a caller at work has its key to itself
(`OwnKeys`) and a record that fits its step (`CallerIsSound`); and the session of a caller is nobody else's
(`Apart`). A failed sync after the rename ("sync") or a failed roll back of the index ("index") takes the record
of a caller at work away, and a deletion during a creation (`EarlyDelete`) shares its session: the run
`session_create_early` shows the need of the latter.

`ClaudeIsSound` needs `ClaudeInv`: a turn whose process this Node started, and which runs or was not waited for, has the run of its
session, and its number is in the session's record or the record is gone (`TurnTrue`); a goroutine that is about to start a process has that run
already (`SendTrue`), and by the same number no other goroutine does (`SendsApart`). So whoever gives a run up, or rolls a
record back, touches no session of another (`RunIsOwn`). Memory and index agree on the sessions and their names after every outcome of a
save, unless the index could not be loaded (`RecordsTrue`).

`InternalStaysHidden` needs that the sidecar on disk has the record of every answered hidden session that
was not deleted (`HiddenIsRecorded`), that memory agrees with it unless its load failed (`StoreIsSidecar`), and
that the session a caller makes or cleans up after has not been answered and is made by no other
(`OneMaker`). `RuntimeIsKept` needs that
the current runtime is the live one (`CurrentIsLive`) and that whoever stopped it, or a goroutine on its
behalf, is there to start the next (`WaiterIsThere`, `SomeoneRestarts`). `NoChangeIsLost` needs that requests
at work on one file exclude each other (`Excluded`) and that what a request is about to
rename over lacks only late saves (`Planned`, `Compared`). Two requests that
reach one file by a link that is moved between lock and plan hold different locks ("relink"); one
request alone keeps the property even then.

`CodexIsSound` is proved in four layers, all over the same grouping of the adapter's actions by what they change
(`CodexStep`). `BaseInv` says what each caller holds and may do next: the lock of its thread while it asks for a turn
(`LocksTrue`), `startGate` from the start of a process to the end of initialize (`GateHeld`), and that only the current
process, or the one its starter is about to publish, may run (`ServersTrue`). This is `OneAppServer`. `RequestInv` adds that
a request is registered with the current process only and that no two callers wait for one number, so the end of a process
finds everybody who waits. `QuestionInv` says that a question is asked once by a process and that at most one caller claims it,
unless an earlier process used its number (`ClaimTrue`, for the first process that does). `TurnInv` has the hard part, what the
process does and the adapter does not know yet: at the process and in its output a thread has one request of turn/start, then
one turn, then its end (`UseInv`); if anything of this is under way, the turn is recorded or its caller still waits
(`UseIsKnown`); so who has the lock of a thread without a recorded turn may ask (`StartersFree`), and an answer is the truth: it
names a turn, or no turn began (`StartersTrue`). A cancelled caller leaves its request behind and gives the
lock back, so that `UseIsKnown` fails; hence the assumption, which the other three properties do not need.

`RelayIsExact` needs `RelayInv`. The code adds to a counter and subtracts from it; the property compares it with the size
of what it stands for, which the model writes as the number of bytes of a set of uploads (`Bytes`), so that the library's lemmas
on cardinalities say what an upload adds to a sum and takes out of it (`TotalAdded`). `CountersHold` says that `stored`, `reserved` and `uploading`
are those sums for the Hub and each machine, that stored and reserved bytes together stay within the quotas, and that a record is
of an upload that was committed; so no subtraction goes below zero and none is made twice. `FilesKnown` is what connects
counters with the disk: while the relay is ready, a file belongs to a record or to an upload under way. A record whose
file cannot be removed stays and is counted on; a directory that cannot be emptied makes the relay not ready, and
it is ready again only with an empty directory and no records; so the disk stays within the quotas although removals fail.

The type invariants hold under every fault, so the invariants above that exclude one do not give them; each
component has one of its own, and the compositions name the part that runs (`HubTypesInv`, `AgentTypesInv`) while the others
rest in their initial states. What is worth saying about them is what bounds the numbers. An upload that wrote a chunk has
room for it in its row (`ChunksFit`). An archive has the number of a backup that was begun, and its files are contents the directory
had, also after a restore (`BackupRest`). A staging directory that was never made has no files, so what is removed lay
in one that was made (`StageRest`). The publisher shows a new stamp with every replacement, so stamps are bounded by the number of
replacements (`FeedRest`, by an injection into what was shown). A session that is named has a number, a reserved one
has none (`Named`, `Numbered`), and a record of a Claude Code session counts its own turns (`ClaudeWithin`). The generation of
a thread, of a turn or of a question is that of an app-server that was started (`GensKnown`), even if the caller was cancelled or the process
has been replaced.

Some constants have assumptions for these proofs: signs such as `None` or "absent" are no key, record or
change (`SessionCreate`, `FileEdit`), requests, names of backups and sets of changes are finite, nobody is no operator (`HubBackup`), and bounds that stand for a first
runtime or version are not 0 (`NodeApp`).

Only model-checked: the liveness properties (`WaitersWake`, `SlotsReturn`, `CallsEnd`,
`DrainEnds`, `NodeComesBack`, `OrphansReclaimed`), since TLAPS has no support for fairness and `ENABLED`.
Every invariant and every other action property of a passing run is the statement of a theorem, for all
constants that satisfy the named assumptions; where a theorem excludes a fault the table says which one, and
the run has a configuration in which the fault does not occur.

## 5. Not modelled

*Agent provider routing* (`agent/routing*.go`) and *commands and packaging*: sequential
parsing and set-up without state of their own. *Translation*: MCP tools, direct calls and web pages,
file reads, search, git, secret scan; formatting, logging, the audit table and the
operation log, which is append-only. *Caches of lists and models* (`agent/cache.go`) only save
work. *Device enrolment and migrations* of the store are single transactions.
*External*: the app-server of Codex, the Claude Code command, the browser sidecar, SQLite, the file system and the
Node's queue of wake-ups appear through what the code sees of them. Time is a small clock or a flag
that says that a deadline has passed; so durations are not compared with each other, except in `OAuthServer`.
`PROJECT.json` gives the reason for each component that is modelled in part.

Some definitions abstract from a detail that a reader of the code will look for. None of the properties
speaks of it, and what they show ends there:

- `CodexAdapter!EnsureStarted`: a start of the app-server that fails (`codex_adapter.go:367`-`400`) is not there; the caller
  returns an error and the gate is open again.
- `JobManager`: the save of `RecoverUnknown` cannot fail, where the code ignores its error (`jobs_persistence.go:229`). `ReportsAreTrue`
  is about `Watch`: `Cancel` (`jobs.go:460`-`464`) and a replayed start (`:195`-`197`) also return a snapshot of a job that has ended, without asking
  for a save.
- `CloudCollaboration!Ingest`: one event for a generation, "ready" or "failed"; the code takes increasing sequences (`cloud_collaboration.go:1961`) and
  other states, and trims its log of events from 512 to 384 (`:1871`), so `DoneHasEvidence` is about the events that are
  kept. Evidence of any generation of a task counts.
- `Presentations!InitializeRoot`: a directory that cannot be made again after its removal (`presentations.go:410`-`412`), and a removal that
  fails half way.
- `StagingPrune!SameTree` compares the files of a tree; the code compares identity, size and time of the top directory and the sum of
  bytes (`staging_prune.go:245`-`255`, `:332`-`342`). An empty file further down, a change that keeps the sum, and a file written below between the
  first look (`:163`) and the scan (`:209`) go unseen in the code, and `PruningIsSafe` does not speak of them.
- `HubBackup!ListAgain`: the second listing is one instant; `collectFiles` (`backup.go:218`) walks the directory. The instance has no
  WAL file; the theorem is about any list of files.

Hazards that no property covers are listed in `PROJECT.json` with the reason: a failed sync of the session ledger, a
turn that completes before it is recorded, a late answer that resets a question of the next process, and updates
on a document of an older CHAT.

## 6. Plan

1. Larger instances: a collaboration with two tasks under its limit of active CHATs; two sessions of
   the Claude Code adapter.
2. What is left of modelled components: the event ring of session.watch, the sidecar's
   protocol of the browser, owners and byte quotas of artifacts.
