# TLA+ specification of the VYRDON station

This directory specifies the parts of the repository whose correctness depends
on more than one step at a time: who holds which row while a certificate is
issued, what a reader may be told while a revocation commits, what survives a
lost connection or a torn file, what keeps a command from being routed again,
what a room's tables hold when a transaction of a dozen statements breaks off.
The modules are written from the code; `PROJECT.json` maps every definition to
the lines it stands for.

Contents: [1 The system](#1-the-system) ·
[2 The modules](#2-the-modules) ·
[3 State, actions and abstractions](#3-state-actions-and-abstractions) ·
[4 What TLC checks](#4-what-tlc-checks) ·
[5 What is proved](#5-what-is-proved) ·
[6 Disagreements found](#6-disagreements-found) ·
[7 What is not modelled](#7-what-is-not-modelled) ·
[8 Plan](#8-plan)

## 1 The system

The station is a Fastify server (`server/`) over PostgreSQL with an event loop
of its own per process, a command plane (`command-bus/`, `bridge/`,
`dispatch/`), an AI room that is a second server (`vyrden-airoom/`), engines
and room runners (`ENGINES/`), an authority for attestation tokens
(`consolab/`), and Python servers that run commands and tools for agents
(`bin/`). What its README sells is the **certificate service**: sealed records,
chained by hash, verifiable by anybody, charged against a plan, with evidence of
every operation.

### Components

| Component | State | Operations | Hard because | Status |
|---|---|---|---|---|
| Certificate service, `server/api/seal-service.ts` | `seals`, `proofs`, `seal_events`, `seal_metadata`, `workspace_usage_periods` | issue, revoke, verify, proof page, list, PDF | several awaited statements per request; checks before the transaction; row locks; COMMIT whose answer is lost | modelled |
| Evidence ledger, `server/lib/evidence-ledger.ts` | `evidence_ledger` | append, inside the caller's transaction | its head is read without a lock; three callers | modelled |
| Room contract API, `server/api/room-contract.ts` | the rooms' tables (`commercial_*`, `market_*`, `camp_*`, `room_*`, `system_*`, …) | 30 actions of 7 rooms, the read model of a room | each action is one transaction of a dozen statements or more, reads without locks before it writes | modelled |
| Runtime mode, `server/db/mode.ts`, `health.ts` | one module-level snapshot, a timer | boot, probe, monitor | probes overlap; the snapshot is stale as soon as it is taken | modelled |
| Rate limiters, `server/lib/rate-limit.ts`, `middleware/rate-limiter.ts` | a map from key to window | check, clean up | bursts at a window's edge | modelled |
| Command bus, `command-bus/` | none of its own: calls of `submit` in flight | submit: causal hash, validate, replay guard, dispatch, record, answer | guard, dispatch and record are separate steps | modelled |
| Node bridge, `bridge/` | node registry, open handshake challenges | register, heartbeat, mark stale, resolve, handshake | heartbeats late or reordered | modelled |
| ConsoLab, `consolab/` | key pair, evidence file, node map | sign, verify, issue, heartbeat | rounds overlap; two files make one key pair | modelled |
| AI room task handling: gateway, connector, scheduler, brain | task map and queue, loads, subtasks, websocket clients | submit, process, echo, poll, assign, finish, coordinate | a handler submits to the queue that is being drained; terminal states are not guarded alike | modelled |
| Command journal, `command-bus/command.backbone.ts` | JSON tables; a promise chain per object | lookups; purge nonces, insert rejected | tables are replaced as wholes, one by one; nothing orders two objects | partly |
| Command dispatcher, `dispatch/` | none | deny, route, send to a node | a node that does not answer | partly |
| Evidence room's routes, `server/api/evidence.ts` | update `seals`, write exports | operator verify and revoke, exports, hash check | second writer of the certificate service's table | partly |
| Other operator rooms: calendar, commercial, operations, market, policy | their tables | sync, resolve, retry, stamp, gate | lists of statements without a transaction | partly |
| Server boot: `server/seed.ts`, `server/seal-api.ts` | seeded rows; a journal file with a copy in memory | seed; seal, list, prove | boots overlap and die; a torn append | partly |
| Database schema, `server/db.ts` | tables, keys, unique constraints | — | which locks a statement takes | partly |
| Plans and periods, `server/lib/entitlements.ts` | none | plan limit, bounds of the billing month | the last second of a month belongs to no period | partly |
| AI room services: event bus, tool guard, inference router, memories, agent tasks, calendar, streams, flyer bot, request log | maps and files | many | microtask delivery, shared cache expiry, files rewritten in place | partly |
| Engines, modules and shell, `ENGINES/`, `modules/` | engines' statuses, listening rooms, node stores | orders, start, stop, look, store, find | shared statuses; a look that takes several steps | partly |
| Operator scripts, `bin/*.py` | registry, token, limiter; JSON lists; containers | dispatch, adapter, calendar, voice, Linux admin | threads without locks, files edited meanwhile | partly |
| Payments, `server/api/payments.ts` | payment requests, licences | checkout, confirm | not reachable at this commit (section 7) | no |
| Command audit, decision snapshots, brain gateway | — | — | no caller, or behind a call that throws | no |
| Web front end, `web/` | none | pages over the API | — | no |

The requests of the certificate service, of the operators' rooms and of the room
contract interact through tables only: nothing in process is shared between
their handlers but the runtime mode. The command bus and the AI room interact
through calls and callbacks in one event loop, and with their earlier selves
through files. The Evidence room, the room contract and the certificate service
run in one server on one database and append to one ledger without calling each
other.

### What makes each correct

* *Certificate service* — one gapless chain per workspace; no certificate
  changes except to be revoked, once and for good; every certificate is charged
  once and has its evidence, or none of it happened; nobody is told that a
  revoked certificate is valid; a retry does not issue twice; every request is
  answered and leaves no lock behind; whoever reads the list page by page finds
  what was there.
* *Evidence ledger* — one chain of rows; rows only for work that committed.
* *Room contract* — rows in a room's tables if and only if the evidence of the
  request is on record, and once per evidence reference; a summary explained by
  the reasons behind it; decisions that committed before an action began not
  undone by it; readers told a mode, a colour and stop conditions that belong
  together.
* *Runtime mode* — settles on what the database is; no write in degraded mode.
* *Command journal* — rows are added once per command and stay, through crashes.
* *Command bus* — a command that was answered is not routed again; a nonce is
  good once in its window; a child is routed under a parent on record; every
  submission is answered, after its row is written.
* *Bridge, ConsoLab* — a node that stopped beating is found stale, a live one
  is not; a challenge is used once; tokens verify under the key that signed them.
* *AI room* — loads count the tasks that run; a finished task stays finished;
  each client is told the end of its task, once; subtasks run after what they
  depend on; events reach who subscribed; what was answered is on file.
* *Engines, operators' desk, scripts* — an answer reports what was looked at;
  a command that ran was asked for, allowed, and is on record.

## 2 The modules

```
RowLocks              row locks of the database (external), with its lemmas
  CertificateStore    tables, request state, ledger append, rollback, clock
    SealService       issue, revoke, readers, deadlock detection; the operators' routes; the chain
      SealProperties  the other promises; refinement of CertificateBook
        SealPromisesProofs  chain, types, permanence, retry, revocation, readers,
                            locks; evidence, usage, book, ledger, operators' routes
CertificateBook       what the service promises, without transactions
CertificateReads      list, proof page and file while certificates come and go
MCSealService         instances for TLC

CommandBackbone       the journal's tables, lookups and write queue; crashes
  CommandBus          submit, the guards, the dispatcher, the write jobs
    CommandPromises   types and properties; refinement of CommandJournal; invariants
      CommandBusProofs      journal and parents; replays and nonces
CommandJournal        what one bus promises of its journal, without tables and jobs
MCCommandBus          instances for TLC

RuntimeMode           snapshot, boot, probes, monitor
  RoomStore           (also RowLocks) the rooms' rules, tables and transactions
    RoomActions       POST actions: decide, run, finish, record
      RoomView        GET a room: its queries and its three looks at the mode
        RoomPlane     the composition and its promises
          RoomProofs  rows and evidence, summaries, decisions, views
MCRoomPlane           instances for TLC

MCEnds                one of: RuntimeMode, CallLimits, AgentRoom, Coordination,
                      InferenceRouter
AgentRoomProofs       (on AgentRoom) the gateway's queue and what its clients hear
MCServices            one of: TaskScheduler, EventBus, AgentMemories, CeoServices,
                      LocalSeals, ConsoLab, NodeBridge, Calendars, BootSeed,
                      StationEngines, OperatorDesk, AgentTasks, AgentRecords,
                      StationLanes, CertificateReads, AgentStreams
ServiceInvariants     (on NodeBridge, ConsoLab, OperatorDesk, StationEngines,
                      LocalSeals) an inductive invariant of each, kept by every step
ServerInvariants      (on BootSeed, CeoServices, StationLanes, CertificateReads) the
                      same for the boot seed, the conductor, the room runner, the
                      agent gateway and the certificate list
  ServicesProofs      (also ServiceInvariants, MCServices) the lane agents'
                      invariant, and the theorems
```

| Module | Models |
|---|---|
| `CallLimits` | the three fixed-window limiters, then the tool guard, which uses one and races a handler against a timer |
| `AgentRoom` | the AI room's gateway with its queue, loop and echoes, then the REST and websocket clients that submit to it |
| `Coordination` | the passes over a decomposed task (`claude-brain.ts`) |
| `InferenceRouter` | provider chain, availability cache, fallback, streams |
| `TaskScheduler` | tasks, queue, loads |
| `EventBus` | subscriptions and their microtasks |
| `AgentMemories` | the memory store's files across crashes, then injection and retrieval |
| `AgentTasks` | an agent's task: its sources one by one, a model, three files |
| `AgentRecords` | the flyer bot's files, then the request log's |
| `AgentStreams` | completions, invocations and pulls that are streamed |
| `CeoServices` | the conductor over the engine layers, then the room runner |
| `StationEngines` | the layer engines that look at the station, then the server nodes |
| `LocalSeals` | the local seal journal with torn appends and restarts |
| `ConsoLab` | the heartbeat manager, then the authority's keys and tokens |
| `NodeBridge` | registry, resolver, handshake |
| `Calendars` | the operator calendar's sync, then the AI room's calendar |
| `BootSeed` | the boot seed, statement by statement |
| `OperatorDesk` | the operators' routes over their tables, then the policy gate and the phase-2 bindings |
| `StationLanes` | the agent gateway with its adapter, then the lane agents |

## 3 State, actions and abstractions

Node yields to other requests exactly at `await`, and Python's threads anywhere
between two calls that touch a file; so an action is one awaited statement (one
query, one file operation, one answer from a node or a model) with the code that
runs from there to the next. A `pc`, `at` or `stage` names the statement that is
next. Everywhere SHA-256 is injective, ids that are drawn at random never
coincide, and texts are absent unless a property is about them.

### Certificate service

A *request* (`Creators`, `Revokers`, `Verifiers`) is a process. The handler's
locals and its uncommitted rows are in `tx`; they become visible in `seals`,
`periods` and `ledger` at COMMIT, which is READ COMMITTED isolation as the pool
is configured. A certificate and its proof are one row of `seals` named after
the request that inserts it. `locks` holds the row locks that the SQL takes
explicitly (`FOR UPDATE`), by updating, by unique keys and by foreign keys.

| Code | Action |
|---|---|
| checks before the first query (285-332) | `Refuse` |
| idempotency lookup (336-363) | `CheckIdempotency` |
| workspace and actor (365-381) | `LoadWorkspace` |
| period and limit (383-403) | `CheckUsage` |
| `BEGIN`, `FOR UPDATE` (409-412) | `LockWorkspace` |
| last certificate (414-422) | `ReadLastSeal` |
| the INSERTs (444-478) | `InsertSeal` |
| usage (480-496) | `ChargeUsage` |
| `appendEvidenceLedgerTx` | `ReadLedgerHead`, `InsertLedger` |
| `COMMIT`, answer (513-532) | `CommitCreate`, `CommitRevoke` |
| `catch`: ROLLBACK, rethrow (533-538) | `Fault`, `Rollback` |
| revoke: lock and early returns (589-618) | `LockSeal` |
| revoke: UPDATEs, INSERTs (620-633) | `MarkRevoked` |
| verify and proof page (666-848) | `FindSeal`, `FindProof`, `FindPage`, `CheckProof` |
| `deadlock_timeout` of PostgreSQL | `CancelDeadlocked` |
| wall clock | `Tick` |
| operator routes (evidence.ts 844-868) | `OperatorVerify`, `OperatorRevoke` |

Statements that follow each other inside one transaction and touch only rows
that nobody else can see yet, or rows already locked, are one action: the four
INSERTs of an issue, and the two UPDATEs and two INSERTs of a revocation.
Their locks are taken together, where the database takes them one after the
other; the only pair among them that another transaction can hold is covered
by `CreateInsertWants` and `RevokeMarkWants`.

Titles, subjects, slugs and URLs are absent; the body of a payload is the
identity of the request; `now()` is a month and whether its last second has
come; a COMMIT may answer with an error after it took effect (`Committed`), and
a connection that is lost before it did not. `late` is the one history variable:
it records that what the request has to honour (its key's certificate, or a
revocation) was already committed when the request arrived. It is read by
properties only.

`CertificateReads` has the reading side in a module of its own: an issue begins,
waits and commits at different moments (`created_at` is the first of them), and
moments are finer than the milliseconds in which the cursor is answered.

### Command bus

A *submission* is one call of `CommandBus.submit`. Calls overlap at every
`await`. `env` is the call's `CommandEnvelope` with its bus and its route;
`queue` holds the jobs that `withWrite` has chained on the promise of a
`CommandBackbone`, the first one running; `image` is the state that job is
saving and `unsaved` the tables it has yet to rename.

| Code | Action |
|---|---|
| `toEnvelope`, causal hash of a root, validation (command.bus.ts 49-72, 203-231) | `Submit` |
| parent lookup, hash of a child (265-281) | `NormalizeCausalHash` |
| `findNonce`, time window (replay.guard.ts 23-39) | `CheckNonce` |
| key lookup (idempotency.guard.ts 16-25) | `CheckKey` |
| fingerprint lookup (27-38); root hash | `CheckFingerprint` |
| parent lookup, chain (replay.guard.ts 68-85) | `CheckParent` |
| a verdict: `rejectWithEvidence` in the try block | `Deny` |
| an exception: `rejectWithEvidence` in the catch block | `Throw` |
| dispatch (command.dispatcher.ts, hyper-bridge.dispatcher.ts) | `Dispatch`, `BridgeAnswers`, `BridgeTimesOut` |
| `withWrite`: load and change, one rename, settle (command.backbone.ts 189-241) | `Load`, `Save`, `FinishWrite` |
| the process ends | `Crash` |

The constructor of `CommandBus` does not assign `evidenceLayer` (line 45 is a
comment), so `writeDecision` throws wherever it is called. This is modelled as
it runs: a denied command is inserted, throws, and is inserted again by the
catch block; a routed command throws before `insertAccepted`; nothing is ever
accepted. `insertAccepted`, `insertEvidence` and the brain gateway are
unreachable, and `command_locks.json` and `evidence.json` stay empty; they are
not in the model.

Generated ids and nonces are the submission itself; a causal hash is the pair it
digests and a fingerprint the triple (`actor` stands for source and intent);
what validation, the policies and the bridge resolver decide is a field of the
command (`valid`, `route`), since they are functions of the command alone; the
clock counts units of which the replay window is `Window`. `Load` reads the
tables at one instant although the code reads them one after the other: with one
bus nobody replaces them meanwhile, and with two the only run is one whose
violation these behaviours suffice for. A `Crash` ends a bus with its queue;
renames that took effect stay. `before` and `checked` are history variables.

### Room contract

A *client* has one request, an action or a view. The rooms' tables are one
function `db` from keys (`<<"summary", room>>`, `<<"isolation", service>>`,
`<<"event", request, type>>`, …) to rows that tell who wrote them (`by`), at
which transaction's start (`t`), and what (`v`). `tx` is the open transaction:
what it wrote, what its mutation has still to run (`todo`, a list of
statements), what it read.

| Code | Action |
|---|---|
| guards of the POST route (3560-3700), the mode among them | `ReceiveAction` |
| `BEGIN` | `Begin`, `ConnectFails` |
| a mutation's first queries, and what it will write | `DecideMutation` (one operator per action: `SyncBilling`, `IssueCertificate`, …) |
| one INSERT, UPSERT, UPDATE or DELETE, with its row lock | `RunStatement` |
| the SELECT of a DELETE or UPDATE without a key | `SelectRows` |
| last queries; the room's colour | `Finish` |
| change events, summary, reason, event (3726-3800) | the statements of `record`, `EndStatements` |
| evidence row, unique by its reference | `InsertEvidence` |
| `COMMIT`, ROLLBACK | `Commit`, `Fault`, `CancelDeadlocked` |
| GET a room: data, summary, reasons, stand-in, boundary, isolation | `LoadData`, …, `LoadIsolation` |

A statement that reads without a lock and writes later is two steps
(`upsertIsolationStateTx`); a DELETE selects what is committed when it starts
and removes it when it gets the locks. A *cast* fixes the requests that come
together, the rows they find and whether the database is stable while they run:
the mode is that of `RuntimeMode`, composed with the rooms in `RoomPlane`.
Counts that come from tables of other rooms are any. The evidence row is kept
by reference and actor; its hash chain is in `CertificateStore`.

### Runtime mode, limits, AI room (`MCEnds`)

* `RuntimeMode`: the database is down, bare or ready and changes; a probe asks
  its three questions one by one (`AskDatabase`) and overwrites the snapshot when
  it ends (`DeliverHealth`); the monitor starts one whether or not another is
  live (`MonitorFires`).
* `CallLimits`: a check is one turn; time passes between turns. The tool guard
  runs a handler against a timer: `HandlerSettles` and `TimerFires` in any order.
* `AgentRoom`: `SubmitTask` puts a task in the queue; one loop takes it
  (`TellAgent`), whose handler submits an echo, which has no name of its own, and
  waits for the inference (`InferenceEnds`). Clients connect, submit, poll for a
  minute (`PollEnds`) and leave.
* `Coordination`: passes over subtasks with dependencies, any plan of three.
* `InferenceRouter`: providers become available or not (`Flip`); what was asked
  once is believed for a while.

### The other services (`MCServices`)

Each module says in its header what its variables are and where its actions cut
the code. What they abstract:

* `AgentMemories`: a prompt is kept only for the step in which it is sent; prompt
  templates are left out; relevance is the number of shared words, without the
  floor of 0.15; 4000 characters are a number of entries.
* `AgentTasks`: the files are per agent, so one agent; data that was read is
  forgotten once the task is answered.
* `StationLanes`: the gateway has one command; every edit gives its file a new
  modification time; callers from elsewhere are callers that are not allowed; of
  the limiter only the age of requests matters. A request asks for its time
  (`UseToken`) in a step of its own before the one in which it holds the lock
  (`AllowRequest`), so that threads enter a bucket with older times than those
  before them. The adapter's tools for health and service control are left out.
  The Linux admin's `docker inspect` may fail of anything; the container is then
  reported as not found.
* `ConsoLab`: a signature is the key that made it.
* `AgentStreams`: a line of the network arrives in at most two parts; the
  router's stream is seen from outside (texts, then a done mark, an end without
  one, or an error).
* `Calendars`: the AI room's calendar counts hours, in zones 0 and 1 hour ahead.
* `OperatorDesk`: of a summary only its counts are kept; a lookup of the phase-2
  slice shares nothing with another.
* `StationEngines`: a thing that is looked at is an item with a small domain; any
  look may find "unreadable" instead (a file, a `statfs`, a `pgrep` that fails or
  takes more than its two seconds), and each verdict does with it what its engine
  does: offline, 0, nothing in the pipeline, no receipts, not sealed.
* `BootSeed`: rows are told apart by who wrote them; operators' transactions are
  single steps.

## 4 What TLC checks

Twelve runs, eight that pass and four that a document of the repository makes a
finding (section 6). The services that share nothing are checked in one run each
(`MCEnds` for those that owe somebody an end, `MCServices` for the others): a
behaviour runs one of them and leaves the rest as they start, so that a run's
states are the sum and not the product of theirs.

| Run | Instance | Properties | States |
|---|---|---|---|
| `MCSealChain` | 1 workspace, 3 issues, 1 revocation, 1 reader, plan of 2, 2 months | `TypeOK`, `ChainIntact`, `EvidenceMatchesSeals`, `RevocationHonoured`, `ReadersAgree`, `UsageConserved`, `SealedIsPermanent` | 500 k |
| `MCSealBook` | 2 workspaces, 2 issues, 1 revocation, 1 key | `LocksReleased`, `RetryIssuesNothing`, `LedgerLinear`, `KeepsBook` | 592 k |
| `MCSealRoom` | 1 workspace, 2 issues, 1 revocation, operators, fairness | `RoomKeepsBody`, `EveryRequestAnswered` | 176 k |
| `MCBusGuard` | 1 bus, 3 submissions: a command, retries with its nonce or key or both, a conflict; clock 0-1, 1 crash | `NoncesKept`, `AnsweredReplayBlocked` | 2.98 M |
| `MCBusJournal` | 1 bus, 2 submissions: parents, children with right and wrong hashes, invalid, denied; clock 0-1, 1 crash, fairness | `RoutedOnParent`, `KeepsJournal`, `EverySubmissionAnswered` | 145 k |
| `MCRooms` | 17 pairs of actions that share rows, 8 refused or lonely requests, 3 readers next to a writer, 6 requests over an unstable database with 2 probes | `RowsOnRecord`, `SummariesExplained`, `DecisionsKept`, `ViewsHonest`, `RequestsAnswered` | 188 k |
| `MCEnds` | 2 probes and 3 changes of the database; 3 keys; 3 guarded calls; 3 tasks and a websocket client; every plan of 3 subtasks; 2 prompts | `RoomKept`, `ModeKept`, `LimitsKept`, `SubmissionsEnd`, `CoordinationKept`, `RoutesKept` | 230 k |
| `MCServices` | 24 services, below | `CeoKept`, `LocalChainKept`, `NodesKept`, `SeedSound`, `StationTruthful`, `DeskKept`, `PhaseHonest`, `SchedulerKept`, `DeliveriesKept`, `FilesKept`, `CalendarsKept` | 1.70 M |

The largest services of `MCServices` are the server nodes (261 thousand states), the
layer engines (248), the policy gate (192), the boot seed (190), the desk (155), the
agent gateway (129), the certificate reads (91), the agents' tasks (89), the memories
(53) and the authority (34).

### What the properties say

*Certificate service.* `ChainIntact` and `SealedIsPermanent` are in
`SealService`, the others in `SealProperties`. `KeepsBook` is
the refinement: under the mapping of `Book`, every step of `SealService` is an
`Issue` or a `Revoke` of `CertificateBook` or a stutter. It is the statement
that five tables change as one although the program writes them in about ten
statements, some of them computed from what it read before it locked anything.
`LedgerLinear` says what the row lock of a workspace does for the ledger, whose
head `appendEvidenceLedgerTx` reads without a lock of its own: two rows that follow
the same row are of different workspaces, or both are revocations. An issue locks
its workspace's row, a revocation share-locks it before it reads the head, and so
an issue never forks the ledger within its workspace. That the whole ledger is one
chain (`LedgerIsChain`) is false: `MCFindLedgerFork`.

*Command bus.* `AnsweredReplayBlocked` is what is left of replay protection when
every command is on record as rejected: the row of an answered submission blocks
the next, through crashes and whatever other commands do, provided that command
ids are not shared (`OwnId`) and that there is one bus. Without the second it is
false (`MCFindTwoBuses`); what happens without the first is in section 6.
`NoncesKept` says that no command is routed under the nonce of an answered one
until a window in which that nonce was submitted has closed (`OwnNonce`: the
nonce was not already taken by somebody else). It excludes crashes: after one
between the renames of a command's two tables, its row is on record and its nonce
is not, a retry is refused by its fingerprint without recording the nonce
(`insertRejected` returns early), and another command may use it. `KeepsJournal`
is the refinement: every step is a `Record` or an `Answer` of `CommandJournal` or
a stutter, although a job replaces the whole table by an image it computed
several awaits earlier.

*Rooms.* `RowsOnRecord`: a request has rows in the rooms' tables if and only if
the ledger has its row, and of all requests under one evidence reference at most
one is applied. `SummariesExplained`: a room that is not green has a reason with
the code and the reference of its summary, and the newest reason, which GET shows
first, is that of the summary unless the two were written by overlapping
transactions. `DecisionsKept`: licences are those of one refresh, a canary's
result stays, an audited payload stores what the audit shows — each unless an
overlapping action undid it. `ViewsHonest`: no answer forbids reading, nothing
made up is green, and none that reports primary mode calls itself synthesized.

*The services that owe an end.* `ModeKept`: once the database stops changing, the
mode agrees with it for good, whatever order the probes end in, and an answer
that was asked for after the last change is right. `LimitsKept`: at most twice the limit passes in a window's
length and only a full window refuses; a guarded call gets one answer, which is
the one logged. `RoomKept` and `SubmissionsEnd`: the queue stays in its bands, a
client hears of its task in order, once and rightly, and every task ends although
its echoes never do. `CoordinationKept`: a subtask runs once, after what it
depends on unless that can never run, and the coordination ends. `RoutesKept`: an
answer comes from the first provider of the chain that neither failed nor was
passed over, and every prompt ends.

*The other services.* `SchedulerKept`: loads count the tasks that run (while
nobody finishes one twice), the queue holds the unfinished tasks by priority and
keeps equals in order. `DeliveriesKept`: an event reaches exactly those who were
subscribed when it was emitted and are so when it is delivered, in order; flyers
leave once, within the limits, to nobody who stopped them; every request leaves
its records; a stream tells an end from a failure. `FilesKept`: what is not dirty
is on disk and a restart brings back the last save; agents' memories stay apart;
the three files of an agent tell the same, through crashes between them.
`LocalChainKept`: every seal continues an earlier one, answered seals survive
restarts, lists and bills agree with the store. `NodesKept`: a node that is picked
spoke within the threshold and can do what is required, a challenge is met once,
health is explained by beats and words. `SeedSound`: the chain of events grows,
operators' rows stay, nothing is seeded twice where boots do not race, a boot that
ends has seeded everything. `StationTruthful`: an engine's verdict follows from
what was true at some moment while the request looked, or from a look that failed,
and says which failed looks it can hide: a load or a pipeline that could not be read
leaves it green, a process, a seal or receipts that could not be looked at never do;
the gate passes nothing on a failed look. `PhaseHonest`: the policy gate's and the
lookups' verdicts were true at some moment, and a failed fetch never counts as good.
`DeskKept`: receipts, stamps and lists are true of
a moment of their request; incidents are kept. `CalendarsKept`: one synced event
for each invoice and contract, closed ones stay closed, offered slots are free,
lists agree. `CeoKept`: what the conductor, the room runner, the server nodes, the
agent gateway, the lane agents, the authority's tokens and the certificate list
answer is so. Of the gateway's limiter that is: no more than the limit of those get
through whose time and whose turn at the lock both lie in one window (`WindowHeld`).
A window of either alone may hold more: of turns at the lock already on this instance,
of times with a limit of two and four connections. Of the Linux admin: a state other than not found was the container's (`AdminTruthful`).

Every property has at least one mutant in `PROJECT.json`: a plausible mistake in
the code (a lock not taken, a guard dropped, two statements swapped) under which
TLC finds it violated.

### Bounds and why they are enough

*Certificate service.* `MaxMonth` bounds the months that go by. Requests are
finite sets and each is served once; a client that sends again is another
request. A fork or a collision needs two issues; a deadlock needs an issue whose
predecessor is being revoked, so an earlier issue, a later one and a revocation;
a lost charge needs a period in use and two issues that overlap, so three issues,
and charging across a month's end two months; a key that is looked up in the
wrong workspace needs two. `MCSealChain` looks at either three issues or at two
with a revocation and a reader in one month (`Scenarios`). Requests or references
are symmetric where no property names one, never in a run with liveness.

*Command bus.* Overlapping calls and a later retry are three submissions, and so
are a call that a crash cuts short, its retry and a replay. The clock visits a
nonce's window inside and at its end, where a nonce is purged (`expires_at >
now`) and a command is still in time (`now - issued_at` not greater than the
window); one instant later every such command is refused for its age. A job must
be able to crash with another one queued behind it, and a child to be submitted
before its parent is on record, which two submissions do.

*Rooms.* Two requests at a time, one pair for every two actions that share a row
or a summary, with the rows they find; two probes overlap; `MaxChanges` bounds the
database's changes. What a third request would add is proved for `RowsOnRecord`
(section 5).

*Services.* `BootsTogether`: two boots overlap only while they are in the same
function of `seedBootData`, the functions sharing no table, and race at one
subject of a behaviour. Two connections of the agent gateway are in hand at once,
those of its adapter, which are alike, in the order of their numbers (`AtMostTwo`); a
second passes only where its files are not edited (`EditOrSecond`). The desk moves
only what a route in hand reads and has two jobs, alike, one of which has succeeded at
the start; one lookup of the policy gate is in hand at a time, the server nodes have requests of one family
with at most one reader, the agent gateway's edits are to one file in a
behaviour, the authority is two processes, the certificate list three
certificates at three moments in two milliseconds with pages of one and two, the
AI room's calendar one event of every length to four hours (and one that ends
before it starts) with a second at one place.

The models of the certificate service and of the bus stop when every request is
answered (`Finished`), so deadlock is checked there: a state in which requests
wait for each other and the database does not cancel one is an error. The runs
that alternate services, and the rooms' (whose database may stay down), do not check
it: each service may stop.

### Fairness

* *Certificate service*: weak fairness of each request's `Progress`. The event
  loop runs the continuation of every query that has answered, and the database
  answers every query that no lock holds up. It is not asked that a client sends
  a request, that a query fails, or that time passes. Weak fairness is enough
  although a request can be overtaken in a lock queue: requests are finite in
  number, and every holder either commits, fails or is in a deadlock. The
  cancellation of a deadlocked statement is part of `Progress` because PostgreSQL
  looks for the cycle after `deadlock_timeout` without being asked; without it
  (a mutant) the requests wait for ever.
* *Command bus*: of every read, every job, and the 15-second timer of a dispatch.
  Nothing is asked of submitters, nodes, crashes or time.
* *Rooms* (`PlaneFairness`): of the boot, and of some request's step; nothing is
  assumed of which one goes on, since a request that waits for another's lock may
  wait as long as that one runs. The monitor need not run.
* *Mode* (`ModeFairness`): questions are answered or fail, and the timer fires
  again and again. *Tool guard*: timers fire; a handler need never settle.
  *AI room*: a provider answers or fails and the loop goes on, polls end.
  *Coordination*: a subtask ends. *Router*: a question to a provider has a time
  limit and a call ends when the provider ends it.

## 5 What is proved

`tlapm` proves these for every value of the constants. Nothing is assumed about
the number of workspaces, requests, keys, submissions, commands or clients; those
of the certificate service need not be finite.

| Theorem | States | Module |
|---|---|---|
| `ChainTheorem` | `Spec => []ChainIntact` | `SealPromisesProofs` |
| `NoCollisionTheorem` | `Spec => []NoSequenceCollision` | `SealPromisesProofs` |
| `TypeTheorem` | `Spec => []TypeOK` | `SealPromisesProofs` |
| `PermanenceTheorem` | `Spec => SealedIsPermanent` | `SealPromisesProofs` |
| `RetryTheorem` | `Spec => []RetryIssuesNothing` | `SealPromisesProofs` |
| `RevocationTheorem` | `Spec => []RevocationHonoured` | `SealPromisesProofs` |
| `ReadersTheorem` | `Spec => []ReadersAgree` | `SealPromisesProofs` |
| `LocksTheorem` | `Spec => []LocksReleased` | `SealPromisesProofs` |
| `EvidenceTheorem` | `Spec => []EvidenceMatchesSeals` | `SealPromisesProofs` |
| `UsageTheorem` | `Spec => []UsageConserved` | `SealPromisesProofs` |
| `BookTheorem` | `Spec => KeepsBook` (the refinement of `CertificateBook`) | `SealPromisesProofs` |
| `LinearTheorem` | `Spec => []LedgerLinear` | `SealPromisesProofs` |
| `RoomTheorem` | `RoomSpec => RoomKeepsBody` | `SealPromisesProofs` |
| `RoomChainTheorem` | `RoomSpec => []ChainIntact` | `SealPromisesProofs` |
| `JournalTheorem` | `OneBus => (Spec => KeepsJournal)` | `CommandBusProofs` |
| `ParentTheorem` | `OneBus => (Spec => []RoutedOnParent)` | `CommandBusProofs` |
| `ReplayTheorem` | `OneBus => (Spec => []AnsweredReplayBlocked)` | `CommandBusProofs` |
| `NoncesTheorem` | `OneBus /\ NoneIsNoRecord => (Spec => []NoncesKept)` | `CommandBusProofs` |
| `RoomsTheorem` | `PlaneSpec => []RowsOnRecord` | `RoomProofs` |
| `SummariesTheorem` | `PlaneSpec => []SummariesExplained` | `RoomProofs` |
| `DecisionsTheorem` | `PlaneSpec => []DecisionsKept` | `RoomProofs` |
| `ViewsTheorem` | `PlaneSpec => []ViewsHonest` | `RoomProofs` |
| `AgentRoomTheorem` | `AgentRoomSpec => []RoomKept` | `AgentRoomProofs` |
| `NodesTheorem` | `ServicesSpec => []NodesKept` | `ServicesProofs` |
| `PhaseTheorem` | `ServicesSpec => []PhaseHonest` | `ServicesProofs` |
| `DeskTheorem` | `ServicesSpec => []DeskKept` | `ServicesProofs` |
| `StationTheorem` | `ServicesSpec => []StationTruthful` | `ServicesProofs` |
| `LocalTheorem` | `ServicesSpec => []LocalChainKept` | `ServicesProofs` |
| `SeedTheorem` | `ServicesSpec => []SeedSound` | `ServicesProofs` |
| `CeoTheorem` | `ServicesSpec => []CeoKept` | `ServicesProofs` |

*Assumptions.* `StoreAssumption`: the kinds of requests are disjoint, `None` is
none of the other constants, limits are natural numbers, there is at least one
month. `NullAssumption`: `None` is not a record of a billing period (SQL's NULL is no
row). `CommandBusAssumption`: the window and the bounds are natural numbers, the
submissions are finite in number, a time that a command brings is a number.
`RuntimeModeAssumption`: the bound is a natural number. `RoomAssumption`: the
clients are finite in number and none is called "seed"; lists in their requests and
labels in the environment are sequences, those of a billing source not empty (a
trimmed text that is empty counts as none, room-contract.ts:261-275); an accepted
action has an evidence reference (room-contract.ts:2315-2326 makes one up where
none was sent); the rows they find were seeded at time 0, summaries not green and
with their reason (seed.ts:288-330), and none under the key of a request that is
still to come. `AgentGatewayAssumption`: the mark for an idle loop is no queued
item. `NodeBridgeAssumption` and the bounds of the other services: natural numbers.
`DeskAssumption`: the jobs of one customer and period are finite in number.
`StationAssumption`: the processes listed are finite in number, and a hash, a
process and a file are different things to look at. `LocalSealsAssumption`: a list
has at least one row and its default is not above its maximum (seal-api.ts:310),
and a torn line is not the chain of a request. `BootSeedAssumption`: the processes
that boot are finite in number and none is called like an operator, the lists of
rooms and licences are not empty (seed.ts:105,212), and a release is not
the operators' mark. `RoomRunnerAssumption`: the rooms are a list that is not empty
(CEO_ROOMS, ceo/index.ts). `AuthorityAssumption`: no process is called like the mark
of a missing or an empty key. `CertificateReadsAssumption`: the certificates are
finite in number, as the rows of a table are, and a page has at least one.
`GatewayAssumption`: who calls the gateway directly asks for one of its three paths,
and no edit of a file holds the mark for a command that did not run. TLC evaluates these on
every run of their modules. Two hypotheses are in the theorems themselves:
`OneBus`, no two members of `Buses` differ, which is what the code relies on and
does not enforce (`MCFindTwoBuses` is what happens without it); and
`NoneIsNoRecord`, the constant `None` is not a function.

*The chain.* `ChainIntact` is not inductive: the row that `CommitCreate` adds
was computed from what `ReadLastSeal` read several statements earlier.
`IInv` adds what connects the two moments. `Holding`: from `FOR UPDATE` to
COMMIT the request's lock on its workspace is in `locks`. `Exclusive`: no two
transactions have one row locked `FOR UPDATE`, so no other request is in that
stretch for the same workspace. `Linked`: therefore what was read of the last
certificate is still true of the last one. `HasLast` says that a nonempty chain
has a last certificate, which `CHOOSE` in `LastSeal` relies on (sets of requests
may be infinite), and `LocalCreate` that a request's certificate does not exist
before it commits. `Fresh` keeps a request's chain fields unset until they are
read, which the first certificate of a workspace needs. The lemmas go by action:
what an action leaves alone carries `IInv` over (`Local` is stated per request
so that a step of another request is one lemma), and the three actions that
matter, `LockWorkspace`, `ReadLastSeal` and `CommitCreate`, have proofs of their
own. What the locks of the database guarantee is proved once, in `RowLocks`, for
the certificate service and the rooms.

*The promises.* `PInv` adds to `IInv` that a certificate is public exactly until
it is revoked and digests its payload (`RowsSound`), that only transactions in
progress own locks (`LockOwners`), that a retry of an issued key is at or before
the idempotency check (`RetryHeld`), and that what a reader knows is still true,
because `SealedIsPermanent` (`ReaderSound`). The four invariants follow. `TInv`
adds to `PInv` and `TypeOK` the types of the locals that a COMMIT writes.

*The evidence.* `EvidenceMatchesSeals` says that an issue has exactly one row and
a revoked certificate exactly one more. `EInv` says it without counting
(`EventsMatch`: a row exists if and only if the event happened, and no two rows
are of one event), and adds why no revocation is recorded twice (`Guarding`): a
revoking request keeps its certificate's row locked from the moment it saw it
unrevoked to its COMMIT, so that no other one revokes between.

*The usage and the book.* `UsageConserved` compares two sums, and what a fold
computes for every set is induction over data. So the charges are a set
(`ChargesTo`: one element for each unit of a period's counter), and `Counted` says
of each workspace that its certificates are finite in number, as many as its
charges, and numbered from 1 to their number. Only a COMMIT that issues changes
either side, and adds one to both (`ChargesStep`); that its counter row is there and is
raised by exactly one is in `TInv`, that its number is the next one in `IInv`.
`BookTheorem` is the refinement by cases: `CommitCreate` is an `Issue` of the book
(`Linked` and `Counted` give the sequence number and the predecessor that the book
computes from its own table), `CommitRevoke` is a `Revoke`, by `Guarding` of a
certificate that is still valid, every other step is a stutter.

*The ledger.* A writer reads the head and inserts its row two statements later, and
rows of other workspaces are committed in between, with higher or lower numbers than
its own. `LInv` says what it can still rely on. An issue has its workspace's row
locked `FOR UPDATE`, a revocation has share-locked it (`Sharing`) before it reads the
head, and no one shares a row that is locked `FOR UPDATE` (`Alone`): while a writer is
between the head and its COMMIT, no row of its workspace is committed unless both are
revocations (`Shuts`). The head it read is therefore no older than any such row
(`AtHead`), and every row is numbered higher than the one it follows (`RowsFollow`):
a row of those that followed the same head would be newer than the head.

*The operators.* A step of `RoomSpec` is a step of the service or one of an
operator, who sets the status of a row that nobody has locked. `IInv` says nothing
of the status, survives both (`RoomIInv`), and is enough for the chains and for
`RoomKeepsBody`.

*The journal.* `KeepsJournal` is not inductive: a rename replaces `commands` by an
image that `Load` computed earlier. `JInv` says what holds in between. `JobSound`:
a job asks for what the submission that awaits it has in `env`, and no two jobs of
a queue belong to one submission, so the end of a job moves on the submission it
belongs to. `ImageSound`: the running job's image is the table on disk with the
job's row added or with nothing added, and after its rename it is the table
itself; only the running job replaces tables, and this is where `OneBus` is
used. `ParentSound`: a routed child's parent is on record; rows only get
appended, so it stays so. Every step of `submit` between two awaits is a `Move`
(it touches only its own submission and may enqueue one job), one lemma for all
of them (`MoveKeeps`); `LoadKeeps`, `SaveKeeps`, `FinishKeeps` and `CrashKeeps`
are the others. `NextKeeps` says what each step is to a reader of the journal,
from which the refinement follows by `IdsOfAppend`.

*The guards.* `ReplayInv`: the id of every answered submission is on record, every
row is that of a submission that wrote, and whoever has passed the guards had no
answered command of its like before it (`Fresh`); `before` is what was answered
when it was submitted. `NonceInv`: every row brought its nonce or the job that
saves it still does (`RowCovered`); a nonce leaves the table only when its owner's
window has closed (`ClosedBy`); an answer comes after both renames, so the nonce of
an answered submission is held (`Held`). A crash between the renames breaks the
first of these, and `NoncesKept` speaks of histories without one. `OwnTypes` adds
the types that the other invariants do not say.

*The rooms.* That rows and evidence come together rests on what an open
transaction still has to run. `RInv` says of each: what its statements may write
(`Proper`, `Holds`: rows of its own change event, summary, reason and billing source,
and only an isolation action writes the table of the isolation), whose its writes are
(`Pending`: its own, or a certificate that another request issued and is on record
for), that what it owes is written or still to be written (`Brings`: change event,
billing source, isolation row), that its summary and its reason have one code
(`Coloured`), and that it holds the lock on the reference it will commit (`Held`),
which makes the reference unique; the clock counts transactions begun and committed,
so that `t` tells them apart. `DecideMutationPlans` proves the first of these for the
plans of all thirty actions, `RunLocal` for each kind of statement;
`CommitRows` and `CommitStep` are the step in which rows and evidence appear.

*Summaries, decisions, views.* These are inductive only relative to `RInv`.
`StepMoves` says what any step is to them: a `COMMIT` of one request, a step of one
request that leaves the tables alone, or a stutter. `SummariesSound`: the reason of a
summary is by the summary's writer, and that writer is the last to commit of all that
wrote a reason for the room; with the clock, an older reason can then only be ahead
if the two transactions overlapped. `Clearing`: a refresh of the licences deletes,
or will delete, each licence but those of refreshes that committed since it
began, so what `COMMIT` leaves is of one refresh or of overlapping ones.
`Carrying`: what a request that decides no canary is about to write in a service's
row repeats the result of the last canary on record, unless that one is superseded or
committed after the request began; this is where the selects before the upserts
matter (`MergedCanary`). That the audit shows what is stored needs
that auditing an audited payload changes nothing (`AuditTwice`). `ViewsSound`
says what a reader has found after each look (`Honest`): the stop conditions are for
writing from the first query on, and `synthesized` is set only if the mode read at
the start was not primary.

*The AI room.* `RoomKept` speaks of the first band of the queue and of what clients
hear, and neither is inductive. `GatewayInv` says that an item goes in behind its
band (`InBands`, of which "urgent tasks first" is a consequence: the urgent items
are the first as many positions as there are urgent items), that a submission is in
the queue at most once, as itself or as its echo, and not while it is in the loop
(`QueueTrue`), and that it goes round, in one of the two places, exactly
while it was submitted and did not fail for want of its agent (`GoesRound`): the
echo that never drains is in the invariant. `ClientsTrue` relates what a client
has heard to the state its task is in: nothing after the first two words before
its poll ends, everything after it unless the client has left, and a result only
if the task completed, which `Advances` keeps true.

*Bridge and mesh.* `RegistryHolds`: a node that has not spoken since `markStale` last
ran was heard of within the threshold then, or is offline; `ChallengesHold`: an open
challenge has not been met, and closing one is what meets it. `MeshInv` holds of the
memory, of the file, and of what each round in flight is about to write (`saves`),
since a round that ends late replaces the file by what it knew earlier; that is
why a state is explained by its own misses and word and by nothing else.

*Looks that take several steps.* The policy gate and its lookups, the engines and the
desk's routes read one thing after another while it changes. Their histories
(`seenBy`, `there`, `was`) are the moments of a request. `PhaseInv`, `StationInv` and
`DeskInv` say of a request in hand that whatever it has collected was so at one of
them, and that the present state is one of them (`InSight`; `Observed(...) \in
moments`), so that the next look keeps this true; and of an answered one, that its
verdict is the code's function of what it collected. From these, what a verdict
implies is a fact about that function alone: `ServicesRead`, `SpineRead` and
`RoomsRead` say that a part of a gate's blockers is what some moment shows or stands
for a fetch that failed. For receipts, a stage that was read is a lower bound of
the present one (`ChainsRead`), which is what lets a manifest that was fetched
after a proof be compared with it.

*The desk.* `DeskInv` is a conjunction by table, and each route is proved only
against the tables it writes (`Acts(q, routes, parts)` says what the others may rely
on). `PapersHeld`: a receipt or a stamp attests what was true when its request
read. `IncidentsHeld`: a resolved incident has one note, unless two resolvers had
read it open before either wrote (`tied`). `MarketsHeld`: a change names a row of its
own request, if it names one. `EventsHeld`: events
only grow, so an export never counts more than there are.

*The local journal.* A line is what reached the file, so it may hold a piece of a
record, or several records. `JournalTrue`: each whole piece is the chain of one
request, once, and the chain before it is on an earlier line or the same one.
`SealsTrue`: what a request is about to append already has its predecessor in the
journal, whatever was appended in between; this is why overlapping requests
fork the chain and never break it. `CopyTrue`: the memory of a server that is up holds
every answered seal, and only seals of the journal. `FreeFirst`: who was told that
a seal costs found `FreeSeals` others, held then or found again by the next boot
(`StoredBy`), so the hundred free seals are not lost by a crash.

*The boot seed.* `SeedInv` has a part for each table. Each says how far a process has
come with it, as a function of the statement it is at (`BootRooms`, `BootLicences`,
`BootEvents`, ...), and what holds behind the last of them (`Through`), which is what
`SeededIsComplete` needs at the end. `Alone`: a process between a look and its write
that is not in `raced` is the only one there, so that what it saw is still so
(`seen = Len(chain)`, no row of its release, no intelligence, no operator's
summary). `LogTrue`: an earlier seed's row is the first of a log and no other, so the
row that is rewritten by its id is never an operator's, raced or not. The licences'
part follows the one process that replaced them last. A statement is proved against
the table it writes (`WriteLogHolds`, `InsertHolds`, `InEventsHolds`, ...), and stands
aside from the others (`StandsAside`): it enters none of their windows and comes no
further behind them.

*What the rest of `CeoKept` rests on.* Its seven parts share no variable, and each has an
invariant of its own.
The conductor (`FlowHolds`): whatever is executed next comes after results none of
which ends the workflow; that a layer which says it runs is executing is kept
because only an end writes another status, and it writes one that claims less.
The room runner (`NodeHolds`): while starts do not overlap, the one server that is
not closed is the node's; `RoundHolds`: a round is under way exactly while the loop
says so, so that an interval which fires meanwhile begins none.
The agent gateway: `FilesFresh` follows each file through the two steps in which a
thread takes its content and notes its time. As long as two reloads of it did not cross (`crossed`),
what is in memory is what the file holds, or the next look will see that it is not.
`AllReasoned` says of a connection what it has been admitted with and what it ran, each
of which was so at a moment since it was opened; `RequestsHeld` and `SpansHeld` are the
limiter. Times enter a bucket in any order, so it is not sorted and one may stay in it
behind a newer one; but whoever drops a time has one that is more than a window later,
so an admission whose own time is at most a window old
still has a place of its own in the bucket (`Recent`, `Books`), and those of a window,
which asked at `t` or later and got through at `t + WindowSeconds` or before, all have
places there when the last of them gets through: they are `MaxRequests` at most.
The lane agents (`QuietSheets`): a list that one request at a time has changed has the
entry of every accepted request, or the request that holds it open is about to write
them; `SpeechFiled` names the millisecond at which a file was named.
The authority: `WriterAlone`, whoever makes keys has no other process beside it, and
`OneKey`, otherwise every process and every signature has the key on file; both as
long as nobody started or ended while keys were being written (`broken`).
The server nodes (`AskFits`): an answer is a function of what was stored when it was computed,
whose documents are those indexed before (`DocsFit`); that the ranks of a search are
those of the best is a fact about finite orders (`Ranks`: positions, as many as
members).
The certificate list (`PagesHold`, `NoneLost`): pages end at the cursor and each
is older than the one before; a certificate that matched when the reader began is
on one of them, still to come, no longer one that matches, or one of those that are
skipped, created in the millisecond at which a full page ended (`PagePassed`).

Proving these corrected the model in two places: the limiter drops expired times from the
front of its bucket only (`InWindow`, agentgateway.py:71), which matters since the bucket
is not sorted, and a refused status request of the Linux admin reports no state
(`AdminTruthful`).

TLC checked `RInv` and the four of the rooms on the instance of `MCRooms`.

The other invariants above were checked by TLC as invariants of `MCSealChain`,
`MCBusGuard` and `MCBusJournal` before they were proved; they are not properties
of these runs because the theorems say more.

*Only model-checked.* Liveness, which TLAPS does not do: `EveryRequestAnswered`,
`EverySubmissionAnswered`, `RequestsAnswered`, `SubmissionsEnd` and the liveness in
`ModeKept`, `LimitsKept`, `CoordinationKept` and `RoutesKept`, whose safety
conjuncts share a property with it. `SchedulerKept`, `FilesKept`, `DeliveriesKept`
and `CalendarsKept`, which join invariants of several services with action
properties and are about filtered and sorted sequences: what a fold computes is
induction over data. Every property that a run checks as an INVARIANT is proved.

## 6 Disagreements found

Each of these is a run that TLC must find violated, with the quoted line in
`PROJECT.json`.

* `MCFindLedgerFork`: the evidence chain is a tree; `appendEvidenceLedgerTx` reads
  the head without a lock (README.md:125).
* `MCFindKeyTwice`: two overlapping requests with one idempotency key both issue
  and are both charged (seal-service.ts:335).
* `MCFindTwoBuses`: a second bus over the same files saves an older image; the row
  of an answered command is lost, and the command is routed again (README.md:135).
* `MCFindSynthUnblocked`: a summary made up while the database was away is answered
  without a write blocker, the mode being looked at three times
  (tests/room-contract-api.test.ts:34).

Seen while modelling, and part of the model, but without a run:

*Certificate service.*
- The plan limit is compared with the counter before the transaction: requests
  that read it together exceed the plan.
- The operators' verify un-revokes a certificate (evidence.ts:846); their revoke
  appends no evidence and leaves the proof public, so that the proof page keeps
  answering valid.
- The cursor of the list is cut to milliseconds: certificates of the millisecond in
  which a page ends are skipped. The two usage routes disagree below zero.
- The certificate file is offered for revoked certificates with "Publicly
  verifiable"; the HTML proof page verifies the hash alone.

*Command bus.*
- Every submission is answered with a rejection, valid and routed ones too, because
  no evidence layer is constructed (tests/policy-enforcement.test.ts:95 expects an
  acceptance).
- Two overlapping submissions of one command are both routed (command.bus.ts:88,
  CODEMAPS/backend.md:71): the guards read before either is on record.
- A retry under a recorded id with a fresh nonce leaves that nonce unrecorded
  (found while proving `NoncesTheorem`), and a command under an id on record leaves
  no trace in the journal and is routed again after its answer; `OwnId` excludes it.

*Rooms.*
- A summary is reported missing when its query failed in primary mode; a made-up
  body can be answered with `synthesized: false`.
- An export's file stays after a rollback. Revoking an unknown certificate reports
  revoked. `updated_at_utc` can go backwards.
- Market's POST intelligence is not atomic, and POST actions never check stop
  conditions. APIs over the database are registered or not once at boot, the room
  contract always.
- A default `health_refresh` spreads the canary of runtime-api to all rows; the
  payload of system and ops takes `MAX(canary_status)`, a lexical maximum, for the
  latest (room-contract.ts:1379).

*Operators' desk and policy.*
- Overlapping resolves of one incident both append. Receipts and stamps can be
  generated repeatedly, and for an invoice voided after the look. A stamp does not
  count dead jobs as failed, the failures route lists them. Retry resets any job.
  Verify always answers `verified: true`. Recurring revenue is multiplied by the
  number of invoices. The chain check looks at the oldest `limit` events only.
- The policy gate passes with phase 2 disabled and swallows a failing room query;
  the recheck of a degraded service answers 404 when it got worse; "healthy for two
  consecutive checks" is not implemented; `ops_support_unreachable` is unreachable.

*Boot.*
- "Idempotent: checks existence before inserting." (seed.ts:4), but service status,
  market analysis and boundary rows are inserted at every boot; overlapping boots
  fork the event chain; a boot's boundary snapshot and isolation rows override what
  operators refreshed; one that breaks off after the DELETE leaves licences out.
- Local seals fork under overlap, a torn line blocks the next boot, and overlapping
  requests are told "free" for more than 100 seals.
- Overlapping polls of the monitor let an older result overwrite a newer one.

*Engines.*
- `verifyHashChain` throws for every journal with a line, which is reported broken
  at 0; "seal" answers `sealed: true` and registers nothing; "harden" and the SOP
  steps report what they do not do; the market engine never recommends to monitor or
  hold. A process whose `pgrep` fails or takes two seconds is offline (index.ts:502),
  a disk or memory that cannot be read is 0 % used (526, 535), a pipeline file that
  cannot be read has nothing down in it (1081): of these the last two can be green.
  The conductor reports success despite denied verdicts, and idle while
  another request executes. Overlapping starts of a room leak a server.

*AI room.*
- The gateway's echo never drains; a prompt that is not text ends its loop; a
  handler of `once` may run twice; a task finished twice lowers loads twice; a task
  that timed out for its client may complete unheard.
- Agent tasks: failing sources are answered as empty lists and zeros, although
  data-sources.ts:2 says "no fake data, no placeholders"; a failed append is replaced
  by a write over the whole day's evidence (workspace.ts:67); torn files are read as
  empty and overwritten; the domain scans get no inputs.
- Memories: what injector.ts:113 calls "always included" may be left out; searches
  read other agents' entries; `PUT /api/memory/:id` spreads any field.
- Streams: a stream that fails after its headers, and a pull that is refused, end
  without "[DONE]"; lines cut by the network are lost (cloudflare-workers.ts:103);
  agent-invoker's result is always empty, since it reads fields the router does not
  send; a fallback after partial chunks mixes two providers.
- Flyer bot: `FLYER_CONSENT_REQUIRED` is unreachable; every feedback answers 400
  after it was recorded; a crash between log and outbox leaves a flyer on record that
  never left. Request log: an invocation is audited twice; one torn line empties a
  day.
- AI-room calendar: a search offers slots before `from`, texts are compared where
  moments should be, an event that ends before it starts is both upcoming and
  overdue.

*Scripts and authority.*
- Two overlapping reloads of the agent gateway can leave the old content under the
  new time for good; the limiter reads the clock before it takes its lock
  (agentgateway.py:64,69), so threads that wait there make a window hold more than
  the limit, by the times in the bucket and by those of the lock; the commands answered by `/v1/meta/commands` may be stale; a
  command that cannot be started leaves no audit record (docs/agentgateway-control-
  plane.md:26: "Every dispatch writes audit records."); a body of an unexpected shape
  drops the connection unanswered.
- The Linux admin accepts a status whose `docker inspect` failed and reports a
  running container as not found (mcp-linux-admin.py:84).
- Calendar and voice agents lose updates and overwrite a torn file; a cloned voice
  whose registry write is lost stays at the provider.
- A crash between the authority's two key files blocks every later start; a second
  process makes keys before it finds the port taken; an acknowledged heartbeat
  overrides reported ill health. Registry heartbeats and the handshake have callers
  in tests only.

## 7 What is not modelled

* *Payments.* Every route of `payments.ts` calls `checkRuntimeConfig`,
  `evaluateBusinessMotionGate` or `recordLaunchEvent`, which no file defines or
  imports, before it does anything else; it throws and answers 500. Tests mock a
  module that does not exist. There is no reachable behaviour to specify.
* *Command audit, decision snapshots, brain gateway.* `CommandAudit` has no caller;
  the others lie behind `writeDecision`, which throws.
* *Web front end and pages.* `web/`, `server/rooms.ts`, `routes/ui.ts` and the
  routes that answer one query shape text and have no step between reading and
  answering. So do most payloads of `room-contract.ts`.
* *Formatting.* HTML, PDF, slugs, canonical JSON (its only property used is that
  equal payloads give equal text).
* *Launchers, vendored code, caches* (`room/`, `infra/`, `.reflex/`,
  `ProgrammingProject2425/`): process management, proxies without state, and code of
  others. `OpenShell` is mounted nowhere and the session authenticator is used
  nowhere.
* *Disk faults of the journal* (command.backbone.ts:230, 238). A read that fails for
  any reason yields an empty table, which the next job saves; a write that fails
  leaves the other renames running; two objects write to temporary files of one
  name. The journal is lost by construction, and no property of it could hold.
* *The rest of the database.* Isolation is READ COMMITTED with row locks; crashes
  of the server are connection losses to the handlers (`Fault`).

## 8 Plan

The components of section 1, their runs and the theorems of section 5 are done.
What is left, in order of importance:

1. The safety conjuncts of `LimitsKept` and `CoordinationKept`, apart from the liveness
   they are stated with.
2. `FreshAnswerIsRight`: what a probe that nobody overtook leaves of the mode.
