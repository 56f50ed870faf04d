# Model Control in TLA+

Modules, model-checking configurations and proofs about OpenCode Model Control:
the local panel with its shared state, the routing plugin that runs inside
OpenCode, and the MCP server. Source paths below are relative to the repository
(`src/server/...` is the code, `docs/...` and `README.md` its documentation).

Read a module together with `PROJECT.json`, whose `map` names for every
definition the lines it models.

## 1. The system

| Component | State it keeps | Operations | Talks to |
| --- | --- | --- | --- |
| State lock (`server/state-lock.js`) | a lock directory with `owner.json`, temporaries in it, recovery fences beside it | acquire, wait, recover what a dead process left, release | every reader and writer of the state; used a second time as the refresh lease |
| Settings store (`server/settings-store.js`, `core/settings.js`) | `settings.json`; backups of migrated files | read, migrate, compare-and-set write | the service, the plugin (reads) |
| Catalog, connection and refresh-status stores (`server/catalog-store.js`, `connection-store.js`, `state-snapshot.js`) | three JSON files, each replaced by rename | read with the settings as one snapshot, write one by one | the service |
| Control service (`server/service.js`) | an in-memory copy of the four files, at most one refresh promise, a timer of 15 minutes | initialise, reload, refresh, update settings, connect, route, runtime check | panel and MCP server run one each, in their own processes |
| HTTP server, browser launch (`server/index.js`, `app.js`, `http-utils.js`) | mutation session | parse, authorise, call the service | the panel's tabs |
| Panel editor (`ui/App.tsx`, `ui/editor-state.js`) | shown state, baseline, draft, the save under way, flags of the buttons | poll, refresh, edit, revert, save, rebase | the HTTP server, with requests answered in any order |
| Routing plugin (`opencode/plugin-runtime.js`) | per router session: worker, reviewed assignment, repairs; per child: route, assignment, grant, background operation | hooks of OpenCode: `chat.message`, `chat.params`, `tool.execute.before/after`, `event` | OpenCode calls the hooks; they read the shared state and the host's inventory |
| Usage attribution (`server/attribution-queue.js`, `usage-attribution-store.js`) | a bounded queue per plugin instance; one ledger file | capture, complete, prune, save the counters, read the coverage | the plugin; the ledger is shared by all processes |
| Config connector (`installer/index.js`, `cli.js`, `jsonc-document.js`) | OpenCode's config, a receipt, a backup, a lock file | install, status, uninstall, open | the service, the command line |
| Discovery and public metadata (`server/opencode-cli.js`, `models-dev.js`) | a cache file | run the OpenCode CLI, conditional fetch with a time limit | the service |
| Runtime checks (`server/runtime-qualification*.js`) | a history file | one bounded OpenCode process | the service |
| Planner and eligibility (`core/*.js`) | none | route, explain, price, judge a connection | service, plugin, MCP server |
| MCP server (`mcp/server.js`) | none of its own | tools over the service | OpenCode |

Everything in one process runs on one event loop, so what is interleaved is what
lies between two `await`s; between processes it is file-system calls. What makes
the system hard is therefore:

* several processes on the same files, any of which may end between two calls;
* state read before an `await` and acted on after it (lock recovery, saves,
  task hooks);
* events and HTTP answers that arrive late, out of order, or not at all;
* caches, grants and counters whose owner must not use them twice.

What makes each component correct:

* *lock*: one holder; a live holder or publisher is never reaped; a dead one is.
* *stores and service*: a save is a compare-and-set; a pinned model is offered
  only over the endpoint its user bound it to; the freshness that is shown is
  never ahead of the data; refreshes end and give back their locks.
* *plugin*: a repair follows a real review of the very work it repairs, on the
  route of that work, once per turn, and its authority is used once.
* *attribution*: failures are counted once; "complete" means that what was dispatched
  is recorded.
* *editor*: edits are never lost, other editors' saves never undone, a confirmed
  save never displaced by an older state.
* *evidence and planning*: free is what was published as free for that very API
  and never contradicted; a plan uses only what was reported, allowed and enabled;
  a binding revision says which model goes over which route.
* *metadata cache*: no price is dated later than it was published.
* *upgrade*: older settings are never lost, and migrated ones mean what they meant.
* *runtime checks*: every check ends; a result that was reported saved stays.
* *connector*: nothing of the user's in the config is lost, wherever a transaction
  fails; the receipt names all that is ours; what is replaced was backed up.

## 2. The modules

| Module | Models | Composes |
| --- | --- | --- |
| `Mutex` | what users of the lock rely on: a set of those inside, never more than one | |
| `FileLock` | the lock, one action per file-system call | implements `Mutex` |
| `FileLockProofs` | theorems about `FileLock` | |
| `SettingsRegister` | what saving promises: a compare-and-set register with one write of defaults | |
| `ControlStore` | service, stores, connection observer, panel tabs, MCP server as one more process | uses the lock as the mutex it implements; implements `SettingsRegister` |
| `ReviewLoop` | what one router turn promises: work, review of that work, at most `Limit` repairs | |
| `ControlStoreProofs` | theorems about `ControlStore` | |
| `SpecialistWorkflow` | the plugin's hooks for delegated work, and OpenCode as their environment | implements `ReviewLoop` |
| `SpecialistWorkflowProofs` | theorems about `SpecialistWorkflow` | |
| `Attribution` | queue, runner and ledger of the usage attribution | a ledger operation is one step, as the lock allows |
| `AttributionProofs` | theorems about the queues and the ledger of `Attribution` | |
| `EditorSession` | the editor of one tab, its requests, and a server that saves by compare-and-set | the server is `SettingsRegister`, seen from one editor |
| `EditorSessionProofs` | theorems about `EditorSession` | |
| `ConfigInstaller` | connect, update and disconnect of our entries in OpenCode's config, and a user who edits it | |
| `ConfigInstallerProofs` | theorems about `ConfigInstaller` | |
| `PricingEvidence` | rates, API identities and what they say of a price, as operators | |
| `ModelCatalog` | discovery, its merge into the catalog, the binding of connections, as operators | uses `PricingEvidence` |
| `RoutePlanner` | eligibility, ranking and planning, as operators | uses `ModelCatalog` |
| `CatalogRefresh` | refreshes over time: publication, cache, discovery, commit | uses `RoutePlanner` on what is stored |
| `CatalogRefreshProofs` | theorem about the cache of `CatalogRefresh` | |
| `SettingsMigration` | validation and migration of settings of every version, as operators | |
| `ServiceFiles` | the start of a process with its migration, and runtime checks with their history | uses `SettingsMigration` |
| `ServiceFilesProofs` | theorem about the start in `ServiceFiles` | |
| `MC...` | the instances TLC checks | |

The composition is by abstraction: `FileLock` is shown to be a `Mutex`, and
`ControlStore` and `Attribution` treat a locked section accordingly;
`ControlStore` is shown to be a `SettingsRegister`, and `EditorSession` takes
that as its server. `CatalogRefresh` takes a commit as one step and computes what
is written; `ControlStore` has the same commit write by write, and of the
contents only what a reader can mix up. `ServiceFiles` takes the state lock as a
mutex, too.

Definitions named `...` with a comment that starts with "Mutant" are variants of
the definition after them with one plausible bug. They belong to no
specification; substituted for the original, each makes TLC violate the property
that `PROJECT.json` lists with it, which shows that the property depends on that
piece of the code.

### FileLock

A caller's `pc` walks through `acquireFileLock` and the release: `scan` (sweep
the fences), `mkdir`, `rescan` (the second look at the fences), `write` and
`link` (the atomic publication), `tidy...` (its `finally`), `held`; or, when the
directory is there, `fence`, `inspect`, `pending`, `stat` (`recoverFileLock`'s
reads of the owner, the temporaries and the age), `reap...` (its `fs.rm`),
`unfence`, `wait`. The recursive `fs.rm` is two steps, as in Node: what is in the
directory goes first, and the `rmdir` fails if something was added meanwhile.
The environment kills processes (`Crash`), lets time pass (`Age`: the 10 s grace
period) and, with `Leftover`, starts from a directory without a valid record.
A caller's name is its token. Process ids are not reused: a reused id makes a
dead owner look alive until that process ends, which delays recovery and cannot
break exclusion.

### ControlStore

`settings`, `catalog`, `connections` and `status` are the four files, each
replaced in one step. `job[p]` is the refresh promise of a process, `tab[t]` an
editor with its request. A save is `BeginSave`, `LockForSave`, `CheckSave`,
`CompareSave`, `RenameSave`, `AnswerSave`; a refresh `TimerRefresh` or
`ClickRefresh`, `TakeLease`, `Decide`, `Discover`, `LockForCommit`,
`WriteCatalog`, `WriteConnections`, `WriteStatus`; their refusals and failures
are actions of their own. One provider with one model stands for the inventory:
its route is the endpoint that a saved pin is bound to. `written` is a history
variable, `clock` numbers the attempts and stands for `attemptedAt`. Reads hold
the state lock for all of their length, so a read is one step that needs the
lock to be free. `memory` keeps of a process's in-memory copy only what a
decision later reads, the attempt that coalescing compares.

### SpecialistWorkflow

One action is what a hook does between two awaits: `Begin`, `Accept`, `Grant`
are the three parts of `tool.execute.before`; `Acknowledge` is
`tool.execute.after`; `Prompt` and `Route` the two parts of a child's
`chat.message`; `Infer` its `chat.params`; `Hear` the completion event;
`UserTurn` the router's own `chat.message`; `DeleteChild` and `DeleteRouter` the
event `session.deleted`. OpenCode's side: calls are issued in order, a session
runs one prompt at a time, a task in the background may be acknowledged at any
time, events may be late, models fail (`ChildFails`), the user may write to a
child (`Intrude`), a call whose session was deleted before its prompt gets
another (`Reopen`). Objects that the code compares by identity are named by the
call that made them; a workflow object is the number of its turn.

`host` is chosen once and says what OpenCode and its users do in this behaviour:
how many calls and turns there are, whether calls run in parallel or in the
background, whether others write to the child sessions, whether the pin changes,
whether sessions are deleted. So one run has several environments, and a property
that needs one of them says so in its premise.

### Attribution

`queue[q]` is the closure of `createAttributionQueue` with its runner: `start`,
`work`, `settle`, `persist`, `ended`. `ledger` is `usage-attribution.json`. An
operation on the ledger may fail before its rename or after it, and the queue
cannot tell which. `Dispatch` is `chat.params` with its capture, `Hear` the event of
a completed step, which does nothing unless the step's message is the session's
route at that moment; `Route` (the session's next message) and `Leave` (the session
is deleted, or goes to an agent that is not routed) are what makes completions come
too late. `heard`, `settled` and `owed` are history variables: which completions were
put to the queue, how far their message had been dispatched by then, and the rows
that entered and were not completed. `FailedCount(Own)` and `Partial(Own)` are what
`readUsageAttribution` tells a process whose own queues are `Own`.

### EditorSession

`editor` is `EditorState`, `wire` the requests under way. The answer of a request
is fixed when the server serves it (`Serve`) and reaches the editor later
(`Show`, `Finish`, `Conflict`) or never (`Fail`); a save given up by the browser
may still be served. `saving` is the flag of the buttons, which after a conflict
stays up until the state was read again (`followup`). Settings are functions on
leaves, so that `mergeEdits`, which recurses into the object, is pointwise.

### ConfigInstaller

`config` is OpenCode's file, abstracted to the owned keys, the plugin array and
the rest of its text; `receipt`, `backups` and `lock` are the other files. A
transaction reads the receipt (`Begin`), reads the config and plans
(`PlanInstall`, `PlanUninstall`), verifies (`VerifyFails`), takes the lock file
(`Lock`, or gives up at once: `Busy`), compares the config with what it planned
from (`Guard`), then `Backup`, `Check` (atomicWrite's own comparison), `Rename`,
`CommitReceipt`, and if that fails `Undo` and `Restore`; `Release` removes the
lock file. Two processes run different installed versions, so that an install is
also an update. Three owned keys stand for the kinds there are: one that names
the version (the MCP command), one that does not (agents, tools), and
`default_agent`, which the user may own. `Edit` is the user and `RemoveLock` too:
nobody else removes the lock file of a process that died.
`mine` is a history variable, the config as the user alone has made it, and `ours`
another, the entries that are there because of us. With `MayRace` the user may
also save between atomicWrite's comparison and its rename.

### PricingEvidence, ModelCatalog, RoutePlanner

Operators with the names of the functions they translate. A cost is a record of
blocks (base, tiers, over 200k, modes), each a function from dimensions to
numbers; `analyzeRates` turns it into rates with a class, and `resolveModelEvidence`
matches them with a published API identity. `parseOpenCodeVerboseCatalog` and
`discoverOpenCode` are discovery, `mergeDiscoveredCatalog` and `retainOmitted` what
`#refresh` does with it, `observeConnections` the connection observer.
`resolveEligibility`, `eligibleModelsForRole` and `planRoute` are the planner; it
is a pure function of catalog, connections, settings, task and time. What the
text of a listing looks like is left out, what is read from it is not. Vision,
audio and documents are one modality, `media`; the scores of a model for a role
keep their order only.

### CatalogRefresh

A refresh is `Begin` (read the cache, ask conditionally), `Answer` and `Receive`
(the 304 or the publication, stamped and cached) or `Miss` (time limit, failure,
failed write), and `Commit`, which runs discovery, merge, validation and
observation on what was found. models.dev publishes (`Publish`), the cache file is
lost (`LoseCache`), processes die (`Crash`), time passes (`Tick`); `TTL` stands for
the day after which a snapshot is stale. `served`, `seen` and `contradicted` are
history variables: what was published when, how each model was listed last, and
whose free price its listing contradicts. The properties compare what is stored
and planned with this history.

### SettingsMigration, ServiceFiles

A document is a record of the fields that any version has, with `None` for a field
that is not there. `migrateSettings` is the code's: by version, to version 4;
`Refused` for what the code refuses. `Pins`, `Chosen` and `Excluded` say
independently of it what an older document asks for, under each of the names that
old versions had for it.

`ServiceFiles` has the start of a process, `ReadSettings`, `Backup`,
`WriteSettings`, `LoadHistory`, each of which may fail or be its last step, and
runtime checks: `BeginCheck`, `Isolate`, `Finish`, `SaveResult` or
`SaveResultFails`. The state lock is a variable: FileLock gives it to one process,
and takes it from a dead one. The history of results is written without it, as in
the code, from what the process has in memory. `told`, `entered`, `stale`,
`blind`, `original` and `edited` are history variables.

## 3. The runs

Every run finishes in less than three minutes with two workers. "Pass" runs are
exhaustive for their bounds.

| Run | Question | Result |
| --- | --- | --- |
| `lock_crash` | three processes, up to two of which die at any call: `MutualExclusion`, `HeldIsRecorded`, `ReapsOnlyDead`, `ImplementsMutex` | holds |
| `lock_recovery` | crashes, stalls and leftovers together, with fairness: `TypeOK`, `DeadOwnerReclaimed` | holds |
| `lock_leftover` | a leftover directory and three live callers: `MutualExclusion` | violated |
| `store_saves` | two tabs, an MCP server, two endpoints, no faults: `TypeOK`, `StoredRouteIsReviewed`, `SavesAreCompareAndSet` (refinement), `PinIsCurrentWhenSaved` | holds |
| `store_faults` | a tab, two processes, crashes and failing writes, with fairness: `StatusIsNotAhead`, `FreshnessOnlyAdvances`, `RefreshEnds` | holds |
| `store_torn` | a crash between two writes of a refresh: `StoredRouteIsReviewed` | violated |
| `flow` | five hosts, see below: `TypeOK`, `ReviewIsReal`, `GrantIsOneShot`, `RepairKeepsRoute`, `RepairsFollowReviews` (refinement) | holds |
| `attribution` | two queues, one ledger, every fault: `TypeOK`, `FailuresAreCountedOnce`, `CompleteMeansRecorded`, `RowsAreAccountedFor`, `IdleIsSaved` | holds |
| `editor` | one tab, answers in any order, other editors: `TypeOK`, `ReadYourWrites`, `EditsSurvive`, `SavesOnlyEdits` | holds |
| `connector` | two versions, a user, crashes and failures at every step: `TypeOK`, `UserEditsSurvive`, `OwnershipIsRecorded`, `ReplacedIsBackedUp` | holds |
| `catalog` | three refreshes over a stale day, every answer, listing and failure: `TypeOK`, `FreeIsEarned`, `PlannedModelIsReported`, `BindingNamesRoute`, `SnapshotIsServed` | holds |
| `service_files` | two processes start over settings of every version and check models, with fairness: `OriginalIsKept`, `IntentIsKept`, `ResultsStay`, `ChecksEnd` | holds |

### Bounds, and why they are enough

* *Lock*: three callers in three processes. The protocol has three parts (maker,
  recoverer, bystander that becomes the next maker), and `lock_leftover` shows
  that three are needed for its one failure. `Crash` always leaves one process.
  In `lock_crash` this means that a directory whose maker died is fought for by
  at most two live callers. What the run says of exclusion goes no further than
  that: with a fourth caller the failure of `lock_leftover` follows the death of a
  holder too (section 4). `ReapsOnlyDead` is proved for any number of callers.
* *Store*: two processes, two tabs or one, two endpoints where routes matter,
  `MaxAttempts` = 2 refreshes, one of which may overlap the other. `Text` has one
  member, so a save changes or keeps the pin; the register argument does not
  depend on how many values there are. The initial state is a new installation
  or one whose last refresh was complete.
* *Workflow*: two child sessions and five hosts. A router that waits makes five
  calls, the whole loop (work, review, repair, review, refused repair), or four
  with another turn in between, which leaves events of the turn before. Parallel
  calls with a foreign message, three in two turns: two that race and a third to
  repair. Tasks in the background with a pin that changes, three in two turns.
  Sessions that are deleted at any time, of children and of the router, with a pin
  that changes, three calls. `RepairsFollowReviews` is about the hosts that wait,
  because the others violate it (section 5). There are two models, so that a repair
  could pick the wrong one.
* *Attribution*: limits of one pending row, two observations, one outstanding
  piece of work, so that every limit is met; two steps in one message and one in
  another; each step told at most once (`Deliveries`); the session with the two
  steps may be left at any moment (`MayLeave`), the other instance closed or ended
  (`MayEnd`; the theorems are for any of them); each queue failing at most
  once (`MaxFailures`): one failure per queue meets every place where an operation
  can fail, and two queues meet the addition of their counters.
* *Editor*: two leaves with two values, four requests (load, save, the follow-up
  of its conflict, the second save; or a lost save, a poll and another save), two
  saves of others before they stop.
* *Connector*: three transactions and two edits: an update between the connect and
  the disconnect, or a rival at any moment of one of them; two edits, one of
  which may be undone or collide. One plugin of the user's own.
* *Catalog*: three models of two providers, one with plans; the first is in the
  bundled catalog. Three publications: all free; the first with a price in a tier;
  the second gone. Five listings: as published, with routes exchanged, with a price
  for the cache only and a model without tools, with a model that no longer takes
  media, with a deprecated and a missing model. Three refreshes are enough for what a
  refresh keeps of the last but one; `TTL` = `MaxClock` = 2 lets a snapshot grow
  stale and be renewed. Three settings and four tasks differ in the conditions of the
  planner, and every state is planned from with each pair.
* *Service files*: no settings, damaged and ambiguous ones, ones of the future, and
  documents of versions 0, 2 and 3 (0 to 2 are migrated alike) whose names, lists
  and flags contradict each other or name a model that is gone. `MAX_RESULTS` = 2 with three checks
  meets the limit; behaviours that migrate have one check. Two processes may start,
  die and start again at any point.

`CHECK_DEADLOCK FALSE` is set for the workflow, the attribution, the editor, the
connector, the catalog and the service files: their bounds on calls, steps,
requests, transactions, refreshes and checks end a behaviour, and so do crashes of
all queues and settings that no process accepts. `FileLock` and `ControlStore` are
checked for deadlock.

Symmetry is used only in runs without liveness properties: tabs, endpoints,
children, models, leaves and values are interchangeable there. (`store_saves`
and `flow` check refinements, which are safety properties.)

### Fairness

* `FileLock!FairSpec`: each live caller keeps taking its next step and time
  passes. Node runs the continuations of a live process, the waiting loop polls
  until `waitMs`, and the panel's refresh timer asks for the lock again, so an
  `idle` caller comes back. Nothing is assumed of a dead process, and nothing is
  claimed of who gets the lock: it is not starvation-free.
* `ControlStore!FairSpec`: a request that has begun goes on. Waiting for a lock
  ends after `waitMs` (`SaveBusy`, `LeaseBusy`, `CommitBusy`, `ReloadBusy`), and
  discovery has its own time limit. A process that died need not be started.
* `ServiceFiles!FairSpec`: a check that has begun goes on. Its two OpenCode
  processes have time limits (10 s for the preflight, 60 s for the provider phase),
  after which the runner kills them and takes what they said, and calls on files
  return. It assumes that OpenCode dies of the signal it is sent.
* The other modules claim no liveness: OpenCode need not prompt, reply or tell,
  and `fetch` in the panel has no time limit.

## 4. The proofs

Every theorem holds for all values of the constants that satisfy the assumptions
the module declares; TLC evaluates those in every run.

| Theorem | Statement | Assumes |
| --- | --- | --- |
| `FileLockProofs!TypeCorrect` | `Spec => []TypeOK` | |
| `FileLockProofs!Exclusive`, `Recorded`, `Refinement` | `[]MutualExclusion`, `[]HeldIsRecorded`, `ImplementsMutex` | `Prompt`, and `MakersSurvive` of the behaviour |
| `FileLockProofs!GracePeriodProtects` | `ReapsOnlyDead` | `~MayStall` |
| `ControlStoreProofs!TypeCorrect` | `[]TypeOK`, with the holder of lock and lease | |
| `ControlStoreProofs!SavingIsCompareAndSet` | `SavesAreCompareAndSet`: the refinement to `SettingsRegister` | |
| `ControlStoreProofs!PinIsCurrent` | `PinIsCurrentWhenSaved` | |
| `ControlStoreProofs!StatusFollows`, `FreshnessAdvances` | `[]StatusIsNotAhead`, `FreshnessOnlyAdvances` | |
| `ControlStoreProofs!StoredRoute` | `[]StoredRouteIsReviewed` | `~MayCrash`, `~MayFail` |
| `EditorSessionProofs!TypeCorrect` | `[]TypeOK`, with the flags of the buttons | |
| `EditorSessionProofs!Consistent` | `[]ReadYourWrites` | |
| `EditorSessionProofs!NothingLost`, `NothingUndone` | `EditsSurvive`, `SavesOnlyEdits` | |
| `SpecialistWorkflowProofs!TypeCorrect` | `[]TypeOK` | |
| `SpecialistWorkflowProofs!GrantConsumedOnce`, `RepairRunsOnItsRoute` | `[]GrantIsOneShot`, `RepairKeepsRoute` | |
| `SpecialistWorkflowProofs!WaitingFollowsLoop` | `RepairsFollowReviews`: the refinement to `ReviewLoop` | the premise `Waits` of the property: no parallel and no background calls |
| `SpecialistWorkflowProofs!ReviewsAreReal` | `[]ReviewIsReal` | the premise `Alone` of the property: no other message in the child |
| `ConfigInstallerProofs!TypeCorrect`, `NothingUnsavedIsReplaced` | `[]TypeOK`, `ReplacedIsBackedUp` | `~MayRace` |
| `ConfigInstallerProofs!UserPartSurvives` | `[]UserEditsSurvive` | `~MayRace`, `Apart` |
| `ConfigInstallerProofs!ReceiptNamesOurs` | `[]OwnershipIsRecorded` | `~MayRace`, `Apart`, and the premise `~failed` of the property: no crash under the lock, no failed rollback, no plan with a receipt that was replaced meanwhile |
| `AttributionProofs!TypesHold` | `[]TypeOK` | |
| `AttributionProofs!IdleQueuesAreSaved` | `[]IdleIsSaved` | |
| `AttributionProofs!RowsStayAccountedFor` | `[]RowsAreAccountedFor` | |
| `AttributionProofs!FailuresStayCounted` | `[]FailuresAreCountedOnce` | |
| `AttributionProofs!CompleteStaysRecorded` | `[]CompleteMeansRecorded`, with the exception that the property names (section 5) | |
| `ServiceFilesProofs!SettingsSurviveUpgrade` | `[]OriginalIsKept` | |
| `ServiceFilesProofs!SavedResultsStay` | `[]ResultsStay` | the premise `blind` of the property |
| `ServiceFilesProofs!IntentSurvivesUpgrade` | `[]IntentIsKept` | the premise `edited` of the property |
| `CatalogRefreshProofs!CatalogStaysValid` | `[]TypeOK`: what is stored passes `validateCatalog` | |
| `CatalogRefreshProofs!DatesAreTrue` | `[]SnapshotIsServed` | |
| `CatalogRefreshProofs!FreePricesAreEarned` | `[]FreeIsEarned` | |
| `CatalogRefreshProofs!PlansAreReported` | `[]PlannedModelIsReported` | |
| `CatalogRefreshProofs!BindingsNameRoutes` | `[]BindingNamesRoute` | a commit is one step of the module (`store_torn` has its two writes) |

In each module an inductive invariant carries them; it stands at the end of the
module that it is about, or in front of its proofs, is built from parts that are
named below, and its step lemma has one step for each action or group of actions
that disturb the same conjuncts.

**FileLock.** The assumptions are that a caller runs in one process and that the
marks for "no directory", "no record" and "malformed" are distinct and no
callers. The *maker* of the directory is whoever is between its `mkdir` and the end
of its removal. The theorems about exclusion have two premises: `Prompt`, no live
caller stalls for the grace period and nothing was left over, and `MakersSurvive`,
no process dies while one of its callers is the maker. Contenders may die at any
call, with their fences standing. `Inv` says that there is at most one maker, that
it is alive, that the directory exists exactly while there is one, and that what it
holds is what its maker has published so far. Mutual exclusion is not inductive
without the part about contenders: a contender that saw no record and goes on to
the age must not find the directory old, and it does not, because without stalls a
directory only grows old while it shows a record or the temporary of its live
publisher (`age = "old" => ~Empty`, `WatcherInv`); so nobody ever reaches the
removal of somebody else's lock (`Faulty`).

Each premise is needed: `lock_leftover` is the counterexample with a leftover, and
TLC finds one with four callers for a stall alone and for the death of a holder
alone. The last needs nothing but one death, and goes the way of `lock_leftover`:
two recoverers decide to reap the dead holder's directory before either removes
anything; the first removes it, a third caller makes the next one, and the second
removes that; the third has seen the second's fence and gives up by path what the
first has meanwhile made and published.

What holds whoever dies is the decision. `ReapsOnlyDead` is about three reads, of
the record, the temporaries and the age, between which anybody may make, publish or
remove the directory. `GraceInv` is why the last read vouches for the first two:
every change makes the directory young, and it does not grow old while a contender
is between its reads, so if it is old at the third it has not changed since the
first; and whoever is between its `mkdir` and its temporary has made it young. What
the theorem does not say is that the directory is still that one when `fs.rm` comes
to it, and with two recoverers it need not be.

**ControlStore.** The assumptions (`StoreAssumption`) give every tab a process and
keep the marks apart from routes and from each other. The theorems hold with
crashes and failing writes. The properties are not inductive because what a save
was checked against lies in other files and earlier steps: `SaveInv` says that
`Acceptable` still holds at every step between the check and the rename, which is
so because the tab then has the lock and nobody else writes those files without
it. `JobInv` says that a refresh which has gone past `Decide` works on the last
attempt that was begun, because it has the lease, and that what it has written so
far carries that attempt; with it, the status written last cannot go back, or
ahead of the catalog and the connections. `TabStep` and `JobStep` show once what a
step of a save and a step of a refresh may touch; the actions are instances. For
the refinement, `RenameSave` is the register's `Save`, the first `Connect` its
`WriteDefault`, and every answer a `Look` of the tabs it reaches (`Views`).

`StoredRouteIsReviewed` compares two files that are written by two renames. Where
nothing dies or fails, `AgreeInv` says that they name the same route, or that the
one refresh which has written the catalog holds the lock and is about to write the
connections that agree with it. With crashes it is false (`store_torn`), so the
theorem has their absence as its premise.

**EditorSession.** The assumptions are that the bounds are numbers, and that the
mark for "nothing" is no state, submission or editor. `Inv` says that the editor
waits for at most one save, that this save is the last request that was made, and
that a save carries the baseline and the edit it was made for. So no read is asked
for while a save is under way, an answer that `requestId` does not rule out was
asked for after the last confirmed save, and the state it brings has that save in
it (`ReadInv`): `ReadYourWrites`. A save that the server accepts has the server's
current settings as its baseline, so it changes only what its user changed
(`SaveInv`): `SavesOnlyEdits`.

**SpecialistWorkflow.** The assumptions keep messages, children, models and the
objects made of them apart from `None`. Nothing is assumed of the host: the
theorems hold with parallel calls, foreign messages, deletions and changing pins,
for any number of each. `GrantIsOneShot` is not inductive because a grant that is
retained could be one that some message has already taken: `GrantInv` says it is
not, and that a call that waits for the inventory has not made its repair yet.
`RepairKeepsRoute` needs, where a reply begins, that whatever names a message
(route, assignment, target, repair) has that message's model (`RouteInv`), that a
message which took a repair runs on the repair's model, and that a repair of this
turn is counted in this turn (`RepairInv`). `KeepStep` shows once what a step must
leave alone for `Inv` to hold; `FreshStep` what a new message or call may bring.
TLC was given `Inv` and `WaitInv` as invariants of `flow` before they were proved.

For the refinement, the mapping is the identity on the workflow's three parts, and
each action maps to a step of `ReviewLoop` or leaves them alone: `Grant` is
`Repair`, a completed worker is `Work`, a completed review `Review`, a user turn or
the end of the router `NewTurn`. `Work` must bring a new assignment and `Repair`
find its review undisturbed after the await of the inventory; both are so only
because one call is in flight (`WaitInv`), which is why the property has the
premise `Waits`.

`ReviewIsReal` says that what counts as reviewed or as work has finished. Its
premise `Alone` excludes the deliveries that section 5 lists. Under it, `OneAtATime`
says that the calls to a child follow each other, and that a call which waits for
its session is the one the plugin waits for; `OnItsChild` says that a child's route
is about the last of its messages that was routed, and its completion about one
that has finished, also when the child was deleted and its session made anew. So
the completion that an acknowledgement finds is that of the call's own message.

**ConfigInstaller.** `~MayRace` says that the user does not save between
atomicWrite's comparison and its rename (section 5). `SnapshotInv` says that what a
transaction has compared is still there when it renames, and is in a backup or was
missing: it is the owner of the lock file, and nobody else replaces the config but
the user, whom the comparison notices. `Apart` says that what packages write (their
versions and `Stock`) can be told from what the user may write (`Own`, `Other`); the
instance of `connector` has it, and section 5 names what happens without it. Under
it the history variables can be computed: `PartInv` says that `ours` and `mine` are
the managed and the unmanaged part of the config as it is, because every plan,
whatever receipt it was made with, leaves the user's part as it read it.
`OwnershipIsRecorded` is not inductive because the config is written before the
receipt: `OwnedInv` says that until something failed the receipt names what is
managed, unless the owner of the lock has written the config; then what it will
write to the receipt names it, and what a rollback would restore is named by the
receipt that is there.

**Attribution.** The one assumption beyond the kinds of the constants is that there
are finitely many queues. `QueueInv` counts: what a queue calls outstanding is what
is in it and what its runner works on; an idle or dead queue is empty; while a
runner saves, what it saves is all that was counted as failed, and all that was
dropped unless the queue is closed or will go another round; and a live queue never
counts less than the ledger has of it. A queue drops work only while it is full,
and a full queue has a round to come, which is why nothing is dropped unsaved.

`BooksInv` is about the ledger: its failures are the sum of those the queues saved;
its drops are at least the sum of theirs, the rest being rows that it pruned; no
message is pending twice; who saved a drop has truncated it. `RowsAreAccountedFor` is
not inductive without the third: a completion removes *every* pending row of its
message and settles one. A save adds `More`, what was not yet
counted, so a save that is repeated because the last one failed after its rename
adds nothing (`SavedGrows`). `FailuresAreCountedOnce` then follows because a sum
grows by what its terms grow (`TotalGrows`).

`HeardInv` says of every completion that a live instance put to its queue where it is:
in the ledger, in the queue, with the runner, or lost in a way that a counter of the
queue or the ledger admits. A reader who sees all those counters at zero and nothing
outstanding has every step that was heard of. For a step that was not, `PendingInv`
says where its message's pending row is, in the same way: as long as no completion of
the message was heard since the step was dispatched, the row is in the ledger, is the
work of the runner, or waits in the queue behind every completion that would remove it
(`OwnInv`: an instance queues the work of its own messages only). So the record is
partial, whether the step is told too late, because the session has moved on, or never.

Sums and filters are written so that they can be reasoned about: `Total` counts the
units of which a sum consists, and `Without` enumerates the positions that stay. Both
reduce to facts about the cardinality of finite sets (`UnitsFacts`, `TotalGrows`,
`WithoutFacts`, `NewestFacts`), where a recursive sum or `SelectSeq` would need an
induction.

**ServiceFiles.** `StartInv` says that who migrates has the lock and has read
settings that can be migrated, that who is about to write has a complete backup,
and that who has gone past it leaves settings that may be replaced. The content of
a migration plays no part, so the theorem holds for any documents.

`SavedResultsStay` is about the order in which results were entered. A list *has* the
i-th result if it is there and no more than the later ones are in front of it, or if
`MAX_RESULTS` later ones were entered (`Remains`). `ResultsInv` says that the file,
and the memory of every process whose copy is current, has all that the user was told
of; an append to such a list keeps that (`EnterKeeps`), and a process is `blind` when
it writes a list that is not.

`IntentSurvivesUpgrade` is about what a migration computes. Where nothing was edited
the settings are the original document or its migration (`IntentInv`), so it is left
to show that a migration keeps every pin, choice, exclusion and binding of any
document of an older version: model by model for the controls (`NormalControl`,
`LegacyControl`), and by name for the roles (`PinsKept`).

**CatalogRefresh.** `CacheInv` says that every pair of date and publication in the
cache, and in what a refresh has read of it, was served then, that the validator of
a snapshot is the one of its content, and that an answer is about what is published
now. So a 304 dates a snapshot that is what the server serves at that moment.

`CatalogInv` connects each entry of the catalog with the history (`Backed`): it says
what the last listing of its model said, it is available only if that listing counted,
its free price was published, at the date it carries, for the API it was listed with,
and a contradiction has left its mark. The stored catalog alone is not inductive:
what a refresh keeps of a model that it did not find (`retainOmitted`) is backed only
because what was stored was, and what it classifies anew only because the snapshot
was served (`CacheInv`). The argument follows the code: what an analysis calls free
has zero in every block (`AnalysisFacts`, `FreePublished`, `FreeListed`), what
`resolveModelEvidence` finds matches in provider and API (`ResolvedFacts`,
`PublishedFree`), so what a merge writes is backed for a model that was listed
(`ListedPrice`, `ListedBacked`) and one that was not (`OmittedBacked`), and so is
what `Commit` stores (`CommitStep`).

`PlansAreReported` adds the planner: `planRoute` picks the first of the eligible
candidates, by a score and then by identifier. That there is a first one is not for
free where candidates are a set: it needs that there are finitely many models, that
identifiers differ and that scores are integers, and it is proved from the
well-foundedness of the subsets of a finite set (`FirstExists`). `BindingsNameRoutes`
needs that the connection of a provider is always computed from the discovered models
of the catalog that is stored with it (`ConnectionsInv`), and that a revision names
the routes it was made of (`RevisionNamesRoutes`).

The constants of these modules are data, so their assumptions say what the data look
like: `ReportsAssumption` that rates are numbers and that only a listing nests the
rates of a cache, `CuratedAssumption` that the bundled catalog passes the program's
own validation and carries neither prices nor API identities, `NoneIsNoReport` that the mark for
"nothing" is neither a listing nor a snapshot. TLC was given `CatalogInv` and
`ConnectionsInv` as invariants of `catalog` before they were proved.

Only model-checked: liveness (`DeadOwnerReclaimed`, `RefreshEnds`, `ChecksEnd`),
which the prover does not reach, and `MutualExclusion`, `HeldIsRecorded` and
`ImplementsMutex` when holders die, which hold for the three callers of
`lock_crash` and not for more. Every other property of a passing run
is a theorem; those with premises are theorems under these premises.

## 5. Disagreements

Two runs end in a violation of something the repository says of itself.

* `lock_leftover`. The caller that made the directory and then sees a live fence
  gives the directory up by path (`state-lock.js:44`), without checking that it
  is still its own. If meanwhile the recoverer has removed it and a third caller
  has made and published it anew, a live owner's lock is deleted, and two
  operations run under the lock that "cooperating readers and writers share".
  It takes a directory without a valid record and three live callers.
* `store_torn`. The catalog with a fresh endpoint is renamed into place before
  the connections that invalidate the bindings (`service.js:405` and `431`). A
  crash in between leaves files from which every reader pairs the new endpoint
  with the old binding, although "a freshly observed endpoint change still
  invalidates saved bindings", until the next refresh completes.

Others were met while modelling, and no run is spent on them:

* The comment at `state-lock.js:96` says that a live publisher "remains protected
  throughout". A publisher that stalls for more than 10 s between `readdir` and
  `stat` of a recoverer that saw no temporary yet may lose its directory;
  `MayStall` brings this about, which is why `lock_crash` excludes it.
* The limit of repairs is checked before, and the repair counted after, the await
  of the inventory (`plugin-runtime.js:872`, `890`): two calls of one router
  message may both pass, where `README.md:24` says "at most one repair pass".
  `RepairsFollowReviews` without its premise shows it with `parallel` and four
  calls. A router that waits for its task calls never does this
  (`WaitingFollowsLoop`). In the same await a background worker may replace
  `workflow.worker`, and the grant then repairs the older assignment (the same
  property, with `background` and four calls).
* A config that is saved between atomicWrite's comparison with the snapshot and its
  rename (`installer/index.js:1640-1642`) is overwritten, and is in no backup;
  `docs/architecture.md:102` says "if the config changed elsewhere, it stops
  instead of overwriting it". `MayRace` admits it, and `UserEditsSurvive` is then
  violated.
* The receipt is read before the config and outside the lock (`index.js:488`), and
  only the config is compared again (`605`). An update that was planned with a
  receipt which another process replaced between the two reads writes one without
  the default agent that is in the config, and Disconnect later leaves it behind;
  `docs/threat-model.md:40` lists "lost ownership state" among what lock and
  recheck prevent. `OwnershipIsRecorded` says so in its premise (`failed`).
* With a receipt, an update does not look into a plugin array that it owns an entry
  of (`firstNewDesiredCollision`), so it claims an entry of the user's that equals
  the new version's, and Disconnect removes it; `test/installer/installer.test.js:527`
  requires the contrary of a first install. `Other` with a version in it admits
  this, and `UserEditsSurvive` is then violated.
* A lock file that a process leaves behind is never recovered: every later
  transaction is refused until the user removes it (`RemoveLock`).
* A route planned in the panel's process between the assignments of the new
  catalog and of the new connections (`service.js:405`, `436`, with awaits
  between them) reads one of each.
* A click on "Update available models" joins a refresh of the timer that is
  already under way, which discovers without `--refresh`
  (`service.js:326`, `359`; `docs/architecture.md:35` says the action adds it).
* When a task resumes a child session in the background, and the child's new
  message has not been routed yet, the acknowledgement finds the completion of
  the child's *previous* message and counts as completion
  (`plugin-runtime.js:906`; `docs/threat-model.md:74` says "background
  acknowledgment alone cannot authorize it"). `resume` admits such
  calls; the premise `Alone` of `ReviewIsReal` excludes them.
* A foreign message to a child, or a second parallel call to it, that comes between
  the reply of a call and its acknowledgement takes the child's route, and
  `completeChild` records that other, unfinished message as the call's work
  (`plugin-runtime.js:905`). `Alone` excludes both.
* Of two parallel calls to one child, the first message of the child takes the
  grant, whichever call it belongs to (`plugin-runtime.js:815-818`).
* A completion that is told after the session's next message, or after the session was
  deleted, is dropped without a counter (`plugin-runtime.js:535-536`). The message's
  pending row then still marks the record as partial, but a message has one such row
  for all of its steps (`usage-attribution-store.js:181`). If the completion of an
  earlier step is told after the later one's dispatch, it takes the row, and the later
  step, told too late or never, is missing from a record that calls itself complete,
  where `README.md:148` says that captured usage "reports partial coverage".
  `CompleteMeansRecorded` excepts these steps and no others; without its
  `n > settled[m]` TLC finds such a record.
* What is dropped after a queue was closed is not saved; no document promises it.
* A model of the bundled catalog whose last listing had no media, or no modality at
  all, gets its bundled roles back when a later discovery omits it
  (`opencode-cli.js:350-360`), but not its modalities. The merged catalog is then
  invalid (`core/catalog.js:170`), the store refuses it as a whole
  (`catalog-store.js:47`), and every refresh fails until the model is listed again,
  while it stays available. `README.md:117` says "complete discovery can mark an
  absent model unavailable". The listing without media in `catalog` leads there.
* A model that was reported as paid and is omitted by a later incomplete discovery
  is classified free if a new public record says so (`opencode-cli.js:326-339`):
  its listing is no evidence any more. `FreeIsEarned` counts as contradicted only
  what the listing said of a price that was free at the time.
* A runtime check appends to the history that its process has in memory
  (`service.js:698`): what another process has saved since is overwritten. A
  result whose rename succeeded and whose `chmod` failed is reported unsaved, is in
  the file, and is dropped by the next append. A history that could not be read is
  overwritten by the next check, although the warning asks to remove it first.
  `ResultsStay` says so in its premise (`blind`).
* Settings and catalog accept model identifiers with `@` and `~`, which the history
  of runtime checks refuses (`MODEL_ID_PATTERN` in
  `runtime-qualification-store.js`): a check of such a model sends its request to
  the provider, and then reports that its result could not be saved (`Odd`).
* A migrated list `enabledModels` disables the models of the catalog at that time
  only; new ones are included later, as `autoIncludeNewModels` is set. `README.md:188`
  speaks of schema version 3 where the code writes version 4.
* Answers are ordered in the editor by when they were asked for. Two polls that
  the server serves in the other order may show an older state for a moment;
  `ReadYourWrites` says what does hold.

## 6. What is not modelled

* Rendering, formatting, request parsing, the launch of processes and browsers,
  the usage report, the benchmark summary, the task classifier and the config
  fragment: no state, or pure projections. Acceptance and packaging scripts.
* In the lock: reuse of process ids, and errors of the file system other than
  those the protocol relies on.
* In the store: quotas and entitlements, which nothing reports; several providers
  (they are in `CatalogRefresh`); how a billing declaration is saved.
* In the plugin: media turns, slash commands.
* In the attribution: the salt, the byte limit, the forgetting of queues after
  the thousandth.
* In the connector: the status report, empty containers, file modes, the processes
  that verify a plan, and the formatting of JSONC.
* In the editor: the tab's other panels, and the connection revision, which
  `ControlStore` checks on the side of the server.
* In discovery and evidence: the text of listings and publications, size limits,
  aliases of models, labels and limits of an entry. An answer of models.dev that is
  stamped within its time limit of 8 s is stamped at once (`Tick`).
* In the settings: the grammar of identifiers, billing declarations in older
  documents, custom preferences beyond those that have a field here.
* In runtime checks: the isolated environment, and the text of events.

Every hazard that this leaves without a property is in `PROJECT.json` with its
line and the reason.

## 7. Plan

Done: all modules of section 2 and the proofs of section 4. In order of
importance, what is left:

1. `SpecialistWorkflow`: media turns and slash commands, which set and drop the
   router's state through the same hooks.
2. `ControlStore`: several providers with billing declarations that are dropped
   when their binding changes, and a process's in-memory copies.
3. `ConfigInstaller`: the status report, and the containers it leaves empty.
