# appcrane, modelled in TLA+

appcrane is a self-hosted platform: one Node process (`server/`) that builds and
runs apps as docker containers in two environments each, with a SQLite database,
release directories under `data/`, Caddy in front, agents ("Studio", "Builder") that
edit the apps' code, and a directory (SCIM) that says who may use what. This
directory holds TLA+ models of the parts of the server that keep state which more
than one actor changes, the TLC runs that check them on small instances, and TLAPS
proofs about all ten of them for instances of any size.

The server is one event loop. Code between two `await`s (or two callbacks) runs
undisturbed, so in every module **one action is the code from one await to the
next**, and what interleaves are the HTTP requests, timers and background runs.
Where a handler blocks the loop with a child process (`execFileSync`) it is cut again
only where a crash in between is seen. Containers, files and rows survive a crash of
the process; its memory does not. After a crash of the host the containers do not
come back by themselves (`--restart=on-failure:2`).

## Components

| component | state | operations | what is hard | module |
|---|---|---|---|---|
| Deployment lane (`deployer.js`, the routes that call it) | `deployments` rows, release directories, `current`, container | deploy (guarded, unguarded, upload), rollback, promote, prune, boot sweep, auto-heal | runs of one app interleave; steps fail after earlier ones took effect; a build that hangs | `Deploy`, `DeployLease` |
| Email queue (`emailQueue.js`) | `email_queue` rows, batches in memory | enqueue, tick, retry, dead-letter, boot reset | ticks overlap; stale attempt counts; crash after a send | `EmailQueue` |
| Builder (`builder/*`) | `coder_sessions` rows, session states, one container and workspace per app, a queue | create, resume, dispatch, stop, delete, ship, evict, idle sweep, boot recovery | check-then-await; eviction under a turn; a queue that must keep moving | `Builder` |
| Host ports (`tcpIngress.js`, `docker.js`) | `apps` columns, `app_host_ports`, ports of containers | pin, re-pin, flip, release, release after recreate | the publish flag is read before `docker run` and acted upon after it | `HostPorts` |
| AppStudio worker (`appstudio/worker.js`, its routes, the GitHub poller) | `enhancement_requests`, `enhancement_jobs`, coding containers | plan, approve, reject, retry, recode, claim, code, build, open PR, orphan recovery | crash between effects; stale plans; jobs nobody awaits | `Studio` |
| Accesses (`scimGroupAccess.js`, `scim.js`, `users.js`, `apps.js`, `appDefinedRoles.js`) | memberships, tiers, groups, the reconciler's ledger | group requests, hand edits, deletions, owner backfill | a revocation must undo what a grant did and nothing else | `Access` |
| Health checker (`healthChecker.js`, `routes/health.js`) | `health_state` row, timer | check, restart, manual test, settings | checks overlap; a manual test writes the same row | `Health` |
| Managed databases (`managedDb.js`, its routes) | two tables, the engine's container, password and data directory, roles and databases in it | ensureServer, provision, deprovision, app delete | row, role and database are three systems; requests overlap | `ManagedDb` |
| Self-update and boot (`index.js`, `db.js`, `updateSnapshot.js`, `safe-boot.sh`, the unit) | checkout, node_modules, migrations, snapshots, the pending record | update, restart, boot, migrate, rollback | crash at any step, in whichever release | `SelfUpdate` |
| Cron scheduler (`cronScheduler.js`) | `app_cron_jobs`, in-memory mutex, exec clients | tick, manual trigger, sync from the manifest | tick against trigger against sync against deployment | `Cron` |
| App rename, backups, metrics, scans, credential checks, disk quotas, memory accounting, Caddy text, Dockerfile generation, routes, MCP tools, frontend, CLI | see `PROJECT.json` | | sequential, textual, reporting, or outside the server | not modelled |

They meet as follows. Routes, webhooks, the rename, the studio worker and the boot
code start deployments of the lane. Builder turns and the worker's coding jobs go
through the Builder's queue. Deployments pin ports, sync cron rows and replace the
container that health checks, cron jobs and databases' clients use. The boot sequence
runs every recovery. All of them enqueue mail. What makes each of them correct:

* lane: a row says truthfully what became of its run; a published release stays
  published and on disk while it is current; the guard admits one deployment at a
  time but can never be wedged;
* email: every message settles, none is given up early, the budget holds;
* builder: work on one app is serialised, and the queue moves on;
* host ports: a port a container answers on is never given to another app;
* studio: every request comes back to a person, and a job is worked on once;
* accesses: leaving the last group undoes what joining did, and nothing else;
* health: a sick container is restarted once, on evidence;
* databases: row, role and database exist together, and the server can get in;
* self-update: what is served has its schema, a success is one, there is a way back;
* cron: one run per job, results on their own row, no job forgotten.

The models are kept per component. Where two components meet, each has the other's
effect as a choice: the studio's awaited deployment ends or fails, a container under
Cron or HostPorts may be replaced or vanish at any time.

## Modules

**`DeployLease`** is the abstract promise of the deploy guard: an exclusive lease that
may be taken over only from holders whose time has run out. Nothing of deployments.

**`Deploy`** is the lane of one app and environment.

| variable | code |
|---|---|
| `count`, `status`, `path` | rows of `deployments`, `release_path` / `image_ref` |
| `fresh` | `started_at` is younger than `STALE_DEPLOY_SECONDS` (half an hour) |
| `guarded` | rows inserted behind `assertNoInflightDeploy` |
| `pc`, `art`, `prev` | where the `deployApp()` run of a row is, its `releaseDir` / image, the image it would revert to |
| `made`, `uploads`, `extracting`, `disk`, `current` | release directories (or pulled images), those named `upload`, those being unpacked, those that exist, the symlink |
| `ctr` | what the container runs |
| `up` | the server process lives |

`deployApp()` is cut at its awaits: `Begin...` (clone, pull, given directory,
replay of the newest upload), `Prepare`, `Build`, `Inspect`, `Stop`, `Clear`, `Run`,
then `Publish`, `Reject` or `Unhealthy` with `RevertStop`, `RevertClear`,
`RevertRun`, and `Finish`; `Fail` is the catch block. `appendLog` is in every one of
them, because each log line rewrites the row's status. Callers are `GuardedDeploy`,
`UnguardedDeploy` (webhook, rename, bulk, studio), `ExtractUpload`/`DeployUpload`,
`rollbackApp`, `promoteApp`, and `BootHeals`. `Swept` is the boot sweep. A `Crash`
takes the server, or the host and the container with it.

**`EmailQueue`** is the queue of one app: rows (`status`, `attempts`, `due`,
`recent`) and the ticks under way (`at`, `now`, `hand`, `seen`). `tick` reads a
batch; `Proceed` is the loop that marks the next row and calls the transport;
`Accepted`, `Retry`, `deadLetter`, `Alerted` are the continuations.
`tries` is not in the code: it counts transport calls.

**`Builder`** is the Builder of one app: rows (`row`, `owner`, a user being named by
their first session, and `placed`), the `sessions`
map (`mem`, and per session state `status`, `queued`, `runner`, `of`), the container
entry (`ready`, `busy`, `alive`, `ws`) and its creation in flight, and the queue
(`items`, `running`, `pending`, `turn`, `improving`). A resumed session gets a new
state object while an old turn still holds the old one; that is why states are
numbered apart from sessions. `inside` records the turns that work in the container
of the present entry.

**`HostPorts`** is the columns (`type`, `dataPlane`, `col`), the registry (`owner`,
`draining`) and the containers (`live`, `bound`) of every app and environment. A
request (`SetRow`, `Publish`, `StopPublishing`, `McpStopPublishing`, `CreateApp`) is
one step with its checks and its transaction (see Not modelled); `Registry` and the operators on it (`AssignsTo`,
`Dropped`, `Freed`, `Recreated`) are the allocator's functions. `startApp()` is cut
into `PublishTarget` (the flag is computed), `StartRuns`, `StartBinds` and
`StartReturns` (draining ports released). Deleting an app stops containers and
drops rows in two steps. `since` is history: which of three loosening changes came
between reading the flag and binding it.

**`Studio`** is the change requests (`status`, `auto`, `plan`, `branch`), the job rows
(`job`), where the handler of each job is (`at`), the coding containers (`ctr`) and
what the last boot `spared`. Requests of users are one step each, handlers are cut at
their awaits (`PlanDone`, `CodeStarts`, `Pushed`, `BuildDone`, `PrOpened`, `PrMerged`, `Released`),
`FirstStage` is what a handler reads before the first of them, `Crash` loses the handlers
and keeps rows and containers, `Boot` is `recoverOrphanedJobs`, whose `docker ps` may fail
and then finds no container, and `Poll` the GitHub poller. Containers are named after
jobs, so a job that was queued again while its own still runs cannot start another. `rogue` and `excused` are history.

**`Access`** is the tables of accesses: a request is one step, since better-sqlite3 is
synchronous and none of these handlers awaits between its writes. A group request ends
in `Settled`: the reconciler runs, or the server dies between the transaction of the
groups and the reconciler's, which leaves the ledger `behind`; no other request
reconciles. `member` and `tierBy` say who
wrote a row, which the tables do not; `held` is the roles an app defined.

**`Health`** is one `health_configs` row, the interval that closed over it (`timer`),
the `health_state` row (`fails`, `isDown`), the checks under way (`checkAt`) and the manual
test. The probe is an await with any `Answer` the app may give then; reading and
writing the row is one step after it, `Restarted` the await behind that. `missed` and
`restarts` are history.

**`ManagedDb`** is one engine: both tables, the container (`box`, `boxPw`, `cred`), the
data directory (`volume`), what is inside (`roles`, `dbs`) and the requests under
way. `ensureServer` is `Inspect`, `Start`, `Remove`, `Run`, `Ready`; provisioning is
`Look`, `MakeRole`, `MakeDatabase`, `MakeSchema` and `Rollback`, dropping `DropDatabase` and
`DropRole`. Every docker or SQL step may fail. `stained` marks the apps whose
requests overlapped, whose drop failed or that a crash cut off.

**`SelfUpdate`** follows an update from the request (`Capture`, `Fetch`, `Reset`, `Install`,
`WriteRecord`, `Exit`) through systemd and the wrapper (`Start`, `attempt_rollback`) to
the boot (`OpenDb`, `Migrate`, `MigrationFails`, `ComeUp`). systemd starts the unit
again without end (see Observations). A release is its place in the history of
origin/main and has a number of migrations (`Ships`), of which some fail (`Bad`) or run
outside a transaction (`NoTx`); `Modern` releases need a newer Node. A migration outside
a transaction writes its SQL and its row in two steps, `proc` being "recording" between them;
`DiesInFile` leaves its file half run (`torn`), after which it fails for ever, and the
ones in `Once` fail over their own finished SQL as well. `base` and `opened` are history: what was applied when a
release last came up, and how many boots took a snapshot since.

**`Cron`** is the jobs of one app and environment by name (`row`), the mutexes
(`running`), the `docker exec` clients (`execs`) and what is `left` in the container when
a client is killed. Time is a cycle of minutes, a schedule the minutes it matches; a
minute may pass without a tick, as an interval drifts.

The `...Proofs` modules hold the theorems (see Proofs): one for each component, and
`LoopProofs` for the three loops on timers, `EmailQueue`, `Cron` and `Health`; the last
two prefix the names that another of the three has (`CronSpec`, `HealthNext`).
The `MC...` modules only extend a specification; a `.cfg` gives the bounds. The
definitions that a comment calls "Faulty" or "Mutant" are plausible bugs: `PROJECT.json`
names the definition each replaces and the property that then fails.

## Runs

| run | bounds | shows |
|---|---|---|
| `deploy_lane` | git, upload and image; 2 deployments, 3 trees, keep 1 | rows with a build have a process; published rows stay; the live release survives prune and failure; prune keeps the newest; the guard implements `DeployLease` and opens again and again |
| `builder` | 2 users, 2 sessions, 2 states in memory, 1 improve job | one turn or improve job at a time; a session in memory has its container; the idle sweep spares running turns; an active row has its turn; every dispatched turn is served |
| `email_queue` | 3 messages, 2 ticks, batch 2, 2 attempts, 1 crash | no lost message, no early dead letter, budget, every message settles |
| `ports` | the two environments of an app, 3 host ports, one to allocate, one reserved | columns and registry agree; a change is whole; a bound port stays reserved |
| `studio` | 2 requests, 8 jobs, 2 planners, 3 asks of users, 1 crash | running jobs have handlers and keep them; requests at work have jobs, reviews have plans; every request comes back to a person |
| `access` | 1 app, 2 tiers, 2 users and a group or 1 user and 2 groups, no bound on steps and crashes | the ledger is what the groups want, again after a crash; leaving undoes joining; tiers need members; hand-made rows stay |
| `health` | 2 checks at once, 5 settings, 2 restarts of the server | one restart per row of failures; no verdict without evidence; the row settles on what the app does |
| `managed_db` | 2 apps, 2 requests at once, 2 rows, 1 crash | the password stays the data directory's; one request at a time leaves all or nothing |
| `self_update` | 2 requests, 3 releases, 5 migrations, keep 2, 2 crashes | the schema served; true success; the restore point; releases in order come up; verdicts come |
| `cron` | 1 name, 3 rows, a cycle of 3 minutes, 2 crashes | one run per job; results on their own row; no enabled job is forgotten |
| `deploy_failure`, `self_update_rollback` | smallest that show it | see Findings |

Why the bounds are enough.

* Lane: a conflict is between two runs. The prune distinguishes the live release
  inside and outside the newest `Keep`, which three trees and `Keep` = 1 give (the code
  keeps 5; the proof of `CurrentNeverDeleted` is for any number).
* Email: a stale count needs one row being sent, one behind it in the older tick's
  hand, and a younger tick; the third message makes a batch of two overflow.
* Builder: two sessions give both an own and a foreign second session.
* Ports: two lanes compete, and a re-pin needs an old and a new number. A sandbox
  re-pin of a running app that also takes a data plane port would need a third usable
  one; the proof covers it.
* Studio: a push makes *other* requests' plans stale, hence two requests; a third ask
  lets a user reject and retry while a handler runs.
* Access: two groups are needed for "another group still grants it", two users for
  "the last owner"; nothing needs both, as pairs meet only in the owners of an app, and
  groups only in what one pair is offered. `Crowd` bounds users and groups at once; the
  theorems hold without it.
* Health: overlap is two checks; the counts stop at a cap above every threshold. One
  setting has both thresholds at 0, which nothing refuses.
* Databases: two requests overlap or they do not; a retry is the second row.
* Self-update: three releases with one, three and five migrations, the second to fourth of
  which run outside a transaction, the third not twice, while the last one fails. `Keep` is
  2 for 5: what matters is that failing boots can outnumber the snapshots kept.
* Cron: the name is dropped and comes back, twice; schedules have one minute, two, or
  do not parse.

Deadlock checking is off where the bounded deployments, messages or jobs may be used
up; `ports` and `access` can always go on and are checked for it.

Configurations that are not runs. Counterexamples to what a comment or document of the
code says (see Observations): `MCDeployCurrent`, `MCDeployReplay`, `MCDeploySuperseded`,
`MCBuilderStop`, `MCBuilderEvict`, `MCBuilderTakeover`, `MCEmailSent`, `MCHostPortsBound`,
`MCAccessTier`, `MCAccessRestored`, `MCHealthRestart`, `MCStudioReview`, `MCManagedDbRetry`,
`MCSelfUpdateRestore`, `MCSelfUpdateBackTo`, `MCSelfUpdateRerun`, `MCCronOverlap`.

## Fairness

| module | assumed | why the code justifies it |
|---|---|---|
| `Deploy` | time passes (`Age`), systemd restarts the server (`Boot`) | nothing is assumed of a run: a docker build has no timeout, so it may stop anywhere |
| `EmailQueue` | the timer fires, sends end, backoffs elapse, the server restarts | the transports have timeouts; crashes are finitely many |
| `Builder` | a scheduled `drain` runs; agents start, and end | their default timeout is half an hour; a turn that was *stopped* is excused. Improve jobs are finitely many: they overtake turns, and an endless stream of them starves every turn |
| `Studio` | the worker's interval claims, handlers end, the server restarts | agents and GitHub calls have timeouts; that the awaited deployment and the app's queue end is an assumption (`Deploy` and `MCBuilderStop` show that they need not) |
| `Health` | the interval fires, probes and restarts end | both have timeouts |
| `SelfUpdate` | the boot goes on; npm ends; the exit comes | `Install` has a timeout. The exit is a timer: npm, which blocks the event loop, may delay it again and again, but the timer is first in line when the loop comes to it (strong fairness). A boot goes on and a failed one is followed by another: the unit is `Restart=always`, and nothing of it stops the loop |
| `Cron` | time passes, the server restarts, every exec ends, ticks come | every exec has a timeout; the drift of the interval does not skip the same minute of the cycle for ever (strong fairness per minute) |

## Findings

Each is a run that is expected to fail, on a property that quotes the code.

* `deploy_failure`: when `docker run` fails, the old container is already gone and
  is not brought back; only a failed health probe reverts, although the comment says
  that a bad promote can't take production down (`deployer.js:618-620`).
* `self_update_rollback`: a release whose migration fails is never gone back from. The
  wrapper reads `$DATA_DIR/.self-update/self-update-pending.json` (`safe-boot.sh:47`) and
  the server writes `$DATA_DIR/self-update-pending.json` (`index.js:529-531`); the rollback
  inside the process waits for an error of `getDb()` that `initDb()`, called when the
  modules load, throws before (`index.js:79`). The release is started again every few
  seconds for ever, although `install.sh:344-345` says the wrapper resets to the previous
  SHA.

## Proofs

`PROJECT.json` lists the theorems to know. Each component's proofs
depend on the constants only through the model's named assumption (that
bounds are naturals, that "none" values are no members, that releases only add
migrations). Each states an inductive invariant: `TypeOK`, the properties of the run, and
what these need to survive every step; TLC checked each of them on the run's instance
before its proof was begun. `TypeOK` of every component is proved and
therefore not in the runs.

* `DeployProofs`. `LaneOK`: the guard reads one row, the newest in flight, and trusts
  that a stale one means all are stale: that is `FreshnessFollowsId`. It reads statuses
  which log lines, failures, reclaims and the boot rewrite: `WorkingIsVisible` says a
  working run is still seen by the guard or is late. `GuardIsLease` is the refinement:
  with `Holders` (working, guarded) and `Expired` (not fresh), every step is one of
  `DeployLease` or stutters: `AcquireStep` is the guard, `AgeStep` time, `CrashStep` and
  `ReleaseStep` the ends of runs. `OneFreshDeployCorrect` follows from the lease's own
  invariant. `CurrentStaysOnDisk` holds for any `Keep`, 0 included. `PruneCorrect` rests on a
  lemma about `pruneOldReleases` alone, `PruneLeavesNewer`: if `Keep` releases are newer
  than r, a prune leaves `Keep` that are. Were there fewer, the newest release it took
  away would have only those above it, fewer than `Keep`, and would have stayed. So a
  second prune (a run that fails prunes twice) cannot undercut the first.
* `BuilderProofs`. `OneAtATime` is `Serial`: `running` holds one item, and a turn or an
  improve job is in progress exactly when it is that item. `OneTurnEach` says why a turn
  is not started twice: a state waits in the queue once or runs, and `HasTurn` sees both.
  `BusyWhileRunning` needs the two: the end or the stop of a turn clears the flag of
  whatever container is there, which is right because no other turn can be inside.
  `MemHasContainer` and `InsideHasEntry` tie the sessions in memory, the creation in
  flight and the turns inside to the one entry. `ActiveRowHasTurn` needs `ActiveRowKnown`
  (an active row has its state in memory, or a turn in progress that will write the
  row) and `OwnState`, since dispatch and the turn's end write the row of `of[o]`.
  `Fits` bounds the queue by the states that wait, which its type needs.
* `LoopProofs`, email. `NotGivenUpEarly` compares counts that ticks write back late:
  `Tried` bounds the count any tick has in hand by the calls made and the sends still
  to come, and `Placed` says where each row of a batch is.
* `LoopProofs`, cron. Mutexes go by name, results by row id, and a sync
  drops and inserts rows under both. `OneNamePerId` says that no two rows
  share an id and that whatever runs, or is about to, with a row's id has the row's name:
  so `MutexTheorem` (`OneRunPerJob`) and `ResultTheorem` (`ResultIsOwn`) survive `SyncStep`.
* `LoopProofs`, health. `CountAgrees` (the row's count is the number
  of failures since the last healthy result), `TimerSet`, `PastThreshold` (after a
  restart was ordered the count is at the threshold or past it, so that `===` does not
  hold again).
* `HostPortsProofs`. The lemmas on the allocator (`AssignsTo`, `Dropped`, `Recreated` keep
  the registry a function of the columns) come first; `RunMatchesRow` ties a start under
  way to the row it read, up to the changes recorded in `since`. `NoClashTheorem` (no
  `docker run` meets another container on its port) follows from `BoundIsReserved` and is
  only proved; so is `NothingLeftTheorem`.
* `StudioProofs`. `BusyRuns` (a handler's row was claimed), `DownIsIdle`, and
  `WorkingHasQueue`, a stronger `WorkingHasJob`: a
  handler past the merge does not count, as it ends without another look at the request.
* `AccessProofs`. `Flags`: for each pair, what the ledger's flags say was made, the rows'
  writers say too. This is what makes a revocation exact. The reconciler's lemma
  (`ReconcileKeeps`) does not assume that the ledger agreed with the groups before, so
  one whole request is enough after any number of crashes (`RequestKeeps`).
* `ManagedDbProofs`. `Passwords`: whoever holds a superuser password holds the data
  directory's. `Jobs` and `AppInv`: what an app that is not `stained` has, at each place
  of its one request.
* `SelfUpdateProofs`. `TreeFollows` (the tree only follows origin/main, and a booting
  process runs what it holds), `OneAhead` (the SQL is at most one migration ahead of the
  rows, and a file torn in its middle is the next one's), `BaseIsNear` (the restore point is no deeper than the boots that failed since).

Every safety invariant and action property of the passing runs is thus proved, and the
refinement of `DeployLease`.

Only model-checked: all liveness (`NeverWedged`, `TurnsAreServed`, `EveryMailSettles`,
`RequestsSettle`, `StateSettles`, `SoundReleaseComesUp`, `VerdictComes`, `JobsKeepRunning`), which needs
ENABLED and is out of the prover's reach. The two findings are counterexamples.

## Observations

What the models and the reading for them showed beside the findings.

Lane. `current` moves before a promotion or rollback runs, so after its failure it stays
on a release that never served (`deployer.js:772` against 1823-1824; `MCDeployCurrent`). A
redeploy of an upload app replays the newest upload, not the release that runs (1114
against 1099; `MCDeployReplay`). A reclaimed run that was slow and not dead publishes over
its successor (861 against 204; `MCDeploySuperseded`). A restart request
(`routes/deploy.js:213`) that overlaps a deployment undoes it.

Email. A tick that overlaps an older one sends rows the older one still has in hand,
and the older one sends them again (`emailQueue.js:290` against `060:24-26`; `MCEmailSent`).

Builder. Stopping a turn leaves the app's queue blocked until the server restarts
(`builderSession.js:487` against `appQueue.js:114`; `MCBuilderStop`). A turn that ends after an
eviction leaves its session idle but unusable (464; `MCBuilderEvict`). Two users get
interactive sessions of one app (244 against 154; `MCBuilderTakeover`). A `queued`
session survives a restart as `queued` for ever (143). An eviction during a creation leaves
a container on an empty workspace (`appContainer.js:229`).

Host ports. Three kinds of change give a number back while a container
still answers on it (`tcpIngress.js:539` against 304; `MCHostPortsBound`; the comment of
`Touch` names them). `getNextSlot` never looks at pinned ports nor at the server's own:
slot 501 is port 5001, and slot s + 500 has the frontend port of slot s's backend.

Studio. An approved plan may be replaced before it is coded (`README.md:68`:
"you review and approve"; `MCStudioReview`). Rejecting does not stop the running handler; a
retry of a failed plan job says `plan_approved` without a plan; deleting a queued job
strands its request; a job the boot spared is never finished.

Accesses. A group that changes its worth overwrites a tier a hand set
while it held the pair (`scimGroupAccess.js:78` against 21; `MCAccessTier`); roles the app granted come back with the
membership (64 against `appDefinedRoles.js:205`; `MCAccessRestored`). The owner backfill
promotes a removed creator at the next start. A crash between a group request's
transaction and the reconciler's (`scim.js:735` and 737, 792 and 794, 965 and 967, 987 and
988, 1111 and 1113) leaves who lost a group with its access: nothing reconciles when the
server starts, and only the next group request does. The last-owner guard is passed by by
assigning users, by the MCP tool, by a group's revocation, by deleting the user.

Health. A manual test counts failures without ordering a restart, and carries the
count past the threshold that the checker compares with `===`
(`routes/health.js:98-101`, `healthChecker.js:337`; `MCHealthRestart`). Changed settings have no
effect until a restart: nothing on that route calls `refreshAppChecks`. A crash between
`is_down` and its notice loses the notice.

Databases. The rollback of a failed request gives up the row a retry has taken over
(`managedDb.js:740` against `mcpTools.js:4472`; `MCManagedDbRetry`). A crash after the INSERT leaves
a row without a database for ever. Provisioning that races the deletion of the app
leaves a database nobody owns (`apps.js:1539`).

Self-update. Nothing stops a release that cannot boot from being started for ever. The
unit has `StartLimitIntervalSec=300` under `[Service]` (`install.sh:370`), where systemd
does not read it, so that the limit is ten starts within the default ten seconds, which
`RestartSec=3` never meets; `install.sh:363-369` ("should stop and stay stopped"),
`index.js:1328-1329` and `test/native-abi-reconcile.test.js:80` ("systemd stops a hopeless
crash loop") count on it, and that test looks for the two lines and not for their section.
(With the key in `[Unit]` a boot that takes half a minute to fail would still never be
the tenth in 300 seconds.) Snapshots of failed boots push out the one from before the update
(`updateSnapshot.js:15-17`; `MCSelfUpdateRestore`), since five are kept;
`RestorePointKept` is the promise that remains. Migrations without a transaction should be
"safely re-runnable" (`db.js:108-109`); 046, 048, 052, 081, 083 and 086 create their
`..._new` table without IF NOT EXISTS, so a crash among their statements keeps every
release that has them from starting (`MCSelfUpdateRerun`). After a failed
`npm install` the retry records the new release as the one to go back to
(`index.js:681-685`; `MCSelfUpdateBackTo`). A crash between the reset and the record leaves a
new tree without a way back. Builds in flight are looked for before the wait for MCP
agents, up to five minutes, and not again (617 against 647).

Cron. A timeout or too much output kills the `docker exec` client and not the process,
and frees the mutex (`cronScheduler.js:15-16`; `MCCronOverlap`). `last_run_at` is the end of
a run: one that ends in a later due minute makes that minute's tick skip the job. The
sync precedes the container's replacement and stays when the deployment fails; a bad
schedule is a warning there, where `deployer.js:1241` says a hard error.

Not modelled code. The cap on GitHub MCP containers is checked before an await and can
be overshot, and two first calls of a user leak a container
(`githubMcpContainers.js:70` against 86). A rename starts one deployment per live row
(`appRename.js:122`).

## Not modelled

* Lane: the restart route; deployments from a workspace outside the releases
  directory; the content of manifests and logs; probes and timeouts as choices; an error
  of `rmSync` in the prune, which the code swallows; `pruneOldImages`, whose effect is
  that a revert's start may fail. Every image pull is a new artifact.
* Email: the content of messages, the recipient rule, deletion of an app.
* Builder: transcripts, costs, the Claude conversation id; the image build's detail;
  `cancel()`, which nothing calls. Killing a `docker exec` client is taken to end its agent.
* Host ports: slot arithmetic; a registry that disagreed with the columns beforehand. The
  checks of an ingress request and its transaction are one step although an `await
  import` lies between them (`mcpTools.js:2541`, 2563, 2575; before the checks at
  `apps.js:962`, after the row was read): the imported modules were loaded when the
  server started, so the await lets no other request in. The checks are not repeated in
  the transaction; should that await ever wait, `PublishingIsWhole` would rest on it.
* Studio: comments, costs, branch names; the awaited deployment is a choice.
* Accesses: SCIM filters and attributes, who may ask for what, tenants, policies.
* Health: what a probe measures, notices, a restart beside a deployment, settings that are
  no numbers.
* Databases: tenants, grants, statements that outlive their client.
* Self-update: native addons, the admin bundle, the refusals while builds or agents are at
  work, a snapshot that fails (the code goes on without one).
* Cron: the grammar of schedules.
* Everywhere: SQLite does not fail, and the disk is not full.
* Components: app rename, backups, metrics, scans, credential checks, disk quotas, memory
  accounting, the request mirror, Caddy and Dockerfile text, most routes and MCP tools
  (single-row edits), the frontend and the CLI. They are sequential, textual or
  reporting, and hold little that interleaving or failure could break.

## What could come next

1. The restart route and the health checker's restart as actions of `Deploy`.
2. `Deploy` and `HostPorts` as one model, so that overlapping starts of a lane meet the
   port registry.
3. The GitHub MCP container manager; the rename with the data directory it moves.
4. Slot arithmetic and memory accounting as operators over bounded inputs.
5. Abstract specifications that Builder's queue and Cron's mutexes implement, as
   `DeployLease` is for the deploy guard.
