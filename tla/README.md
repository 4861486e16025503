# CloudHelm verification

TLA+ models of CloudHelm, a fleet console that watches containers on many hosts,
replaces their images in a staged way and scales an ACS (Kubernetes) workload
beside them. The server (`src/cloudhelm`) is a FastAPI application on one
database with two background loops; an Agent (`src/cloudhelm_agent`) runs on
every host, reports inventory and metrics and executes one task at a time. The
model checker explores small instances; the proofs hold for every instance.

## 1. Inventory

### 1.1 Components, state, operations, interactions

| Component | Source | State | Operations | Talks to |
|---|---|---|---|---|
| Staged image release | `releases.py`, `routers/scaling.py` | `ScalingService.release_*`, `desired_image`, `previous_image`, `ImageReleaseStep`, `ServiceImageVersion` | start, roll back (previous / any version), one progress step per monitor tick, fail, complete | task queue, instances, Kubernetes |
| Business reports and routes | `routers/scaling.py` | `ServiceInstance.desired_state`, `monitored`, last report | report load, discovery, enter/exit maintenance, switch monitoring, delete instance | release, autoscaler, gateway |
| Agent task queue | `routers/agent.py`, `routers/api.py` | `Task` rows, `Container` rows | create action, heartbeat, next task (redelivery after 90 s), task result | Agent, release |
| Container replacement | `cloudhelm_agent/docker_runtime.py`, `compose_manager.py` | containers on the host, Compose file | update, prepare, restart/stop | Docker daemon |
| ACS autoscaler | `autoscaling.py` | replicas, `last_scaled_at`, drain marks, failover | evaluate a service each tick | Kubernetes, instances, release |
| Alerts and notifications | `alerts.py`, `routers/api.py` | `AlertRule`, `AlertRuleSeed`, `AlertState`, `AlertEvent` | evaluate, notify, retain, seed, edit and delete rules | heartbeats, loops |
| Sessions and sign-in | `routers/auth.py`, `dependencies.py`, `security.py` | OAuth states, sessions, users | start/finish OAuth, mini-program login, issue, revoke, cap | directory events |
| Directory events | `routers/wecom_events.py` | receipts, users' enabled flag | disable users, revoke sessions | sessions |
| Users and access rules | `access.py`, `routers/api.py` | users, versioned rules | change roles, replace rules | every endpoint |
| Node inventory | `routers/agent.py` | nodes, containers, labels | enroll, heartbeat, bind | all |
| Metric history | `metrics.py` | samples | throttled write, batched cleanup | heartbeats |
| Image references, schemas, config, audit, db, probes, UI | rest | none or I/O | parse, validate, migrate, draw | - |

`PROJECT.json` lists every component with its status.

### 1.2 What is hard

* **Several writers of one row.** `desired_state` is written by the release, by
  business reports, by operators and by the autoscaler, in separate
  transactions. The release reads it in one tick and relies on it in a later one.
* **Results that arrive late, twice or never.** A task is handed out again 90 s
  after its dispatch; the Agent may have executed it, be executing it, or have
  died. The container row it names may have been superseded by a heartbeat.
* **Half-done work.** A release stops after some instances were updated; an image
  update stops between two daemon calls, because the daemon refused, a call
  timed out or the Agent died; effects on the cluster precede the commit.
* **Waiting.** Every status of a release waits for somebody who may never answer.
* **Threads beside an event loop.** Synchronous endpoints run in threads, logins and
  monitors on the event loop of a process; what one reads, another may commit over
  before the first one writes. Only a row lock, a unique key or a compared version
  stands between them.
* **Retry.** What a failed release leaves behind (dispatched tasks, a guard
  Deployment, mixed images) is the start state of the next one.

The `hazards` list of `PROJECT.json` gives each of these at its source line, with the
properties that cover it, or the reason why none does.

### 1.3 What makes each component correct

* Release: one instance at a time; an instance is not routed while replaced; a step
  counts as completed only when the host runs the target; ACS moves last (all of this
  is the abstract `StagedRollout`); a sole
  instance is never taken out without a serving guard; the guard goes only after
  it drained; a release ends, and leaves no instance out of service.
* Task queue: at most one task can still change a container; every task gets a result.
* Container replacement: never two containers of a service running; the old
  container is given up only for a replacement that works; a failed update restores;
  over all deliveries the task is one atomic step (`AtomicUpdate`).
* Autoscaler: bounds on replicas, cooldown over crashes, drained before removed, no
  scaling in the middle of a release.
* Alerts: an event is earned by consecutive evaluations and, until an edit of the rule
  or a reset of the GPU baseline forgets the state, alternates with its opposite; at most one notification per event; states settle on what is measured;
  nothing outlives its rule; the table stays bounded.
* Sessions: no session from before a security change; one session per OAuth state;
  the cap holds.
* Accounts: an administrator remains; a directory event is carried out once.
* Access: delegation never leaves what an administrator gave; no lost update of a rule set.
* Metric history: the cleanup takes what is old or surplus, all of it and nothing else.

## 2. Plan

| Order | Module | Models | Proof module | State |
|---|---|---|---|---|
| 1 | `ImageRelease` | release, reports, maintenance, task queue as the release sees it | `ImageRelease_proofs`, `ImageReleaseStages_proofs` | done |
| 2 | `ContainerUpdate` | one update task on a host, daemon call by daemon call | `ContainerUpdate_proofs` | done |
| 3 | `Autoscaler` | `evaluate_service`, drains, failover, cooldown, reports, the cluster | `Autoscaler_proofs` | done |
| 4 | `StagedRollout` | abstract release, refined by `ImageRelease` | in `ImageReleaseStages_proofs` | done |
| 5 | `AtomicUpdate` | abstract update task, refined by `ContainerUpdate` | in `ContainerUpdate_proofs` | done |
| 6 | `Alerts` | rule edits, concurrent evaluators, notifications, retention, seeding | `Alerts_proofs` | done |
| 7 | `Accounts` | logins, sessions, accounts, directory events | `Accounts_proofs` | done |
| 8 | `Access` | rule sets, scopes, delegation, versions | `Access_proofs` | done |
| 9 | `MetricHistory` | throttled write, batched cleanup of several processes | `MetricHistory_proofs` | done |
| - | `AgentTasks` | several tasks of one node, row collisions, two Agent processes | - | left out, see section 6 |

How the modules compose:

* `ImageRelease.Execute` is `ContainerUpdate` seen from the server: the container has
  the target image and a new id, or nothing changed, and a second delivery of an
  applied update fails. `AtomicUpdate` is this contract, and `ImplementsAtomicUpdate`
  shows that the Agent keeps it, crashes excepted, as long as the faults are ones it
  undoes.
* `Autoscaler` and `ImageRelease` share `desired_state` and `release_status`; a running
  release is an input of each evaluation in `Autoscaler`, and the ACS workload is one
  value in `ImageRelease`.
* `Accounts` and `Access` share the account row. `Accounts` has who may sign in and who
  is an administrator, `Access` what the other accounts may do; a role change is in
  both, with the columns each is about. `access_version` is only in `Access`, because
  sessions do not depend on it.
* A heartbeat is a step of `ImageRelease` (rows), `Alerts` (evaluation) and
  `MetricHistory` (samples). They share one transaction in the code; a heartbeat that
  the alert tables refuse is one that does not take place in the other two.

Every safety and action property that a passing run checks, and both refinements, are
theorems now (section 5). What is left to prove are weaker hypotheses: per instance,
`OneEffectiveUpdate` seems to need nothing about monitoring (with one instance TLC finds
no violation), and `NotRoutedDuringUpdate` needs only that the instance under update is
not put back by hand.

## 3. Modules

### 3.1 `ImageRelease`

One module of CloudHelm with `N` local instances, each linked to one container on a
node with an Agent of its own, and the ACS workload beside them.

| In the model | In the code |
|---|---|
| `status`, `desiredImage`, `previousImage`, `versions`, `releaseTask`, `timedOut` | columns of `ScalingService`/`ImageRelease`; whether the release is past `image_release_timeout_seconds` |
| `step` | `ImageReleaseStep.status` |
| `acsImage`, `guard` | the workload template and the protection Deployment with its instance row |
| `desired`, `monitored`, `report`, `since` | `ServiceInstance`; `report` is the class of the last report (`ok` healthy, ready and accepting; `idle` not accepting and no business; `busy` else); `since` says whether it is younger than the last finished update |
| `row`, `image` | what the server knows: the container row is up, down or gone, and its image |
| `actual`, `replaced` | what the host really runs, and whether its id is unknown to the server |
| `task` | `Task` rows that are unfinished or referenced, with where the Agent is (`ph`), whether the row is still the instance's (`bound`) and whether its container still exists (`live`) |
| `byOperator` | history variable: an operator asked for the drain |

`Tick` is one call of `_progress_service` in one iteration of the monitor: it is one
transaction, so it is one step. Its disjuncts are the statuses; `Abort` is the way out
taken on a timeout, a disabled cluster or an exception, and is always possible because
each of these is. `EnsureReleaseGuard`, `WorkloadImage` and `DeleteReleaseGuard` act on
the cluster even when the transaction then fails. `Heartbeat`, `NextTask`, `Execute`,
`LoseResult` and `TaskResult` are the Agent's calls: the Agent is single threaded, so it
does not report while it executes. `CreateAction`, `EnterMaintenance`, `ExitMaintenance`
and `UpdateMonitoring` are the operator's.

Abstractions, each on the side of more behaviours:

* Clocks are replaced by the comparisons the code makes (`timedOut`, `since`,
  `guard.fresh`), which change at any time.
* The route condition `Discoverable` ignores that old reports expire, so that more
  instances count as routed than are.
* Whether a node is online is a free choice of the step that asks.
* Image references are values; equality after parsing is equality.
* Finished task rows that nothing refers to are forgotten, and so is a pending task
  that a stopped release expired (it was never handed out).
* A guard Deployment a failed release leaves behind is forgotten by the next release,
  which creates another one under its own id.
* `preparing_acs` is in the code's list of active statuses but nothing writes it;
  it is not in the model.
* Services do not share rows, so one service is modelled.

### 3.2 `ContainerUpdate`

`pc` is the daemon call `_update_image` is about to make. `box[0]` is the container the
task names, `box[k]` the one delivery `k` creates; `gone`, `stopped` or `running`, with
its name (0 is the service's name, `k` the backup name of delivery `k`) and image.
`me` holds the local variables. Each call succeeds, is *refused* (a `DockerException`:
nothing happened) or *times out* (an exception of the HTTP library, which `except
DockerException` does not catch; the daemon may have acted). `Crash` stops the Agent
between any two calls; `Report` may fail to reach the server, which then delivers again.
Each pair of call and kind of fault happens at most once in a behaviour. That a name in use is
refused is a fact about the daemon (`Taken`, marked external).

The timestamp in the backup name makes it unique; the model uses the delivery's number.
The payload of the create call, registry checks and image comparison are data.

### 3.3 `Autoscaler`

The ACS Deployment of one service. `Evaluate` is one call of `evaluate_service` in one
transaction; its disjuncts are the function's ways out: the holds that cancel drains,
the scale-up, the wait, the drain request, the scale-down, and the provider error.
`replicas`, `pod` and `marked` are the cluster (`spec.replicas`, the pods, the
`pod-deletion-cost` annotation); `shown`, `fresh` and `desired` the instance row;
`cooling` whether `last_scaled_at` lies within the cooldown; `app` and `told` the
application in the pod. The load window, failed local instances, a running release and
the service's switch are inputs of each evaluation, free to change between two of
them. `calm` says that from now on the load stays low and no fault occurs.

`CreatePod`, `DeletePod`, `PodGone` and the application are external: the controller
creates or deletes pods until their number is `replicas`, those with the lowest
deletion cost first, and the application obeys `desired_state` and gets business only
while discovery lists it (a gateway that keeps an old route is not modelled). The places in `Pod` are
reused once the row of a pod that is gone went stale.

`Faults` names what may go wrong: calls that are refused, calls that time out after
they took effect, a restart between a call and the commit, a controller slower than
the evaluations, a cooldown shorter than the removal of a pod, late reports. Without
the last three the timing is that of the defaults (15 s evaluations, 300 s cooldown).
`draining` and `maintenance` are one value: the autoscaler does not tell them apart.
The choice of the least busy candidate is any candidate; an evaluation and a report do
not overlap.

### 3.4 `Alerts`

`rule`, `version` and `seeded` are the `AlertRule` and `AlertRuleSeed` tables (with how
often a rule was written), `state` and `events` the `AlertState` and `AlertEvent` tables,
`tx` the transaction each evaluator has open, `sender` whether somebody waits for the
messaging service. An evaluation is not one step: `Begin` reads the rules, `Evaluate`
reads one state and computes, `Cleanup` applies retention, `Commit` writes the columns
that changed over whatever is in the row by then, or `Refused` is what the database
answers when a row it was to update is gone, a row it was to insert is there, or
its rule was deleted. In between administrators create, change and delete the rule, and
set the number of GPUs a node should have (`ResetBaseline`).

* A `Rule` stands for one metric; `level` is what is measured and changes at any time.
  How `_node_value` and `_container_value` compute a metric is data; what the evaluation
  tells apart is two values, at or beyond a threshold or not, and no value at all
  (`None`: no GPU status, no system metrics, no baseline). A target without a value is
  passed over and its state stays (`PassOver`); to the offline monitor a node that never
  reported is away for the longest time (`Value`).
* `Forget` is the deletion of `AlertState` rows. An edit, also one that changes nothing,
  and a deletion forget the states of the rule; `reset_gpu_baseline` forgets those of one
  target under the rules about missing GPUs (`baseline`), while the rules and their
  events stay. The history `past` of a forgotten state starts anew, so `EventsEarned` asks for
  alternation within one life of a state: after a reset a second "triggered"
  without a "recovered" between is what the code does.
* `epoch` stands for the primary key of a state row: a row created after one was
  forgotten is another row, and an update of the old one is refused. `life` counts how
  often the state of a pair was forgotten, which makes the keys differ.
* Heartbeats of any number of nodes are one evaluator, whose notifications form one
  queue; the monitors share the event loop of one process
  (`docs/fresh-deploy-postgresql-aliyun-1.0.1.md:51` asks for exactly one), so their
  transactions do not overlap with each other, only with a heartbeat.
* Events are in the order of their commits. The cleanup orders by `created_at`, which
  may tie: `MCAlerts` checks the two statements of the cleanup on every short
  sequence of times with ties (`SurplusCounts`).
* A default rule whose seeding was recorded is not added again (`Missing`).
* `past` is a history variable: what evaluations of the present definition, since the
  last reset, saw.
  `mixed` marks a state into which an evaluation of an older definition wrote.
* Who receives a message, acknowledging an event, and the test message are left out.

### 3.5 `Accounts`

`users`, `sessions`, `oauth` and `receipts` are the tables; `login`, `edit` and `loop`
the requests under way. A login is a coroutine. Its steps are what it does between two
awaits, and while it is between two statements it has the event loop of its process
(`loop`); a second process has its own. `update_user` runs in a thread: it authenticates,
checks, and commits, and others may commit in between. It holds the lock on the user
row from its flush to its commit, which a login needs too (`last_login_at`), so the
revocation of sessions and the change are one step. `current_auth` wants a session that
lives and an account that is active; sessions that are not revoked stay in `sessions`.

History variables mark what the properties excuse. `stale` marks sessions that
were there before a security change, or whose login was under way when the account
was disabled; `excused` says that the last administrator was removed by a directory event,
or by an update whose checks were overtaken by another removal: two administrators
who remove each other at once both pass the check (`NoLastCheck` is the mutant without
it). A `Restart` drops the requests and seeds the first administrator when no
account has that member; it is not possible when every place in `User` is taken.
Receipts, kept for 30 days in the code, are kept for ever.

### 3.6 `Access`

`rules` holds the rule rows of an account with the change that inserted them,
`version` its `access_version`, `restricted` and `role` the columns of the same names. The
manager loads an account (`Load`), sends what the rules shall be (`Prepare`: the checks
of `update_user_access` and what it will delete and insert), and the request commits, or
finds another version. `revoke_user_management` and an update without a version read
the version and write one more than they read. `RuleMatches`, `CanAccess` and
`CanAccessService` are the tests of `access.py`; `Contains` is the test on scopes that
delegation uses.

`lost` is history: an update that named a version replaced rules it had not seen.
`collided` marks accounts on which a request without a version wrote a version it had read
before another one; the property excuses them (see the disagreements). Environments,
nodes, projects and containers are data: `MCAccess` has two nodes in two environments that
run a project of the same name.

### 3.7 `MetricHistory`

Rows are numbers from one sequence. A heartbeat numbers its sample (`RecordMetricHistory`)
and commits it later, so smaller numbers may appear after larger ones. `Expire` lets a
row pass its age in any order. Each server process repeats passes of
`cleanup_metric_history`: it takes the advisory lock, deletes what was expired when the
pass began in batches, counts the table once, and deletes the surplus in batches
without counting again, at most `MaxBatches` batches altogether. Every batch is a commit.
`FailPass` ends a pass between two of them and frees the lock. Only PostgreSQL has the
lock, and several processes; with SQLite there is one. The 1 s and 300 s between
passes only say when the next one is scheduled. Overlapping heartbeats of one node (two
Agents with one identity) are not modelled.

### 3.8 `StagedRollout` and `AtomicUpdate`

`StagedRollout` is what a release promises whoever uses the module: instances leave
service one at a time and in order, one is finished only when its host runs the target
and is not touched again, ACS follows when all are finished. Drains, reports, guards, tasks,
redeliveries, retries and rollbacks are not in it; `ImplementsStagedRollout` maps them
away (`Staged`). Any host but a finished one may get another image at any time in it,
since a stopped release leaves dispatched tasks behind.

`AtomicUpdate` is what an update task promises the server. The mapping (`Service`) says
that from the first call that changes something until the last call of the update or of its
undo the service is still the old one, and outside what the containers, their
names, run states and the Compose file say it is; a state that is neither the old
nor the new service would be a violation. The promise ends (`Break`) with the first fault
the except block does not cover: a crash of the Agent, a refused stop or rename, a time-out
where the code expects a `DockerException`.

## 4. Runs

Names of images, accounts, members and requests are symmetric where only safety is checked.
`None` is a model value.

| Run | Bounds | Shows |
|---|---|---|
| `release_single` | 1 instance, 2 images, 4 tasks, operators may use maintenance | `TypeOK`, `NotRoutedDuringUpdate`, `OneEffectiveUpdate`, `GuardDeletedDrained`, and under fairness `EventuallyEnds` |
| `release_rolling` | 2 instances, 2 images, 5 tasks | `OneBusyStep`, `CompletedRunsTarget`, `ImplementsStagedRollout` |
| `release_operators` | 1 instance, 2 tasks, all operator actions | `GuardCovers`, `NoStrandedInstance` |
| `update_faults` | 5 deliveries, 4 faults of any kind | `TypeOK`, `OneRunning`, `OldKept`, `FailureRestores`, `SuccessReplaces`, `ImplementsAtomicUpdate`, `EventuallyReported` |
| `scaler_recovers` | 2 pods, replicas 0 to 2, refused and timed-out calls, restarts, short cooldowns | `TypeOK`, `EventuallyMinimum` |
| `scaler_routes` | 3 pods, replicas 0 to 2, late reports | `RouteFirst` |
| `scaler_marks` | 3 pods, replicas 0 to 2, refused calls, slow controller | `RemovalsMarked` |
| `alerts` | 1 default rule, 1 target, heartbeats and the offline monitor, 3 definitions, 2 versions, resets of the baseline while a state was forgotten less than once (`MaxLives`), counts to 2, 1 kept row, 1 restart | `TypeOK`, `RowsBounded`, `NoOrphans`, `DeliveredOnce`, `EventsEarned`, `DeletedStaysDeleted`, and under fairness `Settles` |
| `accounts` | 2 accounts, 3 members, 2 processes, 2 logins, 2 updates, 1 directory event, 1 session per account, any 2 requests at once, any number of restarts | `TypeOK`, `SessionCap`, `OneSessionPerState`, `SessionsCurrent`, `AdminRemains`, `AppliedOnce` |
| `access` | 2 accounts beside the administrators, 2 nodes with one project name, 3 rules on offer, 2 requests at once, 3 changes | `TypeOK`, `DelegationBounded`, `NoLostUpdate`, `Confined` |
| `history` | 2 nodes, 2 processes, 6 rows of which 2 may stay, batches of 2, 2 batches in a pass, 1 error | `DeletesWhatItMust`, and under fairness `EventuallyTidy` |
| `update_crash` | 2 deliveries, 1 crash | `SuccessInPlace` is violated: a disagreement with the documentation, see below |

Why these bounds:

* Releases: one instance is the only case with a protection Deployment, two are
  the least with an order; two images make "old" and "target" and let a rollback be the
  opposite release; a release of two instances uses at most four tasks (a preparation and
  an update each), so a fifth is created by a retry next to what the first left behind.
* Updates: four faults let the call, its undo, the redelivery and its undo all fail; five
  deliveries are one more than four faults can force, so that the last is undisturbed.
* Autoscaler: two replicas are the least with a wrong pod to delete, a third pod is the
  one that replaces a pod that is still terminating; step and failover of one reach every
  number of replicas from every other.
* Alerts: rules and targets do not share rows, so one pair is enough; two evaluators are
  the least that overlap, and an edit may move the rule from one to the other; the
  definitions cover both directions of the comparison, one and two required counts, a
  disabled rule, a metric with a baseline and one without, and a rule without
  notifications. The one with notifications is the offline monitor's, whose notifications
  hold its loop up; the steps of a heartbeat's queue are the same ones, and `DeliveredOnce` is
  proved for all definitions. Two versions let an evaluation be stale by one edit,
  `MaxLives = 1` by one reset of the baseline.
* Accounts: a cap of one is the smallest, and every hazard is about two requests that
  overlap; `MaxBusy = 2` allows every pair of them, in one process or in two. Two
  accounts are the least that remove each other, the third member is one to rename to.
* Access: a chain of two grants needs an administrator's rule, a grant, and a
  revocation, which are the three changes; the three rules are of the kinds whose
  containment is not equality.
* History: the table overflows its two rows by up to four, so two batches do not clear
  the largest backlog, and an error may leave one.

### Disagreements with the documentation

The counterexample of `update_crash` is a behaviour of the code: after a crash between
rename and create the next delivery takes the backup name for the service's name
(`docker_runtime.py:404`), installs the new container under it and reports success, where
`docs/module-image-releases.md:5` says that the container is created in place.

Others met while modelling, which no run is spent on:

* `exit_instance_maintenance` (`scaling.py:1030`) does not look at the release, so an
  instance whose container is being replaced is routed again when an operator ends
  maintenance; `module-image-releases.md:41` makes its absence from the routes a
  condition of the update. `release_single` therefore lets operators end maintenance only between
  releases.
* `_queue_local_task` (`releases.py:260`) looks for unfinished tasks of the current
  container row, and `_fail_release` leaves dispatched tasks alone: a retry can have a second
  unfinished update of the module beside the leftover one, against
  `module-image-releases.md:37`. `OneEffectiveUpdate` is what holds: at most one of
  them can still change a container.
* A refused rename on the way into the update is refused on the way back too, which
  skips the start (`docker_runtime.py:450`): the service stays stopped, against
  `module-image-releases.md:49`. `Recoverable` names the faults after which the
  documented restoration does hold.
* A `set_replicas` that takes effect but times out is handled as failed
  (`autoscaling.py:629`): the row of the terminating pod is drained again and the
  next removal can hit a pod that serves, against `hybrid-autoscaling.md:31`.
* `update_user` changes rules on a change of role without raising `access_version`
  (`api.py:1209`), so an update prepared before it can bring back the rules it
  cleared, without the 409 of `README.md:690`; likewise, two requests without a version that overlap can
  write the same version twice (`api.py:1946`), after which a stale update matches.
* An evaluation that read a rule before its edit can write its columns into a state row
  created after the edit, against the comment at `api.py:927`; the next evaluations
  correct it (`Settles`).
* A rule or event deleted while `alert_monitor` works on it ends the task: no node is
  reported offline until a restart, against `README.md:615`.
* A login that overlaps a change of role or member in the time between its lookup of the account
  and its commit leaves a session that the change was to revoke (`README.md:698`). It
  sees the new role; `SessionsCurrent` says what holds.
* Two administrators who remove each other at the same time both pass the check for a
  remaining one (`api.py:1175`).
* With Agent reports less frequent than the 90 s of a redelivery
  (`ReportsBeforeRetry = FALSE`) a release can complete a step on a stale image record.
* A retry of a half-done release can record the target as `previous_image`.
* A release stopped while it verifies an instance leaves the new image in place and
  queues no rollback, which `container-upgrade-design.md` promises.
* The local rollout precedes the ACS update; `module-image-releases.md` shows that order
  in its diagram and the opposite one in its text.
* Each evaluation asks one more pod to drain until one has drained.
* A pod marked for a scale-down that then fails keeps its `pod-deletion-cost` and may be
  deleted later while it serves. `RouteFirst` therefore needs that no call is refused
  after the mark, and `scaler_routes` has only late reports as a fault.

Deadlock checking is off in the runs: the bounds on tasks, deliveries, versions, rows and
changes, and a finished update, end behaviours on purpose.

### Fairness

`ImageRelease!FairSpec` asks weak fairness of `Tick` and of `Deadline`: the monitor calls
`progress_image_releases` every `autoscaling_check_seconds` as long as the process
lives, and time passes. It asks nothing of Agents, reports or the cluster: a
release must end without them. An exception that ends the monitor loop is outside
(listed as a hazard). `ContainerUpdate!FairSpec` asks weak fairness of `Work`, the
Agent's own steps; `Crash` and faults happen or not, and are bounded.
`Autoscaler!FairSpec` asks weak fairness of the evaluations (the loop), of the end of the
cooldown (time), of the pods' reports and the application's obedience, and of the
controller: the documentation makes each of these a duty of the deployment. Nothing
makes the load calm.
`Alerts!FairSpec` asks weak fairness of the steps of each evaluator (nodes report every
few seconds, the monitor loops, the database answers) and of its sender, except that a
message need not be sent: `SkipNotification` may happen instead, and an answer or its time
limit ends the wait. Edits, measurements and restarts need not happen. `Settles` speaks
only of evaluators that live, because nothing restarts one that died.
`MetricHistory!FairSpec` asks weak fairness of each process's `Monitor`, which loops for
as long as the process lives; heartbeats and errors need not happen, and errors are
bounded. `EventuallyTidy` is about behaviours in which no heartbeat stays uncommitted.

## 5. Proofs

All theorems are about `Spec` for every value of the constants that the assumptions
allow: any number of instances, images, tasks, deliveries, pods, accounts, rules and
processes, any set of operator actions and any bound on faults, except where a theorem
states a hypothesis of its own. An invariant was checked by TLC on the runs' instances
before it was proved.

| Theorem | Says | Argument |
|---|---|---|
| `ReleaseTypeCorrect` | `[]TypeOK` | `TypeInv` adds that a task the release refers to exists and that an active release has a target: without the first, `DropTask` and `RolloutResult` would write to an instance read from a missing row |
| `ReleaseOneBusyStep` | `[]OneBusyStep` | `BusyInv`: during preparation the busy step is that of the release's task; in the rollout all instances before the busy one are completed (so two busy ones contradict each other) and the task is about it; else none is busy and no task is referenced. `IdInv` (`releaseTask < nextTask`) keeps a new task from overwriting the referenced one |
| `ReleaseNoStrandedInstance` | `[]NoStrandedInstance` | `OutInv`: an instance out of service was taken out by an operator or is at the busy step of the rollout. `_fail_release` restores the first busy step it finds; by `BusyInv` there is no second |
| `ReleaseGuardCovers` | `[]GuardCovers` | `GuardInv`: which of named, deployed and reported the protection Deployment is at each status, and that it is drained only at the end |
| `ReleaseGuardDeletedDrained` (1) | `GuardDeletedDrained` | `GuardInv`, and that the guard stays monitored, so that the drain is never skipped |
| `ReleaseNotRoutedDuringUpdate` (2) | `[]NotRoutedDuringUpdate` | `RouteInv`: the instance whose update the release waits for is in maintenance, which the route condition excludes |
| `ReleaseOneEffectiveUpdate` (3) | `[]OneEffectiveUpdate` | `HostInv`: a task that can still change a container names the container the server knows. `LinkInv`: of these an active release has one, its own, because it refuses to start, or to queue another, beside an unfinished one |
| `ReleaseCompletedRunsTarget` (4) | `[]CompletedRunsTarget` | `KnownInv`: when the server does not know the host's container, the task that made it has not been reported. So if `Matches` says the host runs the target while the release's task is over, it does (`MatchesRuns`); nobody else touches a finished host (`HostMove`) |
| `ReleaseImplementsStagedRollout` (4) | `ImplementsStagedRollout` | the same invariant; each `Tick` finishes instances that run the target, or takes out the first that does not (`StageMove`), each other step changes at most one unfinished host |
| `UpdateTypeCorrect` | `[]TypeOK` | with `CurrentOK`, which ties `pc` to the locals a call uses |
| `UpdateOneRunning` | `[]OneRunning` | a delivery that found the old container running is the only one with a running replacement; from each `pc` follows which containers can run |
| `UpdateOldKept` | `[]OldKept` | the invariant of the first delivery: which replacement exists, under which name, before `Remove` is reached |
| `UpdateSuccessReplaces` | `[]SuccessReplaces` | the same invariant at `success` |
| `UpdateFailureRestores` | `[]FailureRestores` | `FailInv`: as long as every fault was recoverable the containers have one of a few shapes at each `pc`, and the Compose file is old or its backup is |
| `UpdateImplementsAtomicUpdate` | `ImplementsAtomicUpdate` | `AtomicInv`: `FailInv` for every delivery (`Stage`), and between deliveries the service is as it was or exchanged (`Settled`). `Begin` maps to `Resend`, `Remove` to `Replace`, `Report` to `Succeed` or `Fail`, an uncovered fault to `Break`, all else to a stutter |
| `AutoscalerTypeCorrect` | `[]TypeOK` | - |
| `AutoscalerRemovalsMarked` (5) | `[]RemovalsMarked` | `MarkInv`: outside the cooldown no pod is terminating and no more run than `replicas`, so a removal starts from a workload of its size, and marks a pod that runs before it counts down |
| `AutoscalerRouteFirst` (6) | `RouteFirst` | `RouteInv`: what is marked drained and rests, at most one marked pod runs, and none unless there is one too many; a pod whose last report was idle has taken no business since |
| `AlertsTypeCorrect` | `[]TypeOK` | `TypeInv` says what an open transaction holds in each of its states |
| `AlertsDeletedStaysDeleted` | `DeletedStaysDeleted` | - |
| `AlertsDeliveredOnce` | `[]DeliveredOnce` | `NoteInv`: an event that waits was never sent; `MadeInv`: nor was one that waits for its commit |
| `AlertsNoOrphans` | `[]NoOrphans` | `OrphanInv`: a state row is of the present life, and no row is of a rule that is gone, so a transaction that read an older one finds its row gone or there and is refused (`Storable`) |
| `AlertsEventsEarned` | `EventsEarned` | `PastInv` ties the history of a target to its row; `LinkInv`: what an evaluation read is what is there, or it outlived the state it read (`Outlived`) and is refused, or it leaves a row that says it is mixed |
| `AlertsRowsBounded` | `[]RowsBounded` | `BoundInv`: for each transaction that cleaned up there is a set of others that added rows since, and what it leaves is at most the limit and a row per target for each of them; the sets are nested, so a commit cannot count one twice |
| `AccountsTypeCorrect` | `[]TypeOK` | `LoopInv`: a request in the middle of its statements has the event loop; `LiveInv`: accounts that requests refer to exist |
| `AccountsAppliedOnce` | `[]AppliedOnce` | the receipt says how often a change was carried out |
| `AccountsOneSessionPerState` | `[]OneSessionPerState` | `StateInv`: one login at most has used a state up, and as long as it has not issued none was issued |
| `AccountsSessionsCurrent` | `[]SessionsCurrent` | `FreshInv`: stale sessions, and logins that would issue one, are of accounts that are not active |
| `AccountsAdminRemains` | `[]AdminRemains` | `AdminInv`: a checked removal that no other overtook leaves an administrator (`Spares`) |
| `AccountsSessionCap` | `[]SessionCap` | `CapInv`: the list a login revokes from holds the oldest sessions; the more sessions beyond the cap a waiting login will leave, the fewer processes have such a login, so there are at most one per process beyond the first |
| `AccessTypeCorrect` | `[]TypeOK` | - |
| `AccessConfined` | `Confined` | from `Contains`: a scope that contains another matches every container the other one does (`ContainsSound`) |
| `AccessDelegationBounded` | `[]DelegationBounded` | `DelegationInv`: every rule in force, and every rule a manager is about to give, is covered by what an administrator gave |
| `AccessNoLostUpdate` | `[]NoLostUpdate` | `UpdateInv`: a request that missed a change expects a version below the stored one |
| `HistoryOneCleaner` | one process passes at a time | who passes holds the lock |
| `HistoryDeletesWhatItMust` | `DeletesWhatItMust` | `PassFine`: the count that a pass made once still holds: the table is at least the limit and what is left to delete, since others only add (`RankGrows`, `OldestRows`) |

Hypotheses, each with the reason it is there. Without any one of them TLC finds the
property violated by what the code does:

1. `"monitoring" \notin Operators`: an operator may take the protection Deployment out
   of monitoring, and what is not monitored is not drained.
2. also `"exitDuringRelease" \notin Operators`: see the disagreement about
   `exit_instance_maintenance`.
3. `"action" \notin Operators`: `create_action` queues an `update_image` without looking
   at a release; `"monitoring" \notin Operators`: with two instances, one that leaves the
   monitoring with an update under way lets the next release update the other one.
4. `"action" \notin Operators`, and `ReportsBeforeRetry`: Agents report at least every
   90 s (the default is far below), so that a task is not handed out again before the
   report that shows what it did.
5. `NoLostAnswers`: no `set_replicas` takes effect without an answer, no restart between a
   call and its commit, and a cooldown that outlasts the removal of a pod; refused
   calls, late reports and a slow controller are allowed.
6. `OnlyLate`: see the disagreement about the pod marked for a scale-down that fails.

The assumptions on constants are those of the modules: that counts are natural numbers,
that `None` is none of the values it stands beside, that names of logins and directory
events differ, that the sets of rules, targets, pods and processes are finite where they are
counted. `Accounts` and `Alerts` are written without recursion, so that proofs can be about them:
a login lists the oldest sessions and leaves a suffix (`Listed`, `Kept`), and what is
left of the event table is the one member of `Subsequence`.

Only model-checked: liveness under fairness (`EventuallyEnds`, `EventuallyReported`,
`EventuallyMinimum`, `Settles`, `EventuallyTidy`), which is out of the prover's reach;
and `SurplusCounts`, the comparison of the two statements of the alert cleanup over short
sequences, which is an assumption that TLC evaluates in `MCAlerts`.

## 6. Not modelled

* **Several tasks of one node and two Agents with one identity.** What the task queue
  adds beyond `ImageRelease` and `ContainerUpdate` are races of single requests (a
  task expired while it is handed out, `agent.py:277`; a result and a heartbeat that insert
  the same container row, `agent.py:298`). They are listed as hazards without a
  property: the code does not defend against them, so what a model could state
  is that they happen.
* **Enrollment and node inventory** beyond the container rows a release uses, capacity
  and token rotation of AI instances, instance deletion: single transactions on one row
  that nobody else decides on.
* **Overlapping transactions of one service's evaluation and reports**
  (`autoscaling.py:385`): an evaluation and a report are one step each.
* **The test notification**, acknowledgement of events and the choice of recipients.
* For good: parsing of image references and of probe output, request schemas,
  configuration, audit records, database migrations, CSRF and header middleware, the
  web console and the mini program, which keep no state of their own or are pure I/O.
