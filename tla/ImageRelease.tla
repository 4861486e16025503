---------------------------- MODULE ImageRelease ----------------------------
(***************************************************************************)
(* The staged image release of one module (cloudhelm/releases.py), with    *)
(* the handlers that touch the rows it reads: starting and rolling back a  *)
(* release, business reports, maintenance and monitoring switches          *)
(* (cloudhelm/routers/scaling.py), the Agent's heartbeat and task calls    *)
(* (cloudhelm/routers/agent.py, cloudhelm_agent/main.py), and single       *)
(* container actions (cloudhelm/routers/api.py).                           *)
(*                                                                         *)
(* One step of the monitor loop (Tick) is one transaction.  Times are      *)
(* abstracted to what the code compares them with: a release is timed out  *)
(* or not, a report is older or younger than the end of the update task,   *)
(* a guard's report is fresh or stale.                                     *)
(***************************************************************************)
EXTENDS Naturals, FiniteSets

CONSTANTS
    N,            \* number of local instances linked to a container
    Image,        \* tags of the module's repository
    None,         \* "no image recorded"
    MaxTasks,     \* bound: Agent tasks created in a behaviour
    ReportsBeforeRetry, \* report_seconds <= 90, the age at which a task is resent
    Operators     \* what operators do besides starting releases

OperatorKinds == {"maintenance", "exitDuringRelease", "monitoring", "action"}

ASSUME NAssumption == N \in Nat \ {0}
ASSUME ImageAssumption == None \notin Image /\ Image # {}
ASSUME MaxTasksAssumption == MaxTasks \in Nat
ASSUME RetryAssumption == ReportsBeforeRetry \in BOOLEAN
ASSUME OperatorsAssumption == Operators \subseteq OperatorKinds

VARIABLES
    status,        \* service.release_status
    step,          \* ImageReleaseStep.status per instance, "none" without a step
    desiredImage,  \* service.desired_image
    previousImage, \* service.previous_image
    versions,      \* images with a ServiceImageVersion row
    releaseTask,   \* service.release_task_id, 0 for NULL
    timedOut,      \* now - release_started_at > image_release_timeout_seconds
    acsImage,      \* image of the ACS workload template
    guard,         \* the release's protection Deployment and its instance row
    desired,       \* instance.desired_state
    monitored,     \* instance.monitored
    report,        \* class of the last business report
    since,         \* the last report is younger than the last finished update
    row,           \* the linked Container row: up, down (present), gone
    image,         \* container.image as the server knows it
    actual,        \* image of the container that holds the name on the host
    replaced,      \* the host's container is not the one the row names
    task,          \* Task rows that are unfinished or referenced
    nextTask,      \* id of the next task
    byOperator     \* history: the operator asked for this drain

releaseVars == <<status, step, desiredImage, previousImage, versions,
                 releaseTask, timedOut>>
instanceVars == <<desired, monitored, report, since, byOperator>>
hostVars == <<row, image, actual, replaced>>
taskVars == <<task, nextTask>>
vars == <<releaseVars, acsImage, guard, instanceVars, hostVars, taskVars>>

-----------------------------------------------------------------------------
Inst == 1..N
TaskId == 1..MaxTasks

\* ACTIVE_RELEASE_STATUSES ("preparing_acs" is only read, never written).
ActiveStatus == {"preflighting_local", "preparing_guard", "waiting_guard",
                 "draining_local", "updating_local", "verifying_local",
                 "updating_acs", "waiting_acs", "cleaning_guard"}
Rollout == {"draining_local", "updating_local", "verifying_local"}
Active == status \in ActiveStatus

\* Steps _fail_release looks for.
BusyStep == {"preparing", "draining", "updating", "verifying"}
StepStatus == BusyStep \cup {"none", "pending", "prepared", "completed", "failed"}
DesiredState == {"serve", "draining", "maintenance", "restoring"}

\* "ok": healthy, ready and accepting; "idle": not accepting and no active
\* business; "busy": any other report.
ReportClass == {"ok", "idle", "busy"}

\* ph is where the Agent is with the task: it does not have it, it executes it,
\* or it has executed it and not yet posted the result.
TaskRec == [inst : Inst, kind : {"prepare", "update"}, target : Image,
            st : {"pending", "dispatched", "success", "failed"},
            ph : {"queued", "run", "ok", "bad"},
            bound : BOOLEAN,   \* task.container_id is the instance's row
            live : BOOLEAN]    \* task.docker_id still exists on the host
NoTask == [st |-> "none"]

Unfinished(t) == task[t].st \in {"pending", "dispatched"}
TasksOf(i) == {t \in TaskId : Unfinished(t) /\ task[t].inst = i}
AgentIdle(i) == \A t \in TasksOf(i) : task[t].ph = "queued"

\* No Deployment and no instance row yet for this release.
NoGuard == [named |-> FALSE, deployed |-> FALSE, seen |-> FALSE,
            monitored |-> TRUE, desired |-> "serve", report |-> "busy",
            fresh |-> FALSE]
GuardRec == [named : BOOLEAN, deployed : BOOLEAN, seen : BOOLEAN,
             monitored : BOOLEAN, desired : DesiredState,
             report : ReportClass, fresh : BOOLEAN]

Steps == {i \in Inst : step[i] # "none"}
\* Variant: any present container counts as current.
MatchesAny(i) == row[i] # "gone"
Matches(i) == row[i] # "gone" /\ image[i] = desiredImage
\* Variant: unfinished tasks are not looked for.
NoActiveTask(i) == FALSE
ActiveTask(i) == \E t \in TasksOf(i) : task[t].bound
First(S, f) == f \in S /\ \A j \in S : f <= j

\* What the gateway discovery would return for a fresh report.
Discoverable(i) == /\ monitored[i] /\ report[i] = "ok"
                   /\ desired[i] = "serve" /\ row[i] = "up"

-----------------------------------------------------------------------------
Init ==
    /\ status = "idle"
    /\ step = [i \in Inst |-> "none"]
    /\ desiredImage = None /\ previousImage = None /\ versions = {}
    /\ releaseTask = 0 /\ timedOut = FALSE
    /\ guard = NoGuard
    /\ \E m \in Image : /\ acsImage = m
                        /\ image = [i \in Inst |-> m]
    /\ actual = image
    /\ desired = [i \in Inst |-> "serve"]
    /\ monitored = [i \in Inst |-> TRUE]
    /\ report = [i \in Inst |-> "ok"]
    /\ since = [i \in Inst |-> TRUE]
    /\ row = [i \in Inst |-> "up"]
    /\ replaced = [i \in Inst |-> FALSE]
    /\ task = [t \in TaskId |-> NoTask] /\ nextTask = 1
    /\ byOperator = [i \in Inst |-> FALSE]

-----------------------------------------------------------------------------
(* _start_image_release, called by the release and the rollback endpoints. *)

Local == {i \in Inst : monitored[i]}

StartImageRelease(target) ==
    /\ ~Active
    /\ Local # {}
    /\ \A i \in Local : /\ desired[i] = "serve" /\ report[i] = "ok"
                        /\ row[i] = "up" /\ ~ActiveTask(i)
    /\ \E i \in Local : image[i] # target
    /\ \E i \in Local :                    \* local_images[0], unordered query
         /\ previousImage' = image[i]
         /\ versions' = versions \cup {image[i]}
    /\ desiredImage' = target
    /\ status' = "preflighting_local"
    /\ step' = [i \in Inst |-> IF monitored[i] THEN "pending" ELSE "none"]
    /\ releaseTask' = 0 /\ timedOut' = FALSE
    /\ guard' = NoGuard
    /\ UNCHANGED <<acsImage, instanceVars, hostVars, taskVars>>

Release == \E m \in Image : StartImageRelease(m)
Rollback == previousImage # None /\ StartImageRelease(previousImage)
RollbackToVersion == \E m \in versions : StartImageRelease(m)

-----------------------------------------------------------------------------
(* The monitor loop: one Tick is one call of _progress_service.            *)

\* No Tick writes these.
tickFrame == <<desiredImage, previousImage, timedOut, monitored, report, since,
               byOperator, hostVars>>

\* What _fail_release does with the instance of the step it stops; the first is a
\* variant that forgets an instance that has drained.
RestoredDrainOnly(state) == IF state = "draining" THEN "restoring" ELSE state
Restored(state) == IF state \in {"draining", "maintenance"} THEN "restoring" ELSE state

\* _fail_release on the steps and desired states the tick has computed so far.
\* A pending task is expired and a finished one is no longer referenced; a
\* dispatched one is left to the Agent.
FailRelease(stp, des) ==
    /\ status' = "failed"
    /\ releaseTask' = 0
    /\ task' = [t \in TaskId |->
                  IF t = releaseTask /\ task[t].st # "dispatched"
                  THEN NoTask ELSE task[t]]
    /\ \/ /\ \A i \in Inst : stp[i] \notin BusyStep
          /\ step' = stp /\ desired' = des
       \/ \E i \in Inst :
            /\ stp[i] \in BusyStep
            /\ step' = [stp EXCEPT ![i] = "failed"]
            /\ desired' = [des EXCEPT ![i] = Restored(@)]
    /\ UNCHANGED <<versions, nextTask>>

\* _queue_local_task, its refusals excluded.
QueueTask(i, kind) ==
    /\ ~ActiveTask(i)
    /\ nextTask \in TaskId
    /\ task' = [task EXCEPT ![nextTask] =
         [inst |-> i, kind |-> kind, target |-> desiredImage, st |-> "pending",
          ph |-> "queued", bound |-> TRUE, live |-> ~replaced[i]]]
    /\ releaseTask' = nextTask
    /\ nextTask' = nextTask + 1

\* The task has served its step.
DropTask == /\ task' = [task EXCEPT ![releaseTask] = NoTask]
            /\ releaseTask' = 0
            /\ UNCHANGED nextTask

\* _progress_preflight with a task: wait, stop, or mark the step prepared; the
\* variant does not mark it.
PreflightUnmarked ==
    /\ status = "preflighting_local" /\ releaseTask # 0
    /\ ~Unfinished(releaseTask) /\ task[releaseTask].st = "success"
    /\ DropTask
    /\ UNCHANGED <<status, step, versions, desired, acsImage, guard>>
PreflightResult ==
    /\ status = "preflighting_local" /\ releaseTask # 0
    /\ ~Unfinished(releaseTask)
    /\ IF task[releaseTask].st = "success"
       THEN /\ step' = [step EXCEPT ![task[releaseTask].inst] = "prepared"]
            /\ DropTask
            /\ UNCHANGED <<status, versions, desired>>
       ELSE FailRelease(step, desired)
    /\ UNCHANGED <<acsImage, guard>>

\* _progress_preflight without a task: the loop over the pending steps stops at
\* the first container that is missing or not yet on the target.
PreflightNext ==
    /\ status = "preflighting_local" /\ releaseTask = 0
    /\ LET Behind == {i \in Inst : step[i] = "pending" /\ ~Matches(i)}
           Done(f) == [i \in Inst |-> IF step[i] = "pending" /\ i < f
                                      THEN "completed" ELSE step[i]]
       IN \/ /\ Behind = {}
             /\ step' = Done(N + 1)
             /\ status' = IF Cardinality(Steps) = 1
                          THEN "preparing_guard" ELSE "draining_local"
             /\ UNCHANGED <<versions, releaseTask, desired, taskVars>>
          \/ \E f \in Behind :
               /\ First(Behind, f)
               /\ \/ /\ row[f] # "gone"
                     /\ QueueTask(f, "prepare")
                     /\ step' = [Done(f) EXCEPT ![f] = "preparing"]
                     /\ UNCHANGED <<status, versions, desired>>
                  \/ FailRelease(Done(f), desired)  \* gone, offline or has a task
    /\ UNCHANGED <<acsImage, guard>>

\* The cluster after ensure_release_guard; one that exists is kept.
EnsureReleaseGuard(g) == [g EXCEPT !.deployed = TRUE]

\* status "preparing_guard"; an error may come before or after the Deployment was
\* created.
PrepareGuard ==
    /\ status = "preparing_guard"
    /\ \/ /\ guard' = [EnsureReleaseGuard(guard) EXCEPT !.named = TRUE]
          /\ status' = "waiting_guard"
          /\ UNCHANGED <<step, versions, releaseTask, desired, taskVars>>
       \/ /\ guard' \in {guard, EnsureReleaseGuard(guard)}
          /\ FailRelease(step, desired)
    /\ UNCHANGED acsImage

\* _guard_is_serving; the first is a variant that trusts the cluster alone.
AnyGuard == TRUE
GuardIsServing == /\ guard.seen /\ guard.monitored
                  /\ guard.report = "ok" /\ guard.fresh

\* status "waiting_guard": release_guard_ready is the cluster's answer.
WaitGuard ==
    /\ status = "waiting_guard"
    /\ \/ /\ guard.named /\ GuardIsServing
          /\ status' = "draining_local"
          /\ UNCHANGED <<step, versions, releaseTask, desired, taskVars>>
       \/ FailRelease(step, desired)
    /\ UNCHANGED <<acsImage, guard>>

\* _progress_local_rollout with a finished task.
RolloutResult ==
    /\ status \in Rollout /\ releaseTask # 0
    /\ ~Unfinished(releaseTask)
    /\ LET i == task[releaseTask].inst
       IN \/ /\ task[releaseTask].st # "success" \/ ~Matches(i)
             /\ FailRelease(step, desired)
          \/ /\ task[releaseTask].st = "success" /\ Matches(i)
             /\ row[i] = "up" /\ report[i] = "ok" /\ since[i]
             /\ desired' = [desired EXCEPT ![i] = "serve"]
             /\ step' = [step EXCEPT ![i] = "completed"]
             /\ status' = "draining_local"
             /\ DropTask
             /\ UNCHANGED versions
          \/ /\ task[releaseTask].st = "success" /\ Matches(i)
             /\ ~(row[i] = "up" /\ report[i] = "ok" /\ since[i])
             /\ desired' = [desired EXCEPT ![i] = "restoring"]
             /\ step' = [step EXCEPT ![i] = "verifying"]
             /\ status' = "verifying_local"
             /\ UNCHANGED <<versions, releaseTask, taskVars>>
    /\ UNCHANGED <<acsImage, guard>>

\* _progress_local_rollout without a task: instances that already run the target
\* are completed on the way to the first one that does not.
RolloutNext ==
    /\ status \in Rollout /\ releaseTask = 0
    /\ LET Open == {i \in Steps : step[i] # "completed"}
           Behind == {i \in Open : ~Matches(i)}
           Done(f) == [i \in Inst |-> IF i \in Open /\ i < f
                                      THEN "completed" ELSE step[i]]
           Served(f) == [i \in Inst |-> IF i \in Open /\ i < f
                                        THEN "serve" ELSE desired[i]]
           Drained(f) == desired[f] = "maintenance" /\ report[f] = "idle"
       IN \/ /\ Behind = {}
             /\ step' = Done(N + 1) /\ desired' = Served(N + 1)
             /\ status' = "updating_acs"
             /\ UNCHANGED <<versions, releaseTask, taskVars>>
          \/ \E f \in Behind :
               /\ First(Behind, f)
               /\ \/ /\ row[f] # "gone"
                     /\ step[f] \in {"prepared", "pending", "preparing"}
                     /\ step' = [Done(f) EXCEPT ![f] = "draining"]
                     /\ desired' = [Served(f) EXCEPT ![f] = "draining"]
                     /\ status' = "draining_local"
                     /\ UNCHANGED <<versions, releaseTask, taskVars>>
                  \/ /\ row[f] # "gone" /\ step[f] = "draining" /\ Drained(f)
                     /\ QueueTask(f, "update")
                     /\ step' = [Done(f) EXCEPT ![f] = "updating"]
                     /\ desired' = Served(f)
                     /\ status' = "updating_local"
                     /\ UNCHANGED versions
                  \/ /\ row[f] # "gone" /\ step[f] = "draining" /\ ~Drained(f)
                     /\ step' = Done(f) /\ desired' = Served(f)
                     /\ UNCHANGED <<status, versions, releaseTask, taskVars>>
                  \/ /\ \/ row[f] = "gone"          \* or offline or has a task
                        \/ step[f] = "draining" /\ Drained(f)
                     /\ FailRelease(Done(f), Served(f))
    /\ UNCHANGED <<acsImage, guard>>

\* The ACS template after set_workload_image.
WorkloadImage == desiredImage

\* status "updating_acs"; an error may come before or after the patch.
UpdateAcs ==
    /\ status = "updating_acs"
    /\ \/ /\ acsImage' = WorkloadImage
          /\ status' = "waiting_acs"
          /\ UNCHANGED <<step, versions, releaseTask, desired, taskVars>>
       \/ /\ acsImage' \in {acsImage, WorkloadImage}
          /\ FailRelease(step, desired)
    /\ UNCHANGED guard

\* _complete_release
CompleteRelease ==
    /\ status' = "completed"
    /\ versions' = versions \cup {desiredImage}
    /\ releaseTask' = 0
    /\ UNCHANGED <<step, desired, taskVars>>

\* status "waiting_acs", once workload_image_status answers ready.
WaitAcs ==
    /\ status = "waiting_acs"
    /\ \/ /\ guard.named
          /\ status' = "cleaning_guard"
          /\ UNCHANGED <<step, versions, releaseTask, desired, taskVars>>
       \/ ~guard.named /\ CompleteRelease
       \/ FailRelease(step, desired)
    /\ UNCHANGED <<acsImage, guard>>

\* The cluster after delete_release_guard.
DeleteReleaseGuard(g) == [g EXCEPT !.deployed = FALSE]

\* status "cleaning_guard": drain the monitored guard instances, then delete the
\* Deployment; an error may come after the deletion.  GuardIdle is a variant that
\* does not wait for the guard to learn that it drains.
GuardIdle(state) == guard.report = "idle"
GuardDrained(state) == state = "maintenance" /\ guard.report = "idle"
CleanGuard ==
    /\ status = "cleaning_guard"
    /\ LET shown == guard.seen /\ guard.monitored
           d == IF shown /\ guard.desired = "serve" THEN "draining" ELSE guard.desired
       IN \/ /\ shown /\ ~GuardDrained(d)
             /\ guard' = [guard EXCEPT !.desired = d]
             /\ UNCHANGED <<status, step, versions, releaseTask, desired, taskVars>>
          \/ /\ shown => GuardDrained(d)
             /\ guard' = [DeleteReleaseGuard(guard) EXCEPT !.desired = d,
                            !.monitored = IF shown THEN FALSE ELSE @]
             /\ CompleteRelease
          \/ /\ shown => GuardDrained(d)
             /\ \E g \in {guard, DeleteReleaseGuard(guard)} :
                  guard' = [g EXCEPT !.desired = d]
             /\ FailRelease(step, desired)
    /\ UNCHANGED acsImage

\* progress_image_releases stops a release that is past its deadline, and every
\* active release when the ACS switch is off or no client can be built.
\* AbortRollout is a variant that only watches the local rollout.
AbortRollout == status \in Rollout /\ FailRelease(step, desired) /\ UNCHANGED <<acsImage, guard>>
Abort == Active /\ FailRelease(step, desired) /\ UNCHANGED <<acsImage, guard>>

Progress == \/ PreflightResult \/ PreflightNext \/ PrepareGuard \/ WaitGuard
            \/ RolloutResult \/ RolloutNext \/ UpdateAcs \/ WaitAcs \/ CleanGuard

Tick == /\ Abort \/ (~timedOut /\ Progress)
        /\ UNCHANGED tickFrame

\* The release runs past image_release_timeout_seconds.
Deadline ==
    /\ Active /\ ~timedOut
    /\ timedOut' = TRUE
    /\ UNCHANGED <<status, step, desiredImage, previousImage, versions,
                   releaseTask, acsImage, guard, instanceVars, hostVars, taskVars>>

-----------------------------------------------------------------------------
(* Business reports (report_business_load) and the operator's handlers.    *)

\* desired_state after a report.  Variants: a ready instance serves again whatever
\* was asked of it; the state is named as in docs/hybrid-autoscaling.md.
AfterAnyReport(state, r) ==
    IF state = "draining" /\ r = "idle" THEN "maintenance"
    ELSE IF r = "ok" THEN "serve" ELSE state
AfterReportDrain(state, r) == IF state = "draining" /\ r = "busy" THEN "drain" ELSE state
AfterReport(state, r) ==
    IF state = "draining" /\ r = "idle" THEN "maintenance"
    ELSE IF state = "restoring" /\ r = "ok" THEN "serve" ELSE state

ReportLoad(i, r) ==
    /\ report' = [report EXCEPT ![i] = r]
    /\ since' = [since EXCEPT ![i] = TRUE]
    /\ desired' = [desired EXCEPT ![i] = AfterReport(@, r)]
    /\ UNCHANGED <<releaseVars, acsImage, guard, monitored, byOperator,
                   hostVars, taskVars>>

GuardReport(r) ==
    /\ guard.deployed
    /\ guard' = [guard EXCEPT !.seen = TRUE, !.report = r, !.fresh = TRUE,
                              !.desired = AfterReport(@, r)]
    /\ UNCHANGED <<releaseVars, acsImage, instanceVars, hostVars, taskVars>>

\* updated_at falls behind now - report_stale_seconds.
GuardStale ==
    /\ guard.fresh
    /\ guard' = [guard EXCEPT !.fresh = FALSE]
    /\ UNCHANGED <<releaseVars, acsImage, instanceVars, hostVars, taskVars>>

EnterMaintenance(i) ==
    /\ "maintenance" \in Operators
    /\ ~Active /\ desired[i] = "serve"
    /\ desired' = [desired EXCEPT ![i] = "draining"]
    /\ byOperator' = [byOperator EXCEPT ![i] = TRUE]
    /\ UNCHANGED <<releaseVars, acsImage, guard, monitored, report, since,
                   hostVars, taskVars>>

\* exit_instance_maintenance does not look at the release.
ExitMaintenance(i) ==
    /\ "maintenance" \in Operators
    /\ Active => "exitDuringRelease" \in Operators
    /\ desired[i] = "maintenance"
    /\ desired' = [desired EXCEPT ![i] = "restoring"]
    /\ byOperator' = [byOperator EXCEPT ![i] = FALSE]
    /\ UNCHANGED <<releaseVars, acsImage, guard, monitored, report, since,
                   hostVars, taskVars>>

UpdateMonitoring(i, on) ==
    /\ "monitoring" \in Operators
    /\ monitored' = [monitored EXCEPT ![i] = on]
    /\ desired' = [desired EXCEPT ![i] = IF on THEN @ ELSE "serve"]
    /\ byOperator' = [byOperator EXCEPT ![i] = on /\ @]
    /\ UNCHANGED <<releaseVars, acsImage, guard, report, since, hostVars, taskVars>>

UpdateGuardMonitoring(on) ==
    /\ "monitoring" \in Operators /\ guard.seen
    /\ guard' = [guard EXCEPT !.monitored = on,
                              !.desired = IF on THEN @ ELSE "serve"]
    /\ UNCHANGED <<releaseVars, acsImage, instanceVars, hostVars, taskVars>>

\* create_action with update_image: no look at the release or at other tasks.
CreateAction(i, target) ==
    /\ "action" \in Operators
    /\ row[i] # "gone" /\ image[i] # target
    /\ nextTask \in TaskId
    /\ task' = [task EXCEPT ![nextTask] =
         [inst |-> i, kind |-> "update", target |-> target, st |-> "pending",
          ph |-> "queued", bound |-> TRUE, live |-> ~replaced[i]]]
    /\ nextTask' = nextTask + 1
    /\ UNCHANGED <<releaseVars, acsImage, guard, instanceVars, hostVars>>

-----------------------------------------------------------------------------
(* The Agent of the node of instance i.  It is single threaded: it reports *)
(* and polls only when no task is being executed.                          *)

\* heartbeat: rows of containers that are not listed are marked absent; a new
\* docker_id makes a new row, to which the tasks of the old row do not belong.
Heartbeat(i, s) ==
    /\ AgentIdle(i)
    /\ row' = [row EXCEPT ![i] = s]
    /\ IF s = "gone"
       THEN UNCHANGED <<image, replaced, task>>
       ELSE /\ image' = [image EXCEPT ![i] = actual[i]]
            /\ replaced' = [replaced EXCEPT ![i] = FALSE]
            /\ task' = [t \in TaskId |->
                          IF replaced[i] /\ t \in TasksOf(i)
                          THEN [task[t] EXCEPT !.bound = FALSE] ELSE task[t]]
    /\ UNCHANGED <<releaseVars, acsImage, guard, instanceVars, actual, nextTask>>

\* next_task: dispatched tasks older than 90 s are queued again, then the oldest
\* pending one is handed out; the answer may be lost.  The run loop reports
\* before it polls, so with report_seconds <= 90 the inventory is known by then.
NextTask(i) ==
    /\ AgentIdle(i)
    /\ \E Stale \in SUBSET {t \in TasksOf(i) : task[t].st = "dispatched"} :
         LET Pending == Stale \cup {t \in TasksOf(i) : task[t].st = "pending"}
         IN /\ ReportsBeforeRetry /\ Stale # {} => ~replaced[i] \/ row[i] = "gone"
            /\ \E f \in Pending, got \in {"queued", "run"} :
                 /\ First(Pending, f)
                 /\ task' = [t \in TaskId |->
                      IF t = f THEN [task[t] EXCEPT !.st = "dispatched", !.ph = got]
                      ELSE IF t \in Stale THEN [task[t] EXCEPT !.st = "pending"]
                      ELSE task[t]]
    /\ UNCHANGED <<releaseVars, acsImage, guard, instanceVars, hostVars, nextTask>>

\* execute: an update needs the container the task names; it leaves a container
\* with a new id.  A failed update leaves the old container.
Execute(t) ==
    /\ Unfinished(t) /\ task[t].ph = "run"
    /\ LET i == task[t].inst
       IN \/ /\ task[t].kind = "update" /\ task[t].live
             /\ actual' = [actual EXCEPT ![i] = task[t].target]
             /\ replaced' = [replaced EXCEPT ![i] = TRUE]
             /\ task' = [u \in TaskId |->
                  IF u = t THEN [task[u] EXCEPT !.ph = "ok", !.live = FALSE]
                  ELSE IF u \in TasksOf(i) THEN [task[u] EXCEPT !.live = FALSE]
                  ELSE task[u]]
          \/ /\ task[t].kind = "prepare" /\ task[t].live
             /\ task' = [task EXCEPT ![t].ph = "ok"]
             /\ UNCHANGED <<actual, replaced>>
          \/ /\ task' = [task EXCEPT ![t].ph = "bad"]
             /\ UNCHANGED <<actual, replaced>>
    /\ UNCHANGED <<releaseVars, acsImage, guard, instanceVars, row, image, nextTask>>

\* The Agent stops, or the result cannot be posted: the task stays dispatched.
LoseResult(t) ==
    /\ Unfinished(t) /\ task[t].ph # "queued"
    /\ task' = [task EXCEPT ![t].ph = "queued"]
    /\ UNCHANGED <<releaseVars, acsImage, guard, instanceVars, hostVars, nextTask>>

\* task_result; a finished row nobody refers to is forgotten.
TaskResult(t) ==
    /\ Unfinished(t) /\ task[t].ph \in {"ok", "bad"}
    /\ LET i == task[t].inst
           swapped == task[t].kind = "update" /\ task[t].ph = "ok"
       IN /\ task' = [task EXCEPT ![t] =
                IF t = releaseTask
                THEN [@ EXCEPT !.st = IF task[t].ph = "ok"
                                      THEN "success" ELSE "failed"]
                ELSE NoTask]
          /\ IF swapped
             THEN /\ image' = [image EXCEPT ![i] = task[t].target]
                  /\ replaced' = [replaced EXCEPT ![i] = FALSE]
                  /\ since' = [since EXCEPT ![i] = FALSE]
                  /\ \E s \in (IF row[i] = "gone" THEN {"up", "down"} ELSE {row[i]}) :
                       row' = [row EXCEPT ![i] = s]
             ELSE UNCHANGED <<image, replaced, since, row>>
    /\ UNCHANGED <<releaseVars, acsImage, guard, desired, monitored, report,
                   byOperator, actual, nextTask>>

-----------------------------------------------------------------------------
Operator == \/ \E i \in Inst : \/ EnterMaintenance(i)
                               \/ ExitMaintenance(i)
                               \/ \E on \in BOOLEAN : UpdateMonitoring(i, on)
                               \/ \E m \in Image : CreateAction(i, m)
            \/ \E on \in BOOLEAN : UpdateGuardMonitoring(on)
Business == \/ \E i \in Inst, r \in ReportClass : ReportLoad(i, r)
            \/ \E r \in ReportClass : GuardReport(r)
            \/ GuardStale
Agent == \/ \E i \in Inst : NextTask(i) \/ \E s \in {"up", "down", "gone"} : Heartbeat(i, s)
         \/ \E t \in TaskId : Execute(t) \/ LoseResult(t) \/ TaskResult(t)

Next == \/ Release \/ Rollback \/ RollbackToVersion
        \/ Tick \/ Deadline
        \/ Operator \/ Business \/ Agent

Spec == Init /\ [][Next]_vars
FairSpec == Spec /\ WF_vars(Tick) /\ WF_vars(Deadline)

-----------------------------------------------------------------------------
(* Properties.                                                             *)

\* Every variable keeps to the values the columns of models.py can hold.
TypeOK ==
    /\ status \in ActiveStatus \cup {"idle", "failed", "completed"}
    /\ step \in [Inst -> StepStatus]
    /\ desiredImage \in Image \cup {None} /\ previousImage \in Image \cup {None}
    /\ versions \subseteq Image
    /\ releaseTask \in 0..MaxTasks /\ timedOut \in BOOLEAN
    /\ acsImage \in Image /\ guard \in GuardRec
    /\ desired \in [Inst -> DesiredState] /\ monitored \in [Inst -> BOOLEAN]
    /\ report \in [Inst -> ReportClass] /\ since \in [Inst -> BOOLEAN]
    /\ row \in [Inst -> {"up", "down", "gone"}]
    /\ image \in [Inst -> Image] /\ actual \in [Inst -> Image]
    /\ replaced \in [Inst -> BOOLEAN]
    /\ task \in [TaskId -> TaskRec \cup {NoTask}] /\ nextTask \in Nat
    /\ byOperator \in [Inst -> BOOLEAN]

\* One instance at a time: a release never prepares, drains, updates or verifies
\* two instances at once, whatever operators, Agents and the cluster do; so
\* _fail_release, which takes the first such step it finds, misses none.
OneBusyStep ==
    \A i, j \in Inst : step[i] \in BusyStep /\ step[j] \in BusyStep => i = j

\* While the update task the release waits for is unfinished, the gateway is not
\* given the instance, even if its old process keeps reporting ready.
UpdateUnderway(i) == \E t \in TasksOf(i) : t = releaseTask /\ task[t].kind = "update"
NotRoutedDuringUpdate == \A i \in Inst : UpdateUnderway(i) => ~Discoverable(i)

\* A step the release marked completed is one whose host really runs the target,
\* although the server only sees heartbeats and task results that can be lost.
CompletedRunsTarget ==
    Active => \A i \in Inst : step[i] = "completed" => actual[i] = desiredImage

\* A sole instance is out of service only while a protection Deployment exists
\* that has reported to the server, and the guard is not drained before the
\* local instances are back.
SoleStep(i) == Steps = {i}
GuardCovers ==
    /\ \A i \in Inst : /\ Active /\ SoleStep(i)
                       /\ step[i] \in {"draining", "updating", "verifying"}
                       => guard.named /\ guard.deployed /\ guard.seen
    /\ Active /\ guard.desired # "serve"
         => \A i \in Steps : step[i] = "completed"

\* The protection Deployment is deleted only after its instance was told to
\* drain and reported that it no longer accepts and has no active business.
GuardDeletedDrained ==
    [][guard.deployed /\ ~guard'.deployed /\ Active =>
         guard.desired = "maintenance" /\ guard.report = "idle"]_vars

\* A release that ended, however it ended, leaves no instance drained: one that
\* is out of service then was taken out by an operator.
NoStrandedInstance ==
    ~Active => \A i \in Inst :
                 desired[i] \in {"draining", "maintenance"} => byOperator[i]

\* Over all releases and retries, at most one update task can still change a
\* local container.
OneEffectiveUpdate ==
    \A t, u \in TaskId :
        /\ Unfinished(t) /\ task[t].kind = "update" /\ task[t].live
        /\ Unfinished(u) /\ task[u].kind = "update" /\ task[u].live
        => t = u

\* StagedRollout: a release, its retries and rollbacks, and the tasks earlier ones left
\* behind, are to the outside a rollout in stages.
OutStep == {"draining", "updating", "verifying"}
ThoseAt(S) == IF Active THEN {i \in Inst : step[i] \in S} ELSE {}
Staged == INSTANCE StagedRollout WITH
              Instance <- Inst,
              target <- IF Active THEN desiredImage ELSE None,
              part <- ThoseAt(StepStatus \ {"none"}),
              finished <- ThoseAt({"completed"}),
              out <- ThoseAt(OutStep),
              host <- actual,
              acs <- acsImage
ImplementsStagedRollout == Staged!Spec

\* A release does not run forever, even if no report, no Agent and no cluster
\* ever answers.
EventuallyEnds == Active ~> ~Active

=============================================================================
