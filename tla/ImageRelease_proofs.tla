------------------------- MODULE ImageRelease_proofs -------------------------
(***************************************************************************)
(* Theorems about the staged image release, for any number of instances,   *)
(* images and tasks.                                                       *)
(***************************************************************************)
EXTENDS ImageRelease, TLAPS

-----------------------------------------------------------------------------
(* Types.                                                                  *)

RowState == {"up", "down", "gone"}
AnyTask == TaskRec \cup {NoTask}

\* The rows of the release and of the instances, without guard and tasks.
TypeRows ==
    /\ status \in ActiveStatus \cup {"idle", "failed", "completed"}
    /\ step \in [Inst -> StepStatus]
    /\ desiredImage \in Image \cup {None} /\ previousImage \in Image \cup {None}
    /\ versions \subseteq Image /\ timedOut \in BOOLEAN
    /\ acsImage \in Image
    /\ desired \in [Inst -> DesiredState] /\ monitored \in [Inst -> BOOLEAN]
    /\ report \in [Inst -> ReportClass] /\ since \in [Inst -> BOOLEAN]
    /\ row \in [Inst -> RowState]
    /\ image \in [Inst -> Image] /\ actual \in [Inst -> Image]
    /\ replaced \in [Inst -> BOOLEAN] /\ byOperator \in [Inst -> BOOLEAN]

\* A task the release refers to exists, and an active release has a target.
Linked ==
    /\ releaseTask # 0 => task[releaseTask] \in TaskRec
    /\ Active => desiredImage \in Image

TypeTasks ==
    /\ task \in [TaskId -> AnyTask] /\ nextTask \in Nat
    /\ releaseTask \in 0..MaxTasks

TypeInv == TypeRows /\ TypeTasks /\ guard \in GuardRec /\ Linked

LEMMA TypeSplit == TypeInv <=> TypeOK /\ Linked
BY DEF TypeInv, TypeOK, TypeRows, TypeTasks, AnyTask, RowState

LEMMA NoTaskFacts == NoTask \notin TaskRec /\ \A r \in TaskRec : r.st # "none"
BY SMT DEF NoTask, TaskRec

LEMMA UnfinishedFacts ==
    ASSUME TypeInv, NEW t \in TaskId, Unfinished(t) PROVE task[t] \in TaskRec
BY NoTaskFacts, SMT DEF TypeInv, TypeTasks, AnyTask, Unfinished, NoTask

\* What may be written into a task.
LEMMA TaskFacts ==
    ASSUME NEW r \in TaskRec, NEW z \in BOOLEAN,
           NEW s \in {"pending", "dispatched", "success", "failed"},
           NEW p \in {"queued", "run", "ok", "bad"}
    PROVE  /\ [r EXCEPT !.st = s] \in TaskRec
           /\ [r EXCEPT !.ph = p] \in TaskRec
           /\ [r EXCEPT !.bound = z] \in TaskRec
           /\ [r EXCEPT !.live = z] \in TaskRec
           /\ [r EXCEPT !.st = s, !.ph = p] \in TaskRec
           /\ [r EXCEPT !.ph = p, !.live = z] \in TaskRec
BY Zenon DEF TaskRec

LEMMA AfterReportType ==
    ASSUME NEW s \in DesiredState, NEW r PROVE AfterReport(s, r) \in DesiredState
BY SMT DEF AfterReport, DesiredState

LEMMA TaskIdFacts == /\ MaxTasks \in Nat /\ TaskId \subseteq 0..MaxTasks
                     /\ \A t \in 0..MaxTasks : t # 0 => t \in TaskId
                     /\ 0 \in 0..MaxTasks /\ 0 \notin TaskId
BY MaxTasksAssumption, SMT DEF TaskId

\* The first state is well typed.
LEMMA TypeInit == Init => TypeInv
<1> SUFFICES ASSUME Init PROVE TypeInv
  OBVIOUS
<1>1. TypeRows
  <2>1. PICK m \in Image : acsImage = m /\ image = [i \in Inst |-> m]
    BY DEF Init
  <2>2. acsImage \in Image /\ image \in [Inst -> Image] /\ actual \in [Inst -> Image]
    BY <2>1 DEF Init
  <2>3. step \in [Inst -> StepStatus] /\ desired \in [Inst -> DesiredState]
        /\ report \in [Inst -> ReportClass] /\ row \in [Inst -> RowState]
    BY SMT DEF Init, StepStatus, DesiredState, ReportClass, RowState
  <2>4. /\ monitored \in [Inst -> BOOLEAN] /\ since \in [Inst -> BOOLEAN]
        /\ replaced \in [Inst -> BOOLEAN] /\ byOperator \in [Inst -> BOOLEAN]
    BY DEF Init
  <2>. QED
    BY <2>2, <2>3, <2>4 DEF Init, TypeRows
<1>2. TypeTasks
  BY TaskIdFacts, SMT DEF Init, TypeTasks, AnyTask
<1>3. guard \in GuardRec
  BY Zenon DEF Init, NoGuard, GuardRec, DesiredState, ReportClass
<1>4. Linked
  BY SMT DEF Init, Linked, Active, ActiveStatus
<1>. QED
  BY <1>1, <1>2, <1>3, <1>4 DEF TypeInv

-----------------------------------------------------------------------------
(* Steps of the monitor loop.                                              *)

\* What _fail_release leaves.
LEMMA FailType ==
    ASSUME TypeInv, NEW stp \in [Inst -> StepStatus],
           NEW des \in [Inst -> DesiredState], FailRelease(stp, des)
    PROVE  /\ status' = "failed" /\ releaseTask' = 0
           /\ step' \in [Inst -> StepStatus] /\ desired' \in [Inst -> DesiredState]
           /\ TypeTasks' /\ UNCHANGED <<versions, nextTask>>
<1>1. status' = "failed" /\ releaseTask' = 0 /\ UNCHANGED <<versions, nextTask>>
  BY DEF FailRelease
<1>2. step' \in [Inst -> StepStatus] /\ desired' \in [Inst -> DesiredState]
  BY SMT DEF FailRelease, Restored, DesiredState, StepStatus, BusyStep
<1>3. TypeTasks'
  BY <1>1, TaskIdFacts, SMT DEF FailRelease, TypeInv, TypeTasks, AnyTask
<1>. QED
  BY <1>1, <1>2, <1>3

LEMMA QueueType ==
    ASSUME TypeInv, Active, NEW i \in Inst, NEW kind \in {"prepare", "update"},
           QueueTask(i, kind)
    PROVE  /\ TypeTasks' /\ releaseTask' = nextTask /\ nextTask \in TaskId
           /\ task'[nextTask] \in TaskRec /\ task'[nextTask].inst = i
<1> DEFINE new == [inst |-> i, kind |-> kind, target |-> desiredImage,
                   st |-> "pending", ph |-> "queued", bound |-> TRUE,
                   live |-> ~replaced[i]]
<1>1. new \in TaskRec
  BY Zenon DEF TaskRec, TypeInv, Linked
<1>2. task' = [task EXCEPT ![nextTask] = new] /\ nextTask \in TaskId
      /\ releaseTask' = nextTask /\ nextTask' = nextTask + 1
  BY DEF QueueTask
<1> HIDE DEF new
<1>3. TypeTasks' /\ task'[nextTask] = new
  BY <1>1, <1>2, TaskIdFacts, SMT DEF TypeInv, TypeTasks, AnyTask
<1>. QED
  BY <1>1, <1>2, <1>3 DEF new

LEMMA DropType ==
    ASSUME TypeInv, releaseTask # 0, DropTask PROVE TypeTasks' /\ releaseTask' = 0
BY TaskIdFacts, SMT DEF DropTask, TypeInv, TypeTasks, AnyTask

StatusValue == ActiveStatus \cup {"idle", "failed", "completed"}

\* What is left to show of a step of the loop on an active release.
LEMMA TickFrame ==
    ASSUME TypeInv, Active, UNCHANGED tickFrame, status' \in StatusValue,
           step' \in [Inst -> StepStatus], desired' \in [Inst -> DesiredState],
           versions' \subseteq Image, acsImage' \in Image, guard' \in GuardRec,
           TypeTasks', releaseTask' # 0 => task'[releaseTask'] \in TaskRec
    PROVE  TypeInv'
<1>1. TypeRows'
  BY DEF TypeInv, TypeRows, StatusValue, tickFrame, hostVars
<1>2. Linked'
  BY DEF TypeInv, Linked, tickFrame
<1>. QED
  BY <1>1, <1>2 DEF TypeInv

\* The same where the step does not touch steps, tasks and desired states.
LEMMA TickQuiet ==
    ASSUME TypeInv, Active, UNCHANGED tickFrame, status' \in StatusValue,
           UNCHANGED <<step, desired, versions, releaseTask, taskVars>>,
           acsImage' \in Image, guard' \in GuardRec
    PROVE  TypeInv'
<1>1. step' \in [Inst -> StepStatus] /\ desired' \in [Inst -> DesiredState]
      /\ versions' \subseteq Image
  BY DEF TypeInv, TypeRows
<1>2. TypeTasks' /\ (releaseTask' # 0 => task'[releaseTask'] \in TaskRec)
  BY DEF TypeInv, TypeTasks, Linked, taskVars
<1>. QED
  BY <1>1, <1>2, TickFrame

\* The same for a stopped release.
LEMMA TickFail ==
    ASSUME TypeInv, Active, UNCHANGED tickFrame,
           NEW stp \in [Inst -> StepStatus], NEW des \in [Inst -> DesiredState],
           FailRelease(stp, des), acsImage' \in Image, guard' \in GuardRec
    PROVE  TypeInv'
<1>1. versions' \subseteq Image /\ status' \in StatusValue
  BY FailType DEF TypeInv, TypeRows, StatusValue
<1>. QED
  BY <1>1, FailType, TickFrame

LEMMA TickComplete ==
    ASSUME TypeInv, Active, UNCHANGED tickFrame, CompleteRelease,
           acsImage' \in Image, guard' \in GuardRec
    PROVE  TypeInv'
<1>1. versions' \subseteq Image /\ status' \in StatusValue
  BY DEF TypeInv, TypeRows, Linked, CompleteRelease, StatusValue
<1>2. TypeTasks' /\ releaseTask' = 0
  BY TaskIdFacts DEF TypeInv, TypeTasks, CompleteRelease, taskVars
<1>3. step' \in [Inst -> StepStatus] /\ desired' \in [Inst -> DesiredState]
  BY DEF TypeInv, TypeRows, CompleteRelease
<1>. QED
  BY <1>1, <1>2, <1>3, TickFrame

\* A release that refers to a task is about an instance.
LEMMA ReleaseTaskFacts ==
    ASSUME TypeInv, releaseTask # 0
    PROVE  /\ releaseTask \in TaskId /\ task[releaseTask] \in TaskRec
           /\ task[releaseTask].inst \in Inst
BY TaskIdFacts, SMT DEF TypeInv, TypeTasks, Linked, TaskRec

LEMMA TypePreflightResult ==
    ASSUME TypeInv, UNCHANGED tickFrame, PreflightResult PROVE TypeInv'
<1>1. Active /\ acsImage' \in Image /\ guard' \in GuardRec
      /\ step \in [Inst -> StepStatus] /\ desired \in [Inst -> DesiredState]
  BY SMT DEF PreflightResult, Active, ActiveStatus, TypeInv, TypeRows
<1>2. CASE task[releaseTask].st = "success"
  <2>1. step' \in [Inst -> StepStatus] /\ UNCHANGED <<status, versions, desired>> /\ DropTask
    BY <1>1, <1>2, SMT DEF PreflightResult, StepStatus
  <2>2. TypeTasks' /\ releaseTask' = 0
    BY <2>1, DropType DEF PreflightResult
  <2>. QED
    BY <1>1, <2>1, <2>2, TickFrame DEF TypeInv, TypeRows, StatusValue
<1>3. CASE task[releaseTask].st # "success"
  BY <1>1, <1>3, TickFail DEF PreflightResult
<1>. QED
  BY <1>2, <1>3

LEMMA TypePreflightNext ==
    ASSUME TypeInv, UNCHANGED tickFrame, PreflightNext PROVE TypeInv'
<1> DEFINE Done(f) == [i \in Inst |-> IF step[i] = "pending" /\ i < f
                                      THEN "completed" ELSE step[i]]
<1>1. Active /\ acsImage' \in Image /\ guard' \in GuardRec
      /\ versions \subseteq Image /\ status \in StatusValue
      /\ step \in [Inst -> StepStatus] /\ desired \in [Inst -> DesiredState]
  BY SMT DEF PreflightNext, Active, ActiveStatus, TypeInv, TypeRows, StatusValue
<1>2. \A f : Done(f) \in [Inst -> StepStatus]
  BY <1>1, SMT DEF StepStatus
<1>3. \/ /\ step' = Done(N + 1) /\ status' \in {"preparing_guard", "draining_local"}
         /\ UNCHANGED <<versions, releaseTask, desired, taskVars>>
      \/ \E f \in Inst :
           \/ /\ QueueTask(f, "prepare") /\ step' = [Done(f) EXCEPT ![f] = "preparing"]
              /\ UNCHANGED <<status, versions, desired>>
           \/ FailRelease(Done(f), desired)
  BY DEF PreflightNext
<1> HIDE DEF Done
<1>4. CASE /\ step' = Done(N + 1) /\ status' \in {"preparing_guard", "draining_local"}
           /\ UNCHANGED <<versions, releaseTask, desired, taskVars>>
  <2>1. TypeTasks' /\ (releaseTask' # 0 => task'[releaseTask'] \in TaskRec)
    BY <1>4 DEF TypeInv, TypeTasks, Linked, taskVars
  <2>. QED
    BY <1>1, <1>2, <1>4, <2>1, TickFrame DEF StatusValue, ActiveStatus
<1>5. ASSUME NEW f \in Inst, QueueTask(f, "prepare"),
             step' = [Done(f) EXCEPT ![f] = "preparing"],
             UNCHANGED <<status, versions, desired>>
      PROVE  TypeInv'
  <2>1. step' \in [Inst -> StepStatus]
    BY <1>2, <1>5, SMT DEF StepStatus, BusyStep
  <2>. QED
    BY <1>1, <1>5, <2>1, QueueType, TickFrame
<1>6. ASSUME NEW f \in Inst, FailRelease(Done(f), desired) PROVE TypeInv'
  BY <1>1, <1>2, <1>6, TickFail
<1>. QED
  BY <1>3, <1>4, <1>5, <1>6

LEMMA TypeRolloutResult ==
    ASSUME TypeInv, UNCHANGED tickFrame, RolloutResult PROVE TypeInv'
<1>1. Active /\ acsImage' \in Image /\ guard' \in GuardRec
      /\ versions \subseteq Image /\ status \in StatusValue
      /\ step \in [Inst -> StepStatus] /\ desired \in [Inst -> DesiredState]
  BY SMT DEF RolloutResult, Rollout, Active, ActiveStatus, TypeInv, TypeRows, StatusValue
<1>2. \/ FailRelease(step, desired)
      \/ /\ \E d \in {"serve", "restoring"} :
              desired' = [desired EXCEPT ![task[releaseTask].inst] = d]
         /\ \E s \in {"completed", "verifying"} :
              step' = [step EXCEPT ![task[releaseTask].inst] = s]
         /\ status' \in Rollout /\ UNCHANGED versions
         /\ DropTask \/ UNCHANGED <<releaseTask, taskVars>>
  BY SMT DEF RolloutResult, Rollout
<1>3. CASE FailRelease(step, desired)
  BY <1>1, <1>3, TickFail
<1>4. CASE /\ \E d \in {"serve", "restoring"} :
                desired' = [desired EXCEPT ![task[releaseTask].inst] = d]
           /\ \E s \in {"completed", "verifying"} :
                step' = [step EXCEPT ![task[releaseTask].inst] = s]
           /\ status' \in Rollout /\ UNCHANGED versions
           /\ DropTask \/ UNCHANGED <<releaseTask, taskVars>>
  <2>1. step' \in [Inst -> StepStatus] /\ desired' \in [Inst -> DesiredState]
    <3>1. /\ \A d \in {"serve", "restoring"} :
               [desired EXCEPT ![task[releaseTask].inst] = d] \in [Inst -> DesiredState]
          /\ \A z \in {"completed", "verifying"} :
               [step EXCEPT ![task[releaseTask].inst] = z] \in [Inst -> StepStatus]
      <4>1. {"serve", "restoring"} \subseteq DesiredState
            /\ {"completed", "verifying"} \subseteq StepStatus
        BY DEF StepStatus, BusyStep, DesiredState
      <4>. QED
        BY <1>1, <4>1
    <3>. QED
      BY <1>4, <3>1
  <2>2. TypeTasks' /\ (releaseTask' # 0 => task'[releaseTask'] \in TaskRec)
    BY <1>4, DropType DEF RolloutResult, TypeInv, TypeTasks, Linked, taskVars
  <2>3. status' \in StatusValue
    BY <1>4 DEF StatusValue, Rollout, ActiveStatus
  <2>. QED
    BY <1>1, <1>4, <2>1, <2>2, <2>3, TickFrame
<1>. QED
  BY <1>2, <1>3, <1>4

LEMMA TypeRolloutNext ==
    ASSUME TypeInv, UNCHANGED tickFrame, RolloutNext PROVE TypeInv'
<1> DEFINE Open == {i \in Steps : step[i] # "completed"}
           Done(f) == [i \in Inst |-> IF i \in Open /\ i < f
                                      THEN "completed" ELSE step[i]]
           Served(f) == [i \in Inst |-> IF i \in Open /\ i < f
                                        THEN "serve" ELSE desired[i]]
<1>1. Active /\ acsImage' \in Image /\ guard' \in GuardRec
      /\ versions \subseteq Image
      /\ step \in [Inst -> StepStatus] /\ desired \in [Inst -> DesiredState]
  BY SMT DEF RolloutNext, Rollout, Active, ActiveStatus, TypeInv, TypeRows
<1>2. \A f : Done(f) \in [Inst -> StepStatus] /\ Served(f) \in [Inst -> DesiredState]
  <2>1. "completed" \in StepStatus /\ "serve" \in DesiredState
    BY DEF StepStatus, DesiredState
  <2>. QED
    BY <1>1, <2>1
<1>3. \/ /\ step' = Done(N + 1) /\ desired' = Served(N + 1) /\ status' = "updating_acs"
         /\ UNCHANGED <<versions, releaseTask, taskVars>>
      \/ \E f \in Inst :
           \/ /\ step' = [Done(f) EXCEPT ![f] = "draining"]
              /\ desired' = [Served(f) EXCEPT ![f] = "draining"]
              /\ status' = "draining_local"
              /\ UNCHANGED <<versions, releaseTask, taskVars>>
           \/ /\ QueueTask(f, "update")
              /\ step' = [Done(f) EXCEPT ![f] = "updating"]
              /\ desired' = Served(f) /\ status' = "updating_local"
              /\ UNCHANGED versions
           \/ /\ step' = Done(f) /\ desired' = Served(f)
              /\ UNCHANGED <<status, versions, releaseTask, taskVars>>
           \/ FailRelease(Done(f), Served(f))
  BY DEF RolloutNext, Steps
<1> HIDE DEF Done, Served
<1>4. ASSUME step' \in [Inst -> StepStatus], desired' \in [Inst -> DesiredState],
             status' \in {status, "updating_acs", "draining_local"},
             UNCHANGED <<versions, releaseTask, taskVars>>
      PROVE  TypeInv'
  <2>1. TypeTasks' /\ (releaseTask' # 0 => task'[releaseTask'] \in TaskRec)
    BY <1>4 DEF TypeInv, TypeTasks, Linked, taskVars
  <2>2. status' \in StatusValue
    BY <1>4 DEF StatusValue, ActiveStatus, TypeInv, TypeRows
  <2>. QED
    BY <1>1, <1>4, <2>1, <2>2, TickFrame
<1>5. CASE /\ step' = Done(N + 1) /\ desired' = Served(N + 1) /\ status' = "updating_acs"
           /\ UNCHANGED <<versions, releaseTask, taskVars>>
  BY <1>2, <1>4, <1>5
<1>6. ASSUME NEW f \in Inst,
             \/ /\ step' = [Done(f) EXCEPT ![f] = "draining"]
                /\ desired' = [Served(f) EXCEPT ![f] = "draining"]
                /\ status' = "draining_local"
             \/ step' = Done(f) /\ desired' = Served(f) /\ UNCHANGED status,
             UNCHANGED <<versions, releaseTask, taskVars>>
      PROVE  TypeInv'
  <2>1. step' \in [Inst -> StepStatus] /\ desired' \in [Inst -> DesiredState]
    BY <1>2, <1>6, SMT DEF StepStatus, BusyStep, DesiredState
  <2>. QED
    BY <1>4, <1>6, <2>1
<1>7. ASSUME NEW f \in Inst, QueueTask(f, "update"),
             step' = [Done(f) EXCEPT ![f] = "updating"], desired' = Served(f),
             status' = "updating_local", UNCHANGED versions
      PROVE  TypeInv'
  <2>1. step' \in [Inst -> StepStatus] /\ status' \in StatusValue
    BY <1>2, <1>7, SMT DEF StepStatus, BusyStep, StatusValue, ActiveStatus
  <2>. QED
    BY <1>1, <1>2, <1>7, <2>1, QueueType, TickFrame
<1>8. ASSUME NEW f \in Inst, FailRelease(Done(f), Served(f)) PROVE TypeInv'
  BY <1>1, <1>2, <1>8, TickFail
<1>. QED
  BY <1>3, <1>5, <1>6, <1>7, <1>8

\* The statuses in which the loop talks to the cluster.
LEMMA TypeCluster ==
    ASSUME TypeInv, UNCHANGED tickFrame,
           PrepareGuard \/ WaitGuard \/ UpdateAcs \/ WaitAcs \/ CleanGuard
    PROVE  TypeInv'
<1>1. /\ step \in [Inst -> StepStatus] /\ desired \in [Inst -> DesiredState]
      /\ acsImage \in Image /\ guard \in GuardRec /\ guard.desired \in DesiredState
      /\ Active => desiredImage \in Image
  BY SMT DEF TypeInv, TypeRows, Linked, GuardRec
<1>2. /\ [guard EXCEPT !.deployed = TRUE] \in GuardRec
      /\ [guard EXCEPT !.deployed = FALSE] \in GuardRec
      /\ [[guard EXCEPT !.deployed = TRUE] EXCEPT !.named = TRUE] \in GuardRec
  BY <1>1, Zenon DEF GuardRec
<1>3. CASE PrepareGuard
  <2>1. Active /\ acsImage' \in Image /\ guard' \in GuardRec
    BY <1>1, <1>2, <1>3, Zenon DEF PrepareGuard, EnsureReleaseGuard, Active, ActiveStatus
  <2>2. CASE FailRelease(step, desired)
    BY <1>1, <2>1, <2>2, TickFail
  <2>3. CASE ~FailRelease(step, desired)
    BY <1>3, <2>1, <2>3, TickQuiet DEF PrepareGuard, StatusValue, ActiveStatus
  <2>. QED
    BY <2>2, <2>3
<1>4. CASE WaitGuard
  <2>1. Active /\ acsImage' \in Image /\ guard' \in GuardRec
    BY <1>1, <1>4 DEF WaitGuard, Active, ActiveStatus
  <2>2. CASE FailRelease(step, desired)
    BY <1>1, <2>1, <2>2, TickFail
  <2>3. CASE ~FailRelease(step, desired)
    BY <1>4, <2>1, <2>3, TickQuiet DEF WaitGuard, StatusValue, ActiveStatus
  <2>. QED
    BY <2>2, <2>3
<1>5. CASE UpdateAcs
  <2>1. Active /\ acsImage' \in Image /\ guard' \in GuardRec
    BY <1>1, <1>5 DEF UpdateAcs, WorkloadImage, Active, ActiveStatus
  <2>2. CASE FailRelease(step, desired)
    BY <1>1, <2>1, <2>2, TickFail
  <2>3. CASE ~FailRelease(step, desired)
    BY <1>5, <2>1, <2>3, TickQuiet DEF UpdateAcs, StatusValue, ActiveStatus
  <2>. QED
    BY <2>2, <2>3
<1>6. CASE WaitAcs
  <2>1. Active /\ acsImage' \in Image /\ guard' \in GuardRec
    BY <1>1, <1>6 DEF WaitAcs, Active, ActiveStatus
  <2>2. CASE FailRelease(step, desired)
    BY <1>1, <2>1, <2>2, TickFail
  <2>3. CASE CompleteRelease
    BY <2>1, <2>3, TickComplete
  <2>4. CASE ~FailRelease(step, desired) /\ ~CompleteRelease
    BY <1>6, <2>1, <2>4, TickQuiet DEF WaitAcs, StatusValue, ActiveStatus
  <2>. QED
    BY <2>2, <2>3, <2>4
<1>7. CASE CleanGuard
  <2> DEFINE shown == guard.seen /\ guard.monitored
             d == IF shown /\ guard.desired = "serve" THEN "draining" ELSE guard.desired
             gone == DeleteReleaseGuard(guard)
  <2>1. d \in DesiredState /\ gone \in GuardRec
    BY <1>1, <1>2 DEF DesiredState, DeleteReleaseGuard
  <2>2. \/ guard' \in {[guard EXCEPT !.desired = d], [gone EXCEPT !.desired = d]}
        \/ guard' = [gone EXCEPT !.desired = d,
                                 !.monitored = IF shown THEN FALSE ELSE @]
    BY <1>7 DEF CleanGuard
  <2> HIDE DEF gone, d
  <2>3. guard' \in GuardRec
    <3>1. /\ [guard EXCEPT !.desired = d] \in GuardRec
          /\ [gone EXCEPT !.desired = d] \in GuardRec
      BY <1>1, <2>1, Zenon DEF GuardRec
    <3>2. [gone EXCEPT !.desired = d, !.monitored = IF shown THEN FALSE ELSE @] \in GuardRec
      BY <2>1, Zenon DEF GuardRec
    <3>. QED
      BY <2>2, <3>1, <3>2
  <2>4. Active /\ acsImage' \in Image
    BY <1>1, <1>7 DEF CleanGuard, Active, ActiveStatus
  <2>5. \/ UNCHANGED <<status, step, versions, releaseTask, desired, taskVars>>
        \/ CompleteRelease
        \/ FailRelease(step, desired)
    BY <1>7 DEF CleanGuard
  <2>6. status \in StatusValue
    BY DEF TypeInv, TypeRows, StatusValue
  <2>. QED
    BY <1>1, <2>3, <2>4, <2>5, <2>6, TickFail, TickComplete, TickQuiet
<1>. QED
  BY <1>3, <1>4, <1>5, <1>6, <1>7

LEMMA TypeTick == ASSUME TypeInv, Tick PROVE TypeInv'
<1>1. CASE Abort /\ UNCHANGED tickFrame
  <2>1. acsImage' \in Image /\ guard' \in GuardRec
        /\ step \in [Inst -> StepStatus] /\ desired \in [Inst -> DesiredState]
    BY <1>1 DEF Abort, TypeInv, TypeRows
  <2>. QED
    BY <1>1, <2>1, TickFail DEF Abort
<1>2. CASE Progress /\ UNCHANGED tickFrame
  BY <1>2, TypePreflightResult, TypePreflightNext, TypeRolloutResult,
     TypeRolloutNext, TypeCluster DEF Progress
<1>. QED
  BY <1>1, <1>2 DEF Tick

-----------------------------------------------------------------------------
(* Steps of the operator, the business and the Agent.                      *)

LEMMA TypeStart ==
    ASSUME TypeInv, NEW target \in Image, StartImageRelease(target) PROVE TypeInv'
<1>1. /\ step' \in [Inst -> StepStatus] /\ desiredImage' \in Image
      /\ previousImage' \in Image /\ versions' \subseteq Image
  BY SMT DEF StartImageRelease, TypeInv, TypeRows, StepStatus, Local
<1>2. guard' \in GuardRec
  BY Zenon DEF StartImageRelease, NoGuard, GuardRec, DesiredState, ReportClass
<1>3. status' = "preflighting_local" /\ releaseTask' = 0 /\ timedOut' = FALSE
      /\ UNCHANGED <<acsImage, instanceVars, hostVars, taskVars>>
  BY DEF StartImageRelease
<1>4. TypeRows'
  BY <1>1, <1>3 DEF TypeInv, TypeRows, instanceVars, hostVars, ActiveStatus
<1>5. TypeTasks' /\ Linked'
  BY <1>1, <1>3, TaskIdFacts DEF TypeInv, TypeTasks, Linked, taskVars
<1>. QED
  BY <1>2, <1>4, <1>5 DEF TypeInv

\* Handlers that leave releases and tasks alone.
LEMMA InstanceFrame ==
    ASSUME TypeInv, UNCHANGED <<releaseVars, acsImage, taskVars>>,
           guard' \in GuardRec, UNCHANGED hostVars,
           desired' \in [Inst -> DesiredState], monitored' \in [Inst -> BOOLEAN],
           report' \in [Inst -> ReportClass], since' \in [Inst -> BOOLEAN],
           byOperator' \in [Inst -> BOOLEAN]
    PROVE  TypeInv'
<1>1. TypeRows'
  BY DEF TypeInv, TypeRows, releaseVars, hostVars
<1>2. TypeTasks' /\ Linked'
  BY DEF TypeInv, TypeTasks, Linked, releaseVars, taskVars, Active
<1>. QED
  BY <1>1, <1>2 DEF TypeInv

LEMMA TypeInstance ==
    ASSUME TypeInv, NEW i \in Inst,
           \/ \E r \in ReportClass : ReportLoad(i, r)
           \/ EnterMaintenance(i) \/ ExitMaintenance(i)
           \/ \E on \in BOOLEAN : UpdateMonitoring(i, on)
    PROVE  TypeInv'
<1> USE DEF TypeInv, TypeRows
<1>1. ASSUME NEW r \in ReportClass, ReportLoad(i, r) PROVE TypeInv'
  <2>1. AfterReport(desired[i], r) \in DesiredState
    BY AfterReportType
  <2>2. desired' \in [Inst -> DesiredState] /\ report' \in [Inst -> ReportClass]
        /\ since' \in [Inst -> BOOLEAN]
    BY <1>1, <2>1 DEF ReportLoad
  <2>. QED
    BY <1>1, <2>2, InstanceFrame DEF ReportLoad
<1>2. CASE EnterMaintenance(i) \/ ExitMaintenance(i)
  <2>1. desired' \in [Inst -> DesiredState] /\ byOperator' \in [Inst -> BOOLEAN]
    BY <1>2 DEF EnterMaintenance, ExitMaintenance, DesiredState
  <2>. QED
    BY <1>2, <2>1, InstanceFrame DEF EnterMaintenance, ExitMaintenance
<1>3. ASSUME NEW on \in BOOLEAN, UpdateMonitoring(i, on) PROVE TypeInv'
  <2>1. desired' \in [Inst -> DesiredState]
    BY <1>3 DEF UpdateMonitoring, DesiredState
  <2>2. monitored' \in [Inst -> BOOLEAN] /\ byOperator' \in [Inst -> BOOLEAN]
    BY <1>3, Zenon DEF UpdateMonitoring
  <2>. QED
    BY <1>3, <2>1, <2>2, InstanceFrame DEF UpdateMonitoring
<1>. QED
  BY <1>1, <1>2, <1>3

LEMMA TypeGuard ==
    ASSUME TypeInv,
           \/ \E r \in ReportClass : GuardReport(r)
           \/ GuardStale
           \/ \E on \in BOOLEAN : UpdateGuardMonitoring(on)
    PROVE  TypeInv'
<1>1. guard \in GuardRec /\ guard.desired \in DesiredState
  BY DEF TypeInv, GuardRec
<1>2. guard' \in GuardRec
  <2>1. ASSUME NEW r \in ReportClass, GuardReport(r) PROVE guard' \in GuardRec
    <3>1. AfterReport(guard.desired, r) \in DesiredState
      BY <1>1, AfterReportType
    <3>. QED
      BY <1>1, <2>1, <3>1, Zenon DEF GuardReport, GuardRec
  <2>2. CASE GuardStale
    BY <1>1, <2>2, Zenon DEF GuardStale, GuardRec
  <2>3. ASSUME NEW on \in BOOLEAN, UpdateGuardMonitoring(on) PROVE guard' \in GuardRec
    <3>1. (IF on THEN guard.desired ELSE "serve") \in DesiredState
      BY <1>1 DEF DesiredState
    <3>. QED
      BY <1>1, <2>3, <3>1, Zenon DEF UpdateGuardMonitoring, GuardRec
  <2>. QED
    BY <2>1, <2>2, <2>3
<1>3. UNCHANGED <<releaseVars, acsImage, instanceVars, hostVars, taskVars>>
  BY DEF GuardReport, GuardStale, UpdateGuardMonitoring
<1>. QED
  BY <1>2, <1>3, InstanceFrame DEF TypeInv, TypeRows, instanceVars

\* Handlers that leave the release alone.
LEMMA TaskFrame ==
    ASSUME TypeInv, UNCHANGED <<releaseVars, acsImage, guard>>,
           UNCHANGED <<desired, monitored, report, byOperator>>,
           since' \in [Inst -> BOOLEAN], row' \in [Inst -> RowState],
           image' \in [Inst -> Image], actual' \in [Inst -> Image],
           replaced' \in [Inst -> BOOLEAN],
           task' \in [TaskId -> AnyTask], nextTask' \in Nat,
           releaseTask # 0 => task'[releaseTask] \in TaskRec
    PROVE  TypeInv'
<1>1. TypeRows'
  BY DEF TypeInv, TypeRows, releaseVars
<1>2. TypeTasks' /\ Linked'
  BY DEF TypeInv, TypeTasks, Linked, releaseVars, Active
<1>. QED
  BY <1>1, <1>2 DEF TypeInv

LEMMA TypeCreateAction ==
    ASSUME TypeInv, NEW i \in Inst, NEW target \in Image, CreateAction(i, target)
    PROVE  TypeInv'
<1> DEFINE new == [inst |-> i, kind |-> "update", target |-> target,
                   st |-> "pending", ph |-> "queued", bound |-> TRUE,
                   live |-> ~replaced[i]]
<1>1. new \in TaskRec
  BY Zenon DEF TaskRec
<1>2. task' = [task EXCEPT ![nextTask] = new] /\ nextTask' = nextTask + 1
      /\ nextTask \in TaskId
      /\ UNCHANGED <<releaseVars, acsImage, guard, instanceVars, hostVars>>
  BY DEF CreateAction
<1> HIDE DEF new
<1>3. task' \in [TaskId -> AnyTask] /\ nextTask' \in Nat
  BY <1>1, <1>2, SMT DEF TypeInv, TypeTasks, AnyTask
<1>4. releaseTask # 0 => task'[releaseTask] \in TaskRec
  BY <1>1, <1>2, TaskIdFacts, SMT DEF TypeInv, TypeTasks, Linked
<1>. QED
  BY <1>2, <1>3, <1>4, TaskFrame DEF TypeInv, TypeRows, instanceVars, hostVars

LEMMA TypeHeartbeat ==
    ASSUME TypeInv, NEW i \in Inst, NEW s \in RowState, Heartbeat(i, s)
    PROVE  TypeInv'
<1>1. UNCHANGED <<releaseVars, acsImage, guard, instanceVars, actual, nextTask>>
      /\ row' = [row EXCEPT ![i] = s]
  BY DEF Heartbeat
<1>2. image' \in [Inst -> Image] /\ replaced' \in [Inst -> BOOLEAN]
      /\ row' \in [Inst -> RowState]
  BY <1>1 DEF Heartbeat, TypeInv, TypeRows
<1>3. \A t \in TasksOf(i) : /\ task[t] \in TaskRec
                            /\ [task[t] EXCEPT !.bound = FALSE] \in TaskRec
  <2>1. \A t \in TasksOf(i) : task[t] \in TaskRec
    BY UnfinishedFacts DEF TasksOf
  <2>. QED
    BY <2>1, Zenon DEF TaskRec
<1>4. task' \in [TaskId -> AnyTask]
      /\ (releaseTask # 0 => task'[releaseTask] \in TaskRec)
  BY <1>3, TaskIdFacts DEF Heartbeat, TypeInv, TypeTasks, AnyTask, Linked
<1>. QED
  BY <1>1, <1>2, <1>4, TaskFrame DEF TypeInv, TypeRows, TypeTasks, instanceVars

LEMMA TypeNextTask ==
    ASSUME TypeInv, NEW i \in Inst, NextTask(i) PROVE TypeInv'
<1>1. UNCHANGED <<releaseVars, acsImage, guard, instanceVars, hostVars, nextTask>>
  BY DEF NextTask
<1> DEFINE Handed(S, first, phase) ==
             [t \in TaskId |->
                IF t = first THEN [task[t] EXCEPT !.st = "dispatched", !.ph = phase]
                ELSE IF t \in S THEN [task[t] EXCEPT !.st = "pending"]
                ELSE task[t]]
<1>2. PICK Stale \in SUBSET TasksOf(i), f \in TasksOf(i), got \in {"queued", "run"} :
        task' = Handed(Stale, f, got)
  <2> HIDE DEF Handed
  <2>1. PICK Stale \in SUBSET {t \in TasksOf(i) : task[t].st = "dispatched"} :
          \E f \in Stale \cup {t \in TasksOf(i) : task[t].st = "pending"},
             got \in {"queued", "run"} : task' = Handed(Stale, f, got)
    BY Zenon DEF NextTask, Handed
  <2>. QED
    BY <2>1
<1>3. \A t \in TasksOf(i) :
        /\ task[t] \in TaskRec
        /\ [task[t] EXCEPT !.st = "dispatched", !.ph = got] \in TaskRec
        /\ [task[t] EXCEPT !.st = "pending"] \in TaskRec
  <2>1. \A t \in TasksOf(i) : task[t] \in TaskRec
    BY UnfinishedFacts DEF TasksOf
  <2>2. got \in {"queued", "run", "ok", "bad"}
    OBVIOUS
  <2>. QED
    BY <2>1, <2>2, TaskFacts
<1>4. task' \in [TaskId -> AnyTask]
      /\ (releaseTask # 0 => task'[releaseTask] \in TaskRec)
  BY <1>2, <1>3, TaskIdFacts DEF TypeInv, TypeTasks, AnyTask, Linked
<1>. QED
  BY <1>1, <1>4, TaskFrame DEF TypeInv, TypeRows, TypeTasks, instanceVars, hostVars

LEMMA TypeExecute ==
    ASSUME TypeInv, NEW t \in TaskId, Execute(t) \/ LoseResult(t) PROVE TypeInv'
<1>1. UNCHANGED <<releaseVars, acsImage, guard, instanceVars, row, image, nextTask>>
  BY DEF Execute, LoseResult, hostVars
<1>2. task[t] \in TaskRec /\ task[t].inst \in Inst /\ task[t].target \in Image
  <2>1. Unfinished(t)
    BY DEF Execute, LoseResult
  <2>. QED
    BY <2>1, UnfinishedFacts DEF TaskRec
<1>3. actual' \in [Inst -> Image] /\ replaced' \in [Inst -> BOOLEAN]
  BY <1>2 DEF Execute, LoseResult, TypeInv, TypeRows, hostVars
<1>4. \/ \E p \in {"queued", "ok", "bad"} : task' = [task EXCEPT ![t].ph = p]
      \/ task' = [u \in TaskId |->
                    IF u = t THEN [task[u] EXCEPT !.ph = "ok", !.live = FALSE]
                    ELSE IF u \in TasksOf(task[t].inst) THEN [task[u] EXCEPT !.live = FALSE]
                    ELSE task[u]]
  BY DEF Execute, LoseResult
<1>5. /\ \A p \in {"queued", "ok", "bad"} : [task[t] EXCEPT !.ph = p] \in TaskRec
      /\ [task[t] EXCEPT !.ph = "ok", !.live = FALSE] \in TaskRec
      /\ \A u \in TasksOf(task[t].inst) : [task[u] EXCEPT !.live = FALSE] \in TaskRec
  <2>1. \A u \in TasksOf(task[t].inst) : task[u] \in TaskRec
    BY UnfinishedFacts DEF TasksOf
  <2>. QED
    BY <1>2, <2>1, Zenon DEF TaskRec
<1>6. task' \in [TaskId -> AnyTask]
      /\ (releaseTask # 0 => task'[releaseTask] \in TaskRec)
  <2>1. \A u \in TaskId : task'[u] \in {task[u]} \cup TaskRec
    BY <1>4, <1>5 DEF TypeInv, TypeTasks
  <2>2. task \in [TaskId -> AnyTask] /\ task' \in [TaskId -> AnyTask]
    <3>1. task \in [TaskId -> AnyTask] /\ DOMAIN task' = TaskId /\ task' = [u \in TaskId |-> task'[u]]
      BY <1>4 DEF TypeInv, TypeTasks
    <3>. QED
      BY <2>1, <3>1 DEF AnyTask
  <2>. QED
    BY <2>1, <2>2, TaskIdFacts DEF TypeInv, TypeTasks, Linked
<1>. QED
  BY <1>1, <1>3, <1>6, TaskFrame DEF TypeInv, TypeRows, TypeTasks, instanceVars

LEMMA TypeTaskResult ==
    ASSUME TypeInv, NEW t \in TaskId, TaskResult(t) PROVE TypeInv'
<1>1. UNCHANGED <<releaseVars, acsImage, guard, desired, monitored, report,
                  byOperator, actual, nextTask>>
  BY DEF TaskResult
<1>2. task[t] \in TaskRec /\ task[t].inst \in Inst /\ task[t].target \in Image
  BY UnfinishedFacts, SMT DEF TaskResult, TaskRec
<1>3. image' \in [Inst -> Image] /\ replaced' \in [Inst -> BOOLEAN]
      /\ since' \in [Inst -> BOOLEAN]
  BY <1>2 DEF TaskResult, TypeInv, TypeRows
<1>4. row' \in [Inst -> RowState]
  BY <1>2 DEF TaskResult, TypeInv, TypeRows, RowState
<1>5. \/ t # releaseTask /\ task' = [task EXCEPT ![t] = NoTask]
      \/ \E s \in {"success", "failed"} :
           task' = [task EXCEPT ![t] = [task[t] EXCEPT !.st = s]]
  BY DEF TaskResult
<1>6. \A s \in {"success", "failed"} : [task[t] EXCEPT !.st = s] \in TaskRec
  BY <1>2, Zenon DEF TaskRec
<1>7. task' \in [TaskId -> AnyTask]
      /\ (releaseTask # 0 => task'[releaseTask] \in TaskRec)
  BY <1>5, <1>6, TaskIdFacts DEF TypeInv, TypeTasks, AnyTask, Linked
<1>. QED
  BY <1>1, <1>3, <1>4, <1>7, TaskFrame DEF TypeInv, TypeRows, TypeTasks

LEMMA TypeNext == ASSUME TypeInv, [Next]_vars PROVE TypeInv'
<1>1. CASE Release \/ Rollback \/ RollbackToVersion
  <2>1. \E m \in Image : StartImageRelease(m)
    BY <1>1 DEF Release, Rollback, RollbackToVersion, TypeInv, TypeRows
  <2>. QED
    BY <2>1, TypeStart
<1>2. CASE Deadline
  <2>1. TypeRows' /\ TypeTasks' /\ Linked' /\ guard' = guard
    BY <1>2 DEF Deadline, TypeInv, TypeRows, TypeTasks, Linked, Active,
       instanceVars, hostVars, taskVars
  <2>. QED
    BY <2>1 DEF TypeInv
<1>3. CASE Operator
  BY <1>3, TypeInstance, TypeGuard, TypeCreateAction DEF Operator
<1>4. CASE Business
  BY <1>4, TypeInstance, TypeGuard DEF Business
<1>5. CASE Agent
  BY <1>5, TypeNextTask, TypeHeartbeat, TypeExecute, TypeTaskResult DEF Agent, RowState
<1>6. CASE UNCHANGED vars
  <2>1. TypeRows' /\ TypeTasks' /\ Linked' /\ guard' = guard
    BY <1>6 DEF vars, releaseVars, TypeInv, TypeRows, TypeTasks, Linked, Active,
       instanceVars, hostVars, taskVars
  <2>. QED
    BY <2>1 DEF TypeInv
<1>. QED
  BY <1>1, <1>2, <1>3, <1>4, <1>5, <1>6, TypeTick DEF Next

LEMMA ReleaseTypeInv == Spec => []TypeInv
BY TypeInit, TypeNext, PTL DEF Spec

\* For any number of instances, images and tasks, every column keeps to its values.
THEOREM ReleaseTypeCorrect == Spec => []TypeOK
BY ReleaseTypeInv, TypeSplit, PTL

-----------------------------------------------------------------------------
(* One instance at a time.                                                 *)

Busy(i) == step[i] \in BusyStep
NoneBusy == \A i \in Inst : ~Busy(i)

\* Ids are never reused.
IdInv == releaseTask < nextTask

\* While instances are prepared, the busy one is that of the release's task; in the
\* rollout every instance before the busy one is completed, and an unfinished or
\* just finished task is about the busy one; otherwise none is busy.
BusyInv ==
    /\ status \notin Rollout \cup {"preflighting_local"} => NoneBusy /\ releaseTask = 0
    /\ status = "preflighting_local" =>
         \A i \in Inst : Busy(i) => releaseTask # 0 /\ i = task[releaseTask].inst
    /\ status \in Rollout =>
         /\ \A i \in Inst : Busy(i) =>
              \A j \in Inst : j < i => step[j] \in {"none", "completed"}
         /\ releaseTask # 0 => Busy(task[releaseTask].inst)

\* An instance is out of service because an operator asked for it or because the
\* rollout is at its step.
Out(i) == desired[i] \in {"draining", "maintenance"}
OutInv == \A i \in Inst : Out(i) => byOperator[i] \/ (status \in Rollout /\ Busy(i))

SafeInv == TypeInv /\ IdInv /\ BusyInv /\ OutInv

LEMMA OrderFacts ==
    /\ N \in Nat /\ Inst \subseteq Nat
    /\ \A i, j \in Inst : i < j \/ j < i \/ i = j
    /\ \A i \in Inst : i < N + 1
    /\ \A i, j \in Inst : ~(i < j /\ j < i)
BY NAssumption, SMT DEF Inst

LEMMA BusyFacts ==
    /\ {"none", "completed", "pending", "prepared", "failed"} \cap BusyStep = {}
    /\ {"none", "completed", "pending", "prepared", "failed"} \cup BusyStep = StepStatus
BY DEF BusyStep, StepStatus

LEMMA SafeOneBusy == ASSUME SafeInv PROVE OneBusyStep
<1> SUFFICES ASSUME NEW i \in Inst, NEW j \in Inst, Busy(i), Busy(j), i # j
             PROVE  FALSE
  BY DEF OneBusyStep, Busy
<1>. QED
  BY OrderFacts, BusyFacts DEF SafeInv, BusyInv, Busy, NoneBusy

LEMMA SafeInit == Init => SafeInv
<1> SUFFICES ASSUME Init PROVE SafeInv
  OBVIOUS
<1>1. TypeInv
  BY TypeInit
<1>2. IdInv
  BY DEF Init, IdInv
<1>3. BusyInv /\ OutInv
  BY BusyFacts DEF Init, BusyInv, OutInv, Out, NoneBusy, Busy, Rollout
<1>. QED
  BY <1>1, <1>2, <1>3 DEF SafeInv

\* _fail_release misses no busy step where there is at most one, and then no
\* instance is left out of service.
LEMMA FailSafe ==
    ASSUME SafeInv, UNCHANGED tickFrame,
           NEW stp \in [Inst -> StepStatus], NEW des \in [Inst -> DesiredState],
           FailRelease(stp, des),
           \A i, j \in Inst : stp[i] \in BusyStep /\ stp[j] \in BusyStep => i = j,
           \A i \in Inst : des[i] \in {"draining", "maintenance"}
                           => byOperator[i] \/ stp[i] \in BusyStep
    PROVE  IdInv' /\ BusyInv' /\ OutInv'
<1>1. status' = "failed" /\ releaseTask' = 0 /\ nextTask' = nextTask
      /\ byOperator' = byOperator
  BY DEF FailRelease, tickFrame
<1>2. \A i \in Inst : /\ step'[i] \notin BusyStep
                      /\ desired'[i] \in {"draining", "maintenance"} => byOperator[i]
  BY BusyFacts DEF FailRelease, Restored
<1>3. IdInv'
  BY <1>1, TaskIdFacts, SMT DEF SafeInv, TypeInv, TypeTasks, IdInv
<1>. QED
  BY <1>1, <1>2, <1>3 DEF BusyInv, OutInv, Out, NoneBusy, Busy, Rollout

LEMMA SafePreflightResult ==
    ASSUME SafeInv, UNCHANGED tickFrame, PreflightResult PROVE IdInv' /\ BusyInv' /\ OutInv'
<1>1. step \in [Inst -> StepStatus] /\ desired \in [Inst -> DesiredState]
  BY DEF SafeInv, TypeInv, TypeRows
<1>2. CASE task[releaseTask].st # "success"
  BY <1>1, <1>2, SafeOneBusy, FailSafe
     DEF PreflightResult, OneBusyStep, SafeInv, OutInv, Out, Busy
<1>3. CASE task[releaseTask].st = "success"
  <2>1. /\ step' = [step EXCEPT ![task[releaseTask].inst] = "prepared"]
        /\ status' = "preflighting_local" /\ releaseTask' = 0 /\ nextTask' = nextTask
        /\ desired' = desired /\ byOperator' = byOperator
    BY <1>3 DEF PreflightResult, DropTask, tickFrame
  <2>2. \A i \in Inst : step'[i] \notin BusyStep
    BY <1>1, <2>1, BusyFacts DEF PreflightResult, SafeInv, BusyInv, Busy
  <2>3. IdInv'
    BY <2>1, TaskIdFacts, SMT DEF SafeInv, TypeInv, TypeTasks, IdInv
  <2>. QED
    BY <2>1, <2>2, <2>3 DEF PreflightResult, SafeInv, BusyInv, OutInv, Out, Busy, Rollout
<1>. QED
  BY <1>2, <1>3

LEMMA SafePreflightNext ==
    ASSUME SafeInv, UNCHANGED tickFrame, PreflightNext PROVE IdInv' /\ BusyInv' /\ OutInv'
<1> DEFINE Done(f) == [i \in Inst |-> IF step[i] = "pending" /\ i < f
                                      THEN "completed" ELSE step[i]]
<1>1. /\ status = "preflighting_local" /\ releaseTask = 0 /\ byOperator' = byOperator
      /\ step \in [Inst -> StepStatus] /\ desired \in [Inst -> DesiredState]
      /\ \A i \in Inst : step[i] \notin BusyStep
      /\ \A i \in Inst : Out(i) => byOperator[i]
  BY DEF PreflightNext, tickFrame, SafeInv, TypeInv, TypeRows, BusyInv, Busy, OutInv, Rollout
<1>2. \A f : /\ Done(f) \in [Inst -> StepStatus]
             /\ \A i \in Inst : Done(f)[i] \notin BusyStep
  BY <1>1, BusyFacts
<1>3. \/ /\ step' = Done(N + 1) /\ status' \in {"preparing_guard", "draining_local"}
         /\ UNCHANGED <<versions, releaseTask, desired, taskVars>>
      \/ \E f \in Inst :
           \/ /\ QueueTask(f, "prepare") /\ step' = [Done(f) EXCEPT ![f] = "preparing"]
              /\ UNCHANGED <<status, versions, desired>>
           \/ FailRelease(Done(f), desired)
  BY DEF PreflightNext
<1> HIDE DEF Done
<1>4. CASE /\ step' = Done(N + 1) /\ status' \in {"preparing_guard", "draining_local"}
           /\ UNCHANGED <<versions, releaseTask, desired, taskVars>>
  BY <1>1, <1>2, <1>4
     DEF SafeInv, IdInv, BusyInv, NoneBusy, Busy, OutInv, Out, Rollout, taskVars
<1>5. ASSUME NEW f \in Inst, QueueTask(f, "prepare"),
             step' = [Done(f) EXCEPT ![f] = "preparing"],
             UNCHANGED <<status, versions, desired>>
      PROVE  IdInv' /\ BusyInv' /\ OutInv'
  <2>1. /\ releaseTask' = nextTask /\ nextTask' = nextTask + 1 /\ nextTask \in TaskId
        /\ task'[nextTask].inst = f
    BY <1>1, <1>5, QueueType DEF QueueTask, SafeInv, Active, ActiveStatus
  <2>2. IdInv' /\ releaseTask' # 0
    BY <2>1, TaskIdFacts, SMT DEF IdInv, SafeInv, TypeInv, TypeTasks
  <2>3. \A i \in Inst : Busy(i)' => i = f
    BY <1>2, <1>5 DEF Busy
  <2>. QED
    BY <1>1, <1>5, <2>1, <2>2, <2>3 DEF BusyInv, NoneBusy, OutInv, Out, Rollout
<1>6. ASSUME NEW f \in Inst, FailRelease(Done(f), desired)
      PROVE  IdInv' /\ BusyInv' /\ OutInv'
  BY <1>1, <1>2, <1>6, FailSafe DEF Out
<1>. QED
  BY <1>3, <1>4, <1>5, <1>6

LEMMA SafeRolloutResult ==
    ASSUME SafeInv, UNCHANGED tickFrame, RolloutResult PROVE IdInv' /\ BusyInv' /\ OutInv'
<1> DEFINE i == task[releaseTask].inst
<1>1. /\ status \in Rollout /\ releaseTask # 0 /\ i \in Inst /\ Busy(i)
      /\ byOperator' = byOperator
      /\ step \in [Inst -> StepStatus] /\ desired \in [Inst -> DesiredState]
      /\ \A j \in Inst : Busy(j) => j = i
  BY ReleaseTaskFacts, SafeOneBusy
     DEF RolloutResult, tickFrame, SafeInv, TypeInv, TypeRows, BusyInv, OneBusyStep, Busy
<1>2. CASE FailRelease(step, desired)
  BY <1>1, <1>2, SafeOneBusy, FailSafe DEF OneBusyStep, SafeInv, OutInv, Out, Busy
<1>3. CASE /\ desired' = [desired EXCEPT ![i] = "serve"]
           /\ step' = [step EXCEPT ![i] = "completed"]
           /\ status' = "draining_local" /\ DropTask
  <2>1. releaseTask' = 0 /\ nextTask' = nextTask
    BY <1>3 DEF DropTask
  <2>2. \A j \in Inst : step'[j] \notin BusyStep
    BY <1>1, <1>3, BusyFacts DEF Busy
  <2>3. \A j \in Inst : Out(j)' => byOperator[j]
    BY <1>1, <1>3 DEF SafeInv, OutInv, Out
  <2>4. IdInv'
    BY <2>1, TaskIdFacts, SMT DEF SafeInv, TypeInv, TypeTasks, IdInv
  <2>. QED
    BY <1>1, <1>3, <2>1, <2>2, <2>3, <2>4 DEF BusyInv, OutInv, Busy, Rollout
<1>4. CASE /\ desired' = [desired EXCEPT ![i] = "restoring"]
           /\ step' = [step EXCEPT ![i] = "verifying"]
           /\ status' = "verifying_local" /\ UNCHANGED <<releaseTask, taskVars>>
  <2>1. \A j \in Inst : /\ Busy(j)' <=> Busy(j)
                        /\ j # i => step'[j] = step[j]
                        /\ Out(j)' => Out(j) /\ j # i
    BY <1>1, <1>4 DEF Busy, Out, BusyStep
  <2>2. \A j \in Inst : j < i => j # i
    BY <1>1, OrderFacts
  <2>3. BusyInv'
    BY <1>1, <1>4, <2>1, <2>2 DEF SafeInv, BusyInv, taskVars, Rollout
  <2>. QED
    BY <1>1, <1>4, <2>1, <2>3 DEF SafeInv, IdInv, OutInv, taskVars, Rollout
<1>. QED
  BY <1>2, <1>3, <1>4 DEF RolloutResult

LEMMA SafeRolloutNext ==
    ASSUME SafeInv, UNCHANGED tickFrame, RolloutNext PROVE IdInv' /\ BusyInv' /\ OutInv'
<1> DEFINE Open == {i \in Steps : step[i] # "completed"}
           Done(f) == [i \in Inst |-> IF i \in Open /\ i < f
                                      THEN "completed" ELSE step[i]]
           Served(f) == [i \in Inst |-> IF i \in Open /\ i < f
                                        THEN "serve" ELSE desired[i]]
<1>1. /\ status \in Rollout /\ releaseTask = 0 /\ byOperator' = byOperator
      /\ step \in [Inst -> StepStatus] /\ desired \in [Inst -> DesiredState]
      /\ \A i \in Inst : Busy(i) => i \in Open
      /\ \A i, j \in Inst : Busy(i) /\ j < i => j \notin Open
      /\ \A i \in Inst : Out(i) => byOperator[i] \/ Busy(i)
  BY BusyFacts
     DEF RolloutNext, tickFrame, SafeInv, TypeInv, TypeRows, BusyInv, Busy, OutInv, Steps
<1>2. \A f : /\ Done(f) \in [Inst -> StepStatus] /\ Served(f) \in [Inst -> DesiredState]
             /\ \A i \in Inst : /\ i < f => Done(f)[i] \in {"none", "completed"}
                                /\ Done(f)[i] \in BusyStep => Busy(i) /\ ~(i < f)
                                /\ Served(f)[i] \in {"draining", "maintenance"}
                                   => byOperator[i] \/ (Busy(i) /\ ~(i < f))
                                /\ ~(i < f) => Done(f)[i] = step[i]
  <2>1. "completed" \in StepStatus /\ "serve" \in DesiredState
    BY BusyFacts DEF DesiredState
  <2>. QED
    BY <1>1, <2>1, BusyFacts DEF Busy, Out, Steps
<1>3. \A f \in Open, i \in Inst : Busy(i) /\ ~(i < f) => i = f
  BY <1>1, OrderFacts DEF Steps
<1>4. \/ /\ step' = Done(N + 1) /\ desired' = Served(N + 1) /\ status' = "updating_acs"
         /\ UNCHANGED <<versions, releaseTask, taskVars>>
      \/ \E f \in Open :
           \/ /\ step' = [Done(f) EXCEPT ![f] = "draining"]
              /\ desired' = [Served(f) EXCEPT ![f] = "draining"]
              /\ status' = "draining_local"
              /\ UNCHANGED <<versions, releaseTask, taskVars>>
           \/ /\ QueueTask(f, "update") /\ step[f] = "draining"
              /\ step' = [Done(f) EXCEPT ![f] = "updating"]
              /\ desired' = Served(f) /\ status' = "updating_local"
              /\ UNCHANGED versions
           \/ /\ step' = Done(f) /\ desired' = Served(f) /\ step[f] = "draining"
              /\ UNCHANGED <<status, versions, releaseTask, taskVars>>
           \/ FailRelease(Done(f), Served(f))
  BY DEF RolloutNext
<1>5. Open \subseteq Inst
  BY DEF Steps
<1> HIDE DEF Done, Served, Open
<1>6. CASE /\ step' = Done(N + 1) /\ desired' = Served(N + 1) /\ status' = "updating_acs"
           /\ UNCHANGED <<versions, releaseTask, taskVars>>
  <2>1. \A i \in Inst : /\ step'[i] \notin BusyStep
                        /\ desired'[i] \in {"draining", "maintenance"} => byOperator[i]
    BY <1>2, <1>6, OrderFacts
  <2>. QED
    BY <1>1, <1>6, <2>1
       DEF SafeInv, IdInv, BusyInv, NoneBusy, Busy, OutInv, Out, Rollout, taskVars
<1>7. ASSUME NEW f \in Open, status' \in Rollout, step'[f] \in BusyStep,
             \A i \in Inst \ {f} : step'[i] = Done(f)[i] /\ desired'[i] = Served(f)[i],
             releaseTask' # 0 => task'[releaseTask'].inst = f, IdInv'
      PROVE  IdInv' /\ BusyInv' /\ OutInv'
  <2>1. \A i \in Inst : Busy(i)' => i = f
    BY <1>2, <1>3, <1>7 DEF Busy
  <2>2. \A i \in Inst : i < f => step'[i] \in {"none", "completed"}
    BY <1>2, <1>5, <1>7, OrderFacts
  <2>3. \A i \in Inst : Out(i)' => byOperator[i] \/ i = f
    BY <1>2, <1>3, <1>7 DEF Out
  <2>. QED
    BY <1>1, <1>7, <2>1, <2>2, <2>3 DEF BusyInv, OutInv, Busy, Rollout
<1>8. ASSUME NEW f \in Open,
             \/ /\ step' = [Done(f) EXCEPT ![f] = "draining"]
                /\ desired' = [Served(f) EXCEPT ![f] = "draining"]
                /\ status' = "draining_local"
             \/ /\ step' = Done(f) /\ desired' = Served(f) /\ step[f] = "draining"
                /\ UNCHANGED status,
             UNCHANGED <<versions, releaseTask, taskVars>>
      PROVE  IdInv' /\ BusyInv' /\ OutInv'
  <2>1. /\ step'[f] \in BusyStep /\ status' \in Rollout
        /\ \A i \in Inst \ {f} : step'[i] = Done(f)[i] /\ desired'[i] = Served(f)[i]
    <3>1. ~(f < f)
      BY <1>5, OrderFacts
    <3>. QED
      BY <1>1, <1>2, <1>5, <1>8, <3>1 DEF BusyStep, Rollout
  <2>2. releaseTask' = 0 /\ IdInv'
    BY <1>1, <1>8 DEF SafeInv, IdInv, taskVars
  <2>. QED
    BY <1>7, <2>1, <2>2
<1>9. ASSUME NEW f \in Open, QueueTask(f, "update"),
             step' = [Done(f) EXCEPT ![f] = "updating"], desired' = Served(f),
             status' = "updating_local"
      PROVE  IdInv' /\ BusyInv' /\ OutInv'
  <2>1. /\ releaseTask' = nextTask /\ nextTask' = nextTask + 1 /\ nextTask \in TaskId
        /\ task'[nextTask].inst = f
    BY <1>1, <1>5, <1>9, QueueType DEF QueueTask, SafeInv, Active, ActiveStatus, Rollout
  <2>2. IdInv'
    BY <2>1, TaskIdFacts, SMT DEF IdInv, SafeInv, TypeInv, TypeTasks
  <2>3. /\ step'[f] \in BusyStep /\ status' \in Rollout
        /\ \A i \in Inst \ {f} : step'[i] = Done(f)[i] /\ desired'[i] = Served(f)[i]
    BY <1>2, <1>5, <1>9 DEF BusyStep, Rollout
  <2>. QED
    BY <1>7, <2>1, <2>2, <2>3
<1>10. ASSUME NEW f \in Open, FailRelease(Done(f), Served(f))
       PROVE  IdInv' /\ BusyInv' /\ OutInv'
  <2>1. \A i, j \in Inst : Done(f)[i] \in BusyStep /\ Done(f)[j] \in BusyStep => i = j
    BY <1>2, <1>3
  <2>2. \A i \in Inst : Served(f)[i] \in {"draining", "maintenance"}
                        => byOperator[i] \/ Done(f)[i] \in BusyStep
    BY <1>2 DEF Busy
  <2>. QED
    BY <1>2, <1>10, <2>1, <2>2, FailSafe
<1>. QED
  BY <1>4, <1>6, <1>8, <1>9, <1>10

\* The statuses in which the loop talks to the cluster.
LEMMA SafeCluster ==
    ASSUME SafeInv, UNCHANGED tickFrame,
           PrepareGuard \/ WaitGuard \/ UpdateAcs \/ WaitAcs \/ CleanGuard
    PROVE  IdInv' /\ BusyInv' /\ OutInv'
<1>1. /\ status \notin Rollout \cup {"preflighting_local"}
      /\ releaseTask = 0 /\ NoneBusy /\ byOperator' = byOperator
      /\ step \in [Inst -> StepStatus] /\ desired \in [Inst -> DesiredState]
      /\ \A i \in Inst : Out(i) => byOperator[i]
  BY DEF PrepareGuard, WaitGuard, UpdateAcs, WaitAcs, CleanGuard, Rollout,
     tickFrame, SafeInv, TypeInv, TypeRows, BusyInv, OutInv
<1>2. CASE FailRelease(step, desired)
  BY <1>1, <1>2, FailSafe DEF NoneBusy, Busy, Out
<1>3. \/ FailRelease(step, desired)
      \/ /\ UNCHANGED <<step, desired, taskVars>> /\ releaseTask' = 0
         /\ status' # "preflighting_local"
  BY <1>1 DEF PrepareGuard, WaitGuard, UpdateAcs, WaitAcs, CleanGuard, CompleteRelease
<1>4. CASE /\ UNCHANGED <<step, desired, taskVars>> /\ releaseTask' = 0
           /\ status' # "preflighting_local"
  <2>1. IdInv' /\ NoneBusy' /\ \A i \in Inst : Out(i)' => byOperator[i]
    BY <1>1, <1>4 DEF SafeInv, IdInv, NoneBusy, Busy, Out, taskVars
  <2>. QED
    BY <1>1, <1>4, <2>1 DEF BusyInv, NoneBusy, OutInv
<1>. QED
  BY <1>2, <1>3, <1>4

LEMMA SafeTick == ASSUME SafeInv, Tick PROVE SafeInv'
<1>1. CASE Abort /\ UNCHANGED tickFrame
  <2>1. /\ step \in [Inst -> StepStatus] /\ desired \in [Inst -> DesiredState]
        /\ FailRelease(step, desired)
    BY <1>1 DEF Abort, SafeInv, TypeInv, TypeRows
  <2>. QED
    BY <1>1, <2>1, FailSafe, SafeOneBusy, TypeTick
       DEF SafeInv, OneBusyStep, OutInv, Out, Busy
<1>2. CASE Progress /\ UNCHANGED tickFrame
  BY <1>2, SafePreflightResult, SafePreflightNext, SafeRolloutResult,
     SafeRolloutNext, SafeCluster, TypeTick DEF Progress, SafeInv
<1>. QED
  BY <1>1, <1>2 DEF Tick

\* The other steps: the release and its steps are left alone.
LEMMA SafeFrame ==
    ASSUME SafeInv, TypeInv', UNCHANGED <<status, step, releaseTask>>,
           nextTask' \in {nextTask, nextTask + 1},
           releaseTask # 0 => task'[releaseTask].inst = task[releaseTask].inst,
           \A i \in Inst : Out(i)' => \/ Out(i) /\ (byOperator[i] => byOperator'[i])
                                      \/ byOperator'[i]
    PROVE  SafeInv'
<1>1. IdInv'
  BY TaskIdFacts, SMT DEF SafeInv, IdInv, TypeInv, TypeTasks
<1>2. BusyInv'
  BY DEF SafeInv, BusyInv, NoneBusy, Busy
<1>3. OutInv'
  BY DEF SafeInv, OutInv, Busy
<1>. QED
  BY <1>1, <1>2, <1>3 DEF SafeInv

LEMMA SafeOperator == ASSUME SafeInv, Operator PROVE SafeInv'
<1> USE DEF SafeInv
<1>1. TypeInv'
  BY TypeInstance, TypeGuard, TypeCreateAction DEF Operator
<1>2. desired \in [Inst -> DesiredState] /\ byOperator \in [Inst -> BOOLEAN]
  BY DEF TypeInv, TypeRows
<1>3. ASSUME NEW i \in Inst, EnterMaintenance(i) PROVE SafeInv'
  BY <1>1, <1>2, <1>3, SafeFrame
     DEF EnterMaintenance, releaseVars, taskVars, Out
<1>4. ASSUME NEW i \in Inst, ExitMaintenance(i) PROVE SafeInv'
  BY <1>1, <1>2, <1>4, SafeFrame
     DEF ExitMaintenance, releaseVars, taskVars, Out
<1>5. ASSUME NEW i \in Inst, NEW on \in BOOLEAN, UpdateMonitoring(i, on) PROVE SafeInv'
  <2>1. \A j \in Inst : Out(j)' => Out(j) /\ (byOperator[j] => byOperator'[j])
    BY <1>2, <1>5 DEF UpdateMonitoring, Out
  <2>. QED
    BY <1>1, <1>5, <2>1, SafeFrame DEF UpdateMonitoring, releaseVars, taskVars
<1>6. ASSUME NEW i \in Inst, NEW m \in Image, CreateAction(i, m) PROVE SafeInv'
  <2>1. releaseTask # nextTask
    BY TaskIdFacts, SMT DEF TypeInv, TypeTasks, IdInv
  <2>2. releaseTask # 0 => task'[releaseTask].inst = task[releaseTask].inst
    BY <1>6, <2>1, ReleaseTaskFacts DEF CreateAction, TypeInv, TypeTasks
  <2>. QED
    BY <1>1, <1>6, <2>2, SafeFrame DEF CreateAction, releaseVars, instanceVars, Out
<1>7. ASSUME NEW on \in BOOLEAN, UpdateGuardMonitoring(on) PROVE SafeInv'
  BY <1>1, <1>7, SafeFrame
     DEF UpdateGuardMonitoring, releaseVars, instanceVars, taskVars, Out
<1>. QED
  BY <1>3, <1>4, <1>5, <1>6, <1>7 DEF Operator

LEMMA SafeBusiness == ASSUME SafeInv, Business PROVE SafeInv'
<1>1. TypeInv'
  BY TypeInstance, TypeGuard DEF Business, SafeInv
<1>2. ASSUME NEW i \in Inst, NEW r \in ReportClass, ReportLoad(i, r) PROVE SafeInv'
  <2>1. \A j \in Inst : Out(j)' => Out(j)
    BY <1>2 DEF ReportLoad, AfterReport, Out, SafeInv, TypeInv, TypeRows
  <2>. QED
    BY <1>1, <1>2, <2>1, SafeFrame DEF ReportLoad, releaseVars, taskVars
<1>3. CASE \/ \E r \in ReportClass : GuardReport(r)
           \/ GuardStale
  BY <1>1, <1>3, SafeFrame
     DEF GuardReport, GuardStale, releaseVars, instanceVars, taskVars, Out
<1>. QED
  BY <1>2, <1>3 DEF Business

\* No step of the Agent moves a task to another instance.
LEMMA AgentKeeps ==
    ASSUME TypeInv, Agent, releaseTask # 0
    PROVE  task'[releaseTask].inst = task[releaseTask].inst
<1> DEFINE k == releaseTask
<1>1. k \in TaskId /\ task[k] \in TaskRec /\ task \in [TaskId -> AnyTask]
  BY ReleaseTaskFacts DEF TypeInv, TypeTasks
<1>2. /\ [task[k] EXCEPT !.bound = FALSE].inst = task[k].inst
      /\ [task[k] EXCEPT !.st = "pending"].inst = task[k].inst
      /\ [task[k] EXCEPT !.st = "success"].inst = task[k].inst
      /\ [task[k] EXCEPT !.st = "failed"].inst = task[k].inst
      /\ [task[k] EXCEPT !.st = "dispatched", !.ph = "queued"].inst = task[k].inst
      /\ [task[k] EXCEPT !.st = "dispatched", !.ph = "run"].inst = task[k].inst
      /\ [task[k] EXCEPT !.ph = "ok", !.live = FALSE].inst = task[k].inst
      /\ [task[k] EXCEPT !.live = FALSE].inst = task[k].inst
      /\ [task[k] EXCEPT !.ph = "ok"].inst = task[k].inst
      /\ [task[k] EXCEPT !.ph = "bad"].inst = task[k].inst
      /\ [task[k] EXCEPT !.ph = "queued"].inst = task[k].inst
  BY <1>1, Zenon DEF TaskRec
<1>3. task'[k] \in {task[k],
             [task[k] EXCEPT !.bound = FALSE],
             [task[k] EXCEPT !.st = "pending"],
             [task[k] EXCEPT !.st = "success"], [task[k] EXCEPT !.st = "failed"],
             [task[k] EXCEPT !.st = "dispatched", !.ph = "queued"],
             [task[k] EXCEPT !.st = "dispatched", !.ph = "run"],
             [task[k] EXCEPT !.ph = "ok", !.live = FALSE],
             [task[k] EXCEPT !.live = FALSE], [task[k] EXCEPT !.ph = "ok"],
             [task[k] EXCEPT !.ph = "bad"], [task[k] EXCEPT !.ph = "queued"]}
  <2>1. ASSUME NEW i \in Inst, NextTask(i) PROVE <1>3
    BY <1>1, <2>1 DEF NextTask
  <2>2. ASSUME NEW i \in Inst, NEW s, Heartbeat(i, s) PROVE <1>3
    BY <1>1, <2>2 DEF Heartbeat
  <2>3. ASSUME NEW t \in TaskId, Execute(t) PROVE <1>3
    <3>1. CASE task' = [u \in TaskId |->
                 IF u = t THEN [task[u] EXCEPT !.ph = "ok", !.live = FALSE]
                 ELSE IF u \in TasksOf(task[t].inst)
                 THEN [task[u] EXCEPT !.live = FALSE] ELSE task[u]]
      BY <1>1, <3>1
    <3>2. CASE task' = [task EXCEPT ![t].ph = "ok"] \/ task' = [task EXCEPT ![t].ph = "bad"]
      BY <1>1, <3>2
    <3>. QED
      BY <2>3, <3>1, <3>2, Zenon DEF Execute
  <2>4. ASSUME NEW t \in TaskId, LoseResult(t) PROVE <1>3
    BY <1>1, <2>4 DEF LoseResult
  <2>5. ASSUME NEW t \in TaskId, TaskResult(t) PROVE <1>3
    BY <1>1, <2>5 DEF TaskResult
  <2>. QED
    BY <2>1, <2>2, <2>3, <2>4, <2>5 DEF Agent
<1>. QED
  BY <1>2, <1>3

LEMMA SafeAgent == ASSUME SafeInv, Agent PROVE SafeInv'
<1>1. TypeInv'
  BY TypeNextTask, TypeHeartbeat, TypeExecute, TypeTaskResult
     DEF Agent, RowState, SafeInv
<1>2. UNCHANGED <<releaseVars, desired, byOperator, nextTask>>
  BY DEF Agent, NextTask, Heartbeat, Execute, LoseResult, TaskResult, instanceVars
<1>3. releaseTask # 0 => task'[releaseTask].inst = task[releaseTask].inst
  BY AgentKeeps DEF SafeInv
<1>. QED
  BY <1>1, <1>2, <1>3, SafeFrame DEF releaseVars, Out

LEMMA SafeStart ==
    ASSUME SafeInv, NEW target \in Image, StartImageRelease(target) PROVE SafeInv'
<1>1. TypeInv'
  BY TypeStart DEF SafeInv
<1>2. /\ ~Active /\ releaseTask' = 0 /\ status' = "preflighting_local"
      /\ \A i \in Inst : step'[i] \in {"pending", "none"}
      /\ UNCHANGED <<desired, byOperator, nextTask>>
  BY DEF StartImageRelease, instanceVars, taskVars
<1>3. IdInv'
  BY <1>2, TaskIdFacts, SMT DEF SafeInv, IdInv, TypeInv, TypeTasks
<1>4. BusyInv'
  BY <1>2, BusyFacts DEF BusyInv, Busy, Rollout
<1>5. OutInv'
  BY <1>2 DEF SafeInv, OutInv, Out, Rollout, Active, ActiveStatus
<1>. QED
  BY <1>1, <1>3, <1>4, <1>5 DEF SafeInv

LEMMA SafeNext == ASSUME SafeInv, [Next]_vars PROVE SafeInv'
<1>1. CASE Release \/ Rollback \/ RollbackToVersion
  <2>1. \E m \in Image : StartImageRelease(m)
    BY <1>1 DEF Release, Rollback, RollbackToVersion, SafeInv, TypeInv, TypeRows
  <2>. QED
    BY <2>1, SafeStart
<1>2. CASE Deadline \/ UNCHANGED vars
  <2>1. TypeInv'
    BY <1>2, TypeNext DEF SafeInv, Next
  <2>. QED
    BY <1>2, <2>1, SafeFrame DEF Deadline, vars, releaseVars, instanceVars, taskVars, Out
<1>. QED
  BY <1>1, <1>2, SafeTick, SafeOperator, SafeBusiness, SafeAgent DEF Next

LEMMA ReleaseSafeInv == Spec => []SafeInv
BY SafeInit, SafeNext, PTL DEF Spec

\* However many instances the module has, a release works on one at a time.
THEOREM ReleaseOneBusyStep == Spec => []OneBusyStep
BY ReleaseSafeInv, SafeOneBusy, PTL

\* However a release ends, with any number of instances, only operators keep an
\* instance out of service after it.
THEOREM ReleaseNoStrandedInstance == Spec => []NoStrandedInstance
<1>1. SafeInv => NoStrandedInstance
  BY DEF SafeInv, OutInv, Out, NoStrandedInstance, Active, ActiveStatus, Rollout
<1>. QED
  BY ReleaseSafeInv, <1>1, PTL
=============================================================================
