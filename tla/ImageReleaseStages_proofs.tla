---------------------- MODULE ImageReleaseStages_proofs ----------------------
(***************************************************************************)
(* What a staged image release does to the hosts, to the gateway and to    *)
(* the protection Deployment, for any number of instances, images and      *)
(* tasks: the tasks that can still change a container, the rollout in      *)
(* stages, and the guard.                                                  *)
(***************************************************************************)
EXTENDS ImageRelease_proofs, FiniteSetTheorems

-----------------------------------------------------------------------------
(* The tasks on the hosts.                                                 *)

Update(t) == Unfinished(t) /\ task[t].kind = "update"
WithAgent(r) == r.st \in {"pending", "dispatched"} /\ r.ph # "queued"

\* Ids that were not given out are free; an Agent is with one task at a time; a task
\* that can still change a container names the container the server knows; the server
\* knows the image of a container it was told about.
HostInv ==
    /\ \A t \in TaskId : t >= nextTask => task[t] = NoTask
    /\ \A t \in TaskId : Unfinished(t) /\ task[t].live
         => task[t].bound /\ ~replaced[task[t].inst]
    /\ \A t \in TaskId : Unfinished(t) /\ task[t].ph # "queued" => task[t].st = "dispatched"
    /\ \A t, u \in TaskId :
         WithAgent(task[t]) /\ WithAgent(task[u]) /\ task[t].inst = task[u].inst => t = u
    /\ \A t \in TaskId : Update(t) /\ task[t].ph = "ok" => actual[task[t].inst] = task[t].target
    /\ \A i \in Inst : ~replaced[i] => image[i] = actual[i]

\* An instance whose container was exchanged unknown to the server still has the update
\* task that did it, which the Agent has not given up.
Witness(t, i) == /\ Update(t) /\ task[t].inst = i /\ task[t].bound
                 /\ task[t].st = "dispatched" /\ task[t].ph \in {"queued", "ok"}
KnownInv == \A i \in Inst : replaced[i] /\ row[i] # "gone" => \E t \in TaskId : Witness(t, i)

NewTask(i, kind, m) ==
    [inst |-> i, kind |-> kind, target |-> m, st |-> "pending", ph |-> "queued",
     bound |-> TRUE, live |-> ~replaced[i]]

\* What the steps that are not the Agents' do to the tasks.
TaskStays(t) == task'[t] = task[t] /\ (t = nextTask => nextTask' = nextTask)
TaskEnds(t) == t = releaseTask /\ task[t].st # "dispatched" /\ task'[t] = NoTask
TaskBegins(t) ==
    /\ t = nextTask /\ nextTask' = nextTask + 1
    /\ \E i \in Inst, kind \in {"prepare", "update"}, m \in Image : task'[t] = NewTask(i, kind, m)
ServerStep ==
    /\ UNCHANGED hostVars /\ nextTask' \in {nextTask, nextTask + 1}
    /\ \A t \in TaskId : TaskStays(t) \/ TaskEnds(t) \/ TaskBegins(t)

LEMMA NewTaskFacts ==
    ASSUME TypeInv, NEW i \in Inst, NEW kind \in {"prepare", "update"}, NEW m \in Image
    PROVE  LET new == NewTask(i, kind, m)
           IN  /\ new \in TaskRec /\ new.inst = i /\ new.kind = kind /\ new.target = m
               /\ new.st = "pending" /\ new.ph = "queued" /\ new.bound = TRUE
               /\ new.live <=> ~replaced[i]
BY Zenon DEF NewTask, TaskRec, TypeInv, TypeRows

\* One step of the loop fails, queues a task, drops a finished one, or leaves them.
LEMMA TickTasks ==
    ASSUME SafeInv, Tick
    PROVE  /\ UNCHANGED tickFrame /\ Active
           /\ \/ \E stp, des : FailRelease(stp, des)
              \/ /\ releaseTask = 0 /\ Active'
                 /\ \E i \in Inst, kind \in {"prepare", "update"} : QueueTask(i, kind)
              \/ releaseTask # 0 /\ ~Unfinished(releaseTask) /\ DropTask
              \/ UNCHANGED taskVars
<1>1. UNCHANGED tickFrame
  BY DEF Tick
<1>2. CASE Abort
  BY <1>1, <1>2 DEF Abort
<1>3. CASE PreflightResult
  BY <1>1, <1>3 DEF PreflightResult, Active, ActiveStatus
<1>4. CASE PreflightNext
  BY <1>1, <1>4, Zenon DEF PreflightNext, Active, ActiveStatus
<1>5. CASE RolloutResult
  BY <1>1, <1>5 DEF RolloutResult, Active, ActiveStatus, Rollout
<1>6. CASE RolloutNext
  BY <1>1, <1>6, Zenon DEF RolloutNext, Active, ActiveStatus, Rollout, Steps
<1>7. CASE PrepareGuard \/ WaitGuard \/ UpdateAcs \/ WaitAcs \/ CleanGuard
  BY <1>1, <1>7
     DEF PrepareGuard, WaitGuard, UpdateAcs, WaitAcs, CleanGuard, CompleteRelease, Active, ActiveStatus
<1>. QED
  BY <1>2, <1>3, <1>4, <1>5, <1>6, <1>7 DEF Tick, Progress

LEMMA ServerSteps ==
    ASSUME SafeInv, [Next]_vars, ~Agent PROVE ServerStep
<1> USE DEF SafeInv
<1>0. /\ task \in [TaskId -> AnyTask] /\ nextTask \in Nat /\ releaseTask \in 0..MaxTasks
      /\ nextTask # nextTask + 1
  BY DEF TypeInv, TypeTasks
<1>1. ASSUME UNCHANGED hostVars, UNCHANGED taskVars PROVE ServerStep
  BY <1>1 DEF ServerStep, TaskStays, taskVars
<1>2. ASSUME UNCHANGED hostVars, nextTask \in TaskId, nextTask' = nextTask + 1,
             NEW i \in Inst, NEW kind \in {"prepare", "update"}, NEW m \in Image,
             task' = [task EXCEPT ![nextTask] = NewTask(i, kind, m)]
      PROVE  ServerStep
  <2>1. \A t \in TaskId : IF t = nextTask THEN TaskBegins(t) ELSE TaskStays(t)
    BY <1>0, <1>2 DEF TaskBegins, TaskStays
  <2>. QED
    BY <1>2, <2>1 DEF ServerStep
<1>3. CASE Tick
  <2>1. UNCHANGED hostVars /\ Active
    BY <1>3, TickTasks DEF tickFrame
  <2>2. ASSUME NEW stp, NEW des, FailRelease(stp, des) PROVE ServerStep
    <3>1. \A t \in TaskId : IF t = releaseTask /\ task[t].st # "dispatched" THEN TaskEnds(t) ELSE TaskStays(t)
      BY <1>0, <2>2 DEF FailRelease, TaskEnds, TaskStays
    <3>2. nextTask' = nextTask
      BY <2>2 DEF FailRelease
    <3>. QED
      BY <2>1, <3>1, <3>2 DEF ServerStep
  <2>3. ASSUME NEW i \in Inst, NEW kind \in {"prepare", "update"}, QueueTask(i, kind) PROVE ServerStep
    <3>1. desiredImage \in Image
      BY <2>1 DEF TypeInv, Linked
    <3>. QED
      BY <1>2, <2>1, <2>3, <3>1 DEF QueueTask, NewTask
  <2>4. CASE releaseTask # 0 /\ ~Unfinished(releaseTask) /\ DropTask
    <3>1. \A t \in TaskId : IF t = releaseTask THEN TaskEnds(t) ELSE TaskStays(t)
      BY <1>0, <2>4 DEF DropTask, TaskEnds, TaskStays, Unfinished
    <3>. QED
      BY <2>1, <2>4, <3>1 DEF ServerStep, DropTask
  <2>. QED
    BY <1>1, <1>3, <2>1, <2>2, <2>3, <2>4, TickTasks
<1>4. CASE Release \/ Rollback \/ RollbackToVersion
  BY <1>1, <1>4 DEF Release, Rollback, RollbackToVersion, StartImageRelease
<1>5. CASE Operator
  <2>1. ASSUME NEW i \in Inst, NEW m \in Image, CreateAction(i, m) PROVE ServerStep
    BY <1>2, <2>1 DEF CreateAction, NewTask
  <2>. QED
    BY <1>1, <1>5, <2>1
       DEF Operator, EnterMaintenance, ExitMaintenance, UpdateMonitoring, UpdateGuardMonitoring
<1>6. CASE Business
  BY <1>1, <1>6 DEF Business, ReportLoad, GuardReport, GuardStale
<1>7. CASE Deadline \/ UNCHANGED vars
  BY <1>1, <1>7 DEF Deadline, vars
<1>. QED
  BY <1>3, <1>4, <1>5, <1>6, <1>7 DEF Next

\* Where such a step leaves a task, or begins one.
LEMMA ServerTask ==
    ASSUME TypeInv, ServerStep, HostInv, NEW t \in TaskId, Unfinished(t)'
    PROVE  \/ task'[t] = task[t] /\ Unfinished(t)
           \/ /\ task'[t].st = "pending" /\ task'[t].ph = "queued" /\ task'[t].bound = TRUE
              /\ task'[t].live <=> ~replaced[task'[t].inst]
              /\ t = nextTask
<1>1. CASE TaskStays(t)
  BY <1>1 DEF TaskStays, Unfinished
<1>2. CASE TaskEnds(t)
  BY <1>2 DEF TaskEnds, Unfinished, NoTask
<1>3. CASE TaskBegins(t)
  <2>1. PICK i \in Inst, kind \in {"prepare", "update"}, m \in Image : task'[t] = NewTask(i, kind, m)
    BY <1>3 DEF TaskBegins
  <2> DEFINE new == NewTask(i, kind, m)
  <2>2. /\ new.st = "pending" /\ new.ph = "queued" /\ new.bound = TRUE /\ new.inst = i
        /\ new.live = ~replaced[i]
    BY Zenon DEF NewTask
  <2>3. task'[t] = new /\ t = nextTask
    BY <1>3, <2>1 DEF TaskBegins
  <2> HIDE DEF new
  <2>. QED
    BY <2>2, <2>3
<1>. QED
  BY <1>1, <1>2, <1>3 DEF ServerStep

LEMMA ServerHosts == ASSUME TypeInv, ServerStep, HostInv PROVE HostInv'
<1>1. UNCHANGED hostVars /\ nextTask' \in {nextTask, nextTask + 1} /\ nextTask \in Nat
  BY DEF ServerStep, TypeInv, TypeTasks
<1>2. \A t \in TaskId : t >= nextTask' => task'[t] = NoTask
  <2> SUFFICES ASSUME NEW t \in TaskId, t >= nextTask' PROVE task'[t] = NoTask
    OBVIOUS
  <2>1. t >= nextTask /\ (nextTask' # nextTask => t # nextTask)
    BY <1>1, TaskIdFacts, SMT DEF TaskId
  <2>2. task[t] = NoTask /\ ~TaskBegins(t)
    BY <1>1, <2>1 DEF HostInv, TaskBegins
  <2>. QED
    BY <2>2 DEF ServerStep, TaskStays, TaskEnds
<1>3. \A t \in TaskId : Unfinished(t)' /\ task'[t].live => task'[t].bound /\ ~replaced[task'[t].inst]
  BY ServerTask DEF HostInv
<1>4. \A t \in TaskId : Unfinished(t)' /\ task'[t].ph # "queued" => task[t] = task'[t] /\ Unfinished(t)
  BY ServerTask
<1>5. \A t \in TaskId : Unfinished(t)' /\ task'[t].ph # "queued" => task'[t].st = "dispatched"
  BY <1>4 DEF HostInv
<1>6. \A t, u \in TaskId :
        WithAgent(task'[t]) /\ WithAgent(task'[u]) /\ task'[t].inst = task'[u].inst => t = u
  <2> SUFFICES ASSUME NEW t \in TaskId, NEW u \in TaskId,
                      WithAgent(task'[t]), WithAgent(task'[u]), task'[t].inst = task'[u].inst
               PROVE  t = u
    BY Zenon
  <2>1. task[t] = task'[t]
    BY <1>4 DEF WithAgent, Unfinished
  <2>2. task[u] = task'[u]
    BY <1>4 DEF WithAgent, Unfinished
  <2>. QED
    BY <2>1, <2>2 DEF HostInv
<1>7. \A t \in TaskId : Update(t)' /\ task'[t].ph = "ok" => actual[task'[t].inst] = task'[t].target
  BY <1>4 DEF HostInv, Update
<1>8. replaced' = replaced /\ actual' = actual /\ image' = image
  BY <1>1 DEF hostVars
<1>. QED
  BY <1>2, <1>3, <1>5, <1>6, <1>7, <1>8 DEF HostInv

LEMMA ServerKnown == ASSUME TypeInv, ServerStep, HostInv, KnownInv PROVE KnownInv'
<1> SUFFICES ASSUME NEW i \in Inst, replaced[i], row[i] # "gone" PROVE \E t \in TaskId : Witness(t, i)'
  BY DEF KnownInv, ServerStep, hostVars
<1>1. PICK t \in TaskId : Witness(t, i)
  BY DEF KnownInv
<1>2. task'[t] = task[t]
  <2>1. task[t] # NoTask
    BY <1>1 DEF Witness, Update, Unfinished, NoTask
  <2>2. ~TaskBegins(t)
    BY <2>1 DEF TaskBegins, HostInv, TypeInv, TypeTasks
  <2>. QED
    BY <1>1, <2>2 DEF ServerStep, Witness, TaskStays, TaskEnds
<1>. QED
  BY <1>1, <1>2 DEF Witness, Update, Unfinished

-----------------------------------------------------------------------------
(* The Agents.                                                             *)

\* What a heartbeat does to a task: it may unbind it from the row.
LEMMA HeartbeatTask ==
    ASSUME TypeInv, NEW i \in Inst, NEW s, Heartbeat(i, s), NEW t \in TaskId, Unfinished(t)
    PROVE  /\ task'[t].inst = task[t].inst /\ task'[t].kind = task[t].kind
           /\ task'[t].target = task[t].target /\ task'[t].st = task[t].st
           /\ task'[t].ph = task[t].ph /\ task'[t].live = task[t].live
           /\ task[t].inst # i \/ ~replaced[i] \/ s = "gone" => task'[t].bound = task[t].bound
<1>1. task[t] \in TaskRec /\ task[t].inst \in Inst
  BY UnfinishedFacts DEF TaskRec
<1> DEFINE new == [task[t] EXCEPT !.bound = FALSE]
<1>2. /\ new.inst = task[t].inst /\ new.kind = task[t].kind /\ new.target = task[t].target
      /\ new.st = task[t].st /\ new.ph = task[t].ph /\ new.live = task[t].live
  BY <1>1, Zenon DEF TaskRec
<1>3. task'[t] = IF s # "gone" /\ replaced[i] /\ task[t].inst = i THEN new ELSE task[t]
  BY DEF Heartbeat, TasksOf
<1> HIDE DEF new
<1>. QED
  BY <1>2, <1>3

LEMMA HeartbeatRest ==
    ASSUME TypeInv, NEW i \in Inst, NEW s, Heartbeat(i, s), NEW t \in TaskId, ~Unfinished(t)
    PROVE  task'[t] = task[t]
BY DEF Heartbeat, TasksOf, TypeInv, TypeTasks

LEMMA HeartbeatHosts ==
    ASSUME TypeInv, HostInv, NEW i \in Inst, NEW s, Heartbeat(i, s)
    PROVE  HostInv'
<1>1. /\ actual' = actual /\ nextTask' = nextTask
      /\ IF s = "gone" THEN image' = image /\ replaced' = replaced
         ELSE image' = [image EXCEPT ![i] = actual[i]] /\ replaced' = [replaced EXCEPT ![i] = FALSE]
  BY DEF Heartbeat
<1>2. \A j \in Inst : ~replaced'[j] => image'[j] = actual'[j]
  BY <1>1 DEF HostInv, TypeInv, TypeRows
<1>3. \A t \in TaskId : t >= nextTask' => task'[t] = NoTask
  <2> SUFFICES ASSUME NEW t \in TaskId, t >= nextTask' PROVE task'[t] = NoTask
    OBVIOUS
  <2>1. task[t] = NoTask
    BY <1>1 DEF HostInv
  <2>2. ~Unfinished(t)
    BY <2>1 DEF Unfinished, NoTask
  <2>. QED
    BY <2>1, <2>2, HeartbeatRest
<1>4. ASSUME NEW t \in TaskId, Unfinished(t)'
      PROVE  /\ Unfinished(t) /\ task'[t].inst = task[t].inst /\ task'[t].kind = task[t].kind
             /\ task'[t].target = task[t].target /\ task'[t].st = task[t].st
             /\ task'[t].ph = task[t].ph
  <2>1. Unfinished(t)
    BY <1>4, HeartbeatRest DEF Unfinished
  <2>. QED
    BY <2>1, HeartbeatTask
<1>5. ASSUME NEW t \in TaskId, Unfinished(t)', task'[t].live
      PROVE  task'[t].bound /\ ~replaced'[task'[t].inst]
  <2>1. Unfinished(t) /\ task[t].live /\ task'[t].inst = task[t].inst
    BY <1>4, <1>5, HeartbeatTask
  <2>2. task[t].bound /\ ~replaced[task[t].inst] /\ task[t].inst \in Inst
    BY <2>1, UnfinishedFacts DEF HostInv, TaskRec
  <2>3. task'[t].bound
    BY <2>1, <2>2, HeartbeatTask
  <2>4. ~replaced'[task[t].inst]
    BY <1>1, <2>2 DEF TypeInv, TypeRows
  <2>. QED
    BY <2>1, <2>3, <2>4
<1>6. \A t \in TaskId : Unfinished(t)' /\ task'[t].ph # "queued" => task'[t].st = "dispatched"
  BY <1>4 DEF HostInv
<1>7. \A t, u \in TaskId :
        WithAgent(task'[t]) /\ WithAgent(task'[u]) /\ task'[t].inst = task'[u].inst => t = u
  <2> SUFFICES ASSUME NEW t \in TaskId, NEW u \in TaskId,
                      WithAgent(task'[t]), WithAgent(task'[u]), task'[t].inst = task'[u].inst
               PROVE  t = u
    BY Zenon
  <2>1. WithAgent(task[t]) /\ task'[t].inst = task[t].inst
    BY <1>4 DEF WithAgent, Unfinished
  <2>2. WithAgent(task[u]) /\ task'[u].inst = task[u].inst
    BY <1>4 DEF WithAgent, Unfinished
  <2>. QED
    BY <2>1, <2>2 DEF HostInv
<1>8. \A t \in TaskId : Update(t)' /\ task'[t].ph = "ok" => actual'[task'[t].inst] = task'[t].target
  BY <1>1, <1>4 DEF HostInv, Update
<1>. QED
  BY <1>2, <1>3, <1>5, <1>6, <1>7, <1>8 DEF HostInv

LEMMA HeartbeatKnown ==
    ASSUME TypeInv, KnownInv, NEW i \in Inst, NEW s, Heartbeat(i, s)
    PROVE  KnownInv'
<1> SUFFICES ASSUME NEW j \in Inst, replaced'[j], row'[j] # "gone"
             PROVE  \E t \in TaskId : Witness(t, j)'
  BY DEF KnownInv
<1>1. j # i /\ replaced[j] /\ row[j] # "gone"
  BY DEF Heartbeat, TypeInv, TypeRows
<1>2. PICK t \in TaskId : Witness(t, j)
  BY <1>1 DEF KnownInv
<1>3. task'[t] = task[t]
  BY <1>1, <1>2 DEF Heartbeat, TasksOf, Witness, TypeInv, TypeTasks
<1>. QED
  BY <1>2, <1>3 DEF Witness, Update, Unfinished

\* A poll hands out at most one task, f, and can only put other dispatched ones back.
LEMMA NextTaskTask ==
    ASSUME TypeInv, NEW i \in Inst, NextTask(i)
    PROVE  \E f \in TasksOf(i) : \A t \in TaskId :
             /\ t \notin TasksOf(i) => task'[t] = task[t]
             /\ t \in TasksOf(i) =>
                  /\ task'[t].inst = i /\ task'[t].kind = task[t].kind
                  /\ task'[t].target = task[t].target /\ task'[t].bound = task[t].bound
                  /\ task'[t].live = task[t].live /\ Unfinished(t) /\ task[t].ph = "queued"
                  /\ task'[t].st \in {"pending", "dispatched"}
                  /\ task'[t].ph \in {"queued", "run"}
                  /\ task'[t].ph = "run" => t = f /\ task'[t].st = "dispatched"
                  /\ ReportsBeforeRetry /\ replaced[i] /\ row[i] # "gone" /\ task[t].st = "dispatched"
                     => task'[t] = task[t]
<1>1. PICK Stale \in SUBSET {t \in TasksOf(i) : task[t].st = "dispatched"} :
        /\ ReportsBeforeRetry /\ Stale # {} => ~replaced[i] \/ row[i] = "gone"
        /\ \E f \in Stale \cup {t \in TasksOf(i) : task[t].st = "pending"}, got \in {"queued", "run"} :
             task' = [t \in TaskId |->
                        IF t = f THEN [task[t] EXCEPT !.st = "dispatched", !.ph = got]
                        ELSE IF t \in Stale THEN [task[t] EXCEPT !.st = "pending"]
                        ELSE task[t]]
  BY DEF NextTask
<1>2. PICK f \in Stale \cup {t \in TasksOf(i) : task[t].st = "pending"}, got \in {"queued", "run"} :
        task' = [t \in TaskId |->
                   IF t = f THEN [task[t] EXCEPT !.st = "dispatched", !.ph = got]
                   ELSE IF t \in Stale THEN [task[t] EXCEPT !.st = "pending"]
                   ELSE task[t]]
  BY <1>1
<1>3. f \in TasksOf(i)
  BY <1>2
<1> SUFFICES ASSUME NEW t \in TaskId
             PROVE  /\ t \notin TasksOf(i) => task'[t] = task[t]
                    /\ t \in TasksOf(i) =>
                         /\ task'[t].inst = i /\ task'[t].kind = task[t].kind
                         /\ task'[t].target = task[t].target /\ task'[t].bound = task[t].bound
                         /\ task'[t].live = task[t].live /\ Unfinished(t) /\ task[t].ph = "queued"
                         /\ task'[t].st \in {"pending", "dispatched"}
                         /\ task'[t].ph \in {"queued", "run"}
                         /\ task'[t].ph = "run" => t = f /\ task'[t].st = "dispatched"
                         /\ ReportsBeforeRetry /\ replaced[i] /\ row[i] # "gone" /\ task[t].st = "dispatched"
                            => task'[t] = task[t]
  BY <1>3
<1>4. CASE t \notin TasksOf(i)
  BY <1>2, <1>4
<1>5. CASE t \in TasksOf(i)
  <2>1. /\ task[t] \in TaskRec /\ task[t].inst = i /\ Unfinished(t) /\ task[t].ph = "queued"
        /\ task[t].st \in {"pending", "dispatched"}
    BY <1>5, UnfinishedFacts DEF TasksOf, NextTask, AgentIdle, Unfinished
  <2> DEFINE given == [task[t] EXCEPT !.st = "dispatched", !.ph = got]
             again == [task[t] EXCEPT !.st = "pending"]
  <2>2. /\ given.inst = task[t].inst /\ given.kind = task[t].kind
        /\ given.target = task[t].target /\ given.bound = task[t].bound
        /\ given.live = task[t].live /\ given.st = "dispatched" /\ given.ph = got
        /\ again.inst = task[t].inst /\ again.kind = task[t].kind
        /\ again.target = task[t].target /\ again.bound = task[t].bound
        /\ again.live = task[t].live /\ again.st = "pending" /\ again.ph = task[t].ph
    BY <2>1, Zenon DEF TaskRec
  <2>3. task'[t] = IF t = f THEN given ELSE IF t \in Stale THEN again ELSE task[t]
    BY <1>2
  <2>4. ReportsBeforeRetry /\ replaced[i] /\ row[i] # "gone" /\ task[t].st = "dispatched"
        => task'[t] = task[t]
    <3>1. ReportsBeforeRetry /\ replaced[i] /\ row[i] # "gone" => Stale = {}
      BY <1>1
    <3>2. task[f].st \in {"pending", "dispatched"} /\ (f \notin Stale => task[f].st = "pending")
      BY <1>1, <1>2
    <3>. QED
      BY <2>3, <3>1, <3>2
  <2> HIDE DEF given, again
  <2>5. CASE t = f
    BY <1>5, <2>1, <2>2, <2>3, <2>4, <2>5
  <2>6. CASE t # f /\ t \in Stale
    BY <1>5, <2>1, <2>2, <2>3, <2>4, <2>6
  <2>7. CASE t # f /\ t \notin Stale
    BY <1>5, <2>1, <2>3, <2>4, <2>7
  <2>. QED
    BY <2>5, <2>6, <2>7
<1>. QED
  BY <1>4, <1>5

LEMMA NextTaskHosts ==
    ASSUME TypeInv, HostInv, NEW i \in Inst, NextTask(i) PROVE HostInv'
<1>1. /\ actual' = actual /\ nextTask' = nextTask /\ image' = image /\ replaced' = replaced
  BY DEF NextTask, hostVars
<1>2. PICK f \in TasksOf(i) : \A t \in TaskId :
             /\ t \notin TasksOf(i) => task'[t] = task[t]
             /\ t \in TasksOf(i) =>
                  /\ task'[t].inst = i
                  /\ task'[t].bound = task[t].bound
                  /\ task'[t].live = task[t].live /\ Unfinished(t)
                  /\ task'[t].ph \in {"queued", "run"}
                  /\ task'[t].ph = "run" => t = f /\ task'[t].st = "dispatched"
  BY NextTaskTask
<1>3. \A t \in TaskId : t >= nextTask' => task'[t] = NoTask
  <2>1. \A t \in TaskId : task[t] = NoTask => t \notin TasksOf(i)
    BY DEF TasksOf, Unfinished, NoTask
  <2>. QED
    BY <1>1, <1>2, <2>1 DEF HostInv
<1>4. ASSUME NEW t \in TaskId, Unfinished(t)', task'[t].live
      PROVE  task'[t].bound /\ ~replaced'[task'[t].inst]
  <2>1. CASE t \in TasksOf(i)
    <3>1. task[t].inst = i /\ Unfinished(t)
      BY <2>1 DEF TasksOf
    <3>. QED
      BY <1>1, <1>2, <1>4, <2>1, <3>1 DEF HostInv
  <2>2. CASE t \notin TasksOf(i)
    BY <1>1, <1>2, <1>4, <2>2 DEF HostInv, Unfinished
  <2>. QED
    BY <2>1, <2>2
<1>5. \A t \in TaskId : WithAgent(task'[t]) =>
        /\ task'[t].st = "dispatched"
        /\ t = f \/ (task'[t] = task[t] /\ t \notin TasksOf(i))
  <2> SUFFICES ASSUME NEW t \in TaskId, WithAgent(task'[t])
               PROVE  /\ task'[t].st = "dispatched"
                      /\ t = f \/ (task'[t] = task[t] /\ t \notin TasksOf(i))
    OBVIOUS
  <2>1. CASE t \in TasksOf(i)
    BY <1>2, <2>1 DEF WithAgent
  <2>2. CASE t \notin TasksOf(i)
    <3>1. task'[t] = task[t]
      BY <1>2, <2>2
    <3>. QED
      BY <2>2, <3>1 DEF HostInv, WithAgent, Unfinished
  <2>. QED
    BY <2>1, <2>2
<1>6. \A t, u \in TaskId :
        WithAgent(task'[t]) /\ WithAgent(task'[u]) /\ task'[t].inst = task'[u].inst => t = u
  <2>1. f \in TaskId /\ task'[f].inst = i
    BY <1>2 DEF TasksOf
  <2>2. \A t \in TaskId : WithAgent(task'[t]) /\ task'[t].inst = i => t = f
    BY <1>5 DEF TasksOf, WithAgent, Unfinished
  <2> SUFFICES ASSUME NEW t \in TaskId, NEW u \in TaskId,
                      WithAgent(task'[t]), WithAgent(task'[u]), task'[t].inst = task'[u].inst
               PROVE  t = u
    BY Zenon
  <2>3. CASE task'[t].inst = i
    BY <2>2, <2>3
  <2>4. CASE task'[t].inst # i
    <3>1. task'[t] = task[t] /\ task'[u] = task[u]
      BY <1>5, <2>1, <2>4
    <3>. QED
      BY <3>1 DEF HostInv
  <2>. QED
    BY <2>3, <2>4
<1>7. \A t \in TaskId : Update(t)' /\ task'[t].ph = "ok" => actual'[task'[t].inst] = task'[t].target
  <2>1. \A t \in TaskId : task'[t].ph = "ok" => task'[t] = task[t]
    BY <1>2
  <2>. QED
    BY <1>1, <2>1 DEF HostInv, Update, Unfinished
<1>8. \A t \in TaskId : Unfinished(t)' /\ task'[t].ph # "queued" => task'[t].st = "dispatched"
  BY <1>5 DEF WithAgent, Unfinished
<1>9. \A j \in Inst : ~replaced'[j] => image'[j] = actual'[j]
  BY <1>1 DEF HostInv
<1>. QED
  BY <1>3, <1>4, <1>6, <1>7, <1>8, <1>9 DEF HostInv

\* With report_seconds below the retry age, a poll leaves the witness alone.
LEMMA NextTaskKnown ==
    ASSUME ReportsBeforeRetry, TypeInv, KnownInv, NEW i \in Inst, NextTask(i)
    PROVE  KnownInv'
<1> SUFFICES ASSUME NEW j \in Inst, replaced[j], row[j] # "gone"
             PROVE  \E t \in TaskId : Witness(t, j)'
  BY DEF KnownInv, NextTask, hostVars
<1>1. PICK t \in TaskId : Witness(t, j)
  BY DEF KnownInv
<1>2. task'[t] = task[t]
  BY <1>1, NextTaskTask DEF TasksOf, Witness
<1>. QED
  BY <1>1, <1>2 DEF Witness, Update, Unfinished

\* A task that is executed gets a new ph; an update that succeeds ends the container
\* that the other tasks of the instance name.
LEMMA ExecuteTask ==
    ASSUME TypeInv, NEW t \in TaskId, Execute(t) \/ LoseResult(t), NEW u \in TaskId, Unfinished(u)
    PROVE  /\ task'[u].inst = task[u].inst /\ task'[u].kind = task[u].kind
           /\ task'[u].target = task[u].target /\ task'[u].bound = task[u].bound
           /\ task'[u].st = task[u].st
           /\ u # t => task'[u].ph = task[u].ph
           /\ u # t /\ task[u].inst # task[t].inst => task'[u].live = task[u].live
           /\ task'[u].live => task[u].live
<1>1. task[u] \in TaskRec
  BY UnfinishedFacts
<1> DEFINE a == [task[u] EXCEPT !.ph = "ok", !.live = FALSE]
           b == [task[u] EXCEPT !.live = FALSE]
           c(p) == [task[u] EXCEPT !.ph = p]
<1>2. /\ a.inst = task[u].inst /\ a.kind = task[u].kind /\ a.target = task[u].target
      /\ a.bound = task[u].bound /\ a.st = task[u].st /\ a.live = FALSE
      /\ b.inst = task[u].inst /\ b.kind = task[u].kind /\ b.target = task[u].target
      /\ b.bound = task[u].bound /\ b.st = task[u].st /\ b.live = FALSE /\ b.ph = task[u].ph
  BY <1>1, Zenon DEF TaskRec
<1>3. \A p : /\ c(p).inst = task[u].inst /\ c(p).kind = task[u].kind
             /\ c(p).target = task[u].target /\ c(p).bound = task[u].bound
             /\ c(p).st = task[u].st /\ c(p).live = task[u].live
  BY <1>1, Zenon DEF TaskRec
<1>4. \/ task'[u] = task[u]
      \/ u = t /\ task'[u] = a
      \/ u # t /\ task[u].inst = task[t].inst /\ task'[u] = b
      \/ u = t /\ \E p \in {"ok", "bad", "queued"} : task'[u] = c(p)
  BY DEF Execute, LoseResult, TasksOf, TypeInv, TypeTasks
<1> HIDE DEF a, b, c
<1>5. CASE task'[u] = task[u]
  BY <1>5
<1>6. CASE u = t /\ task'[u] = a
  BY <1>2, <1>6
<1>7. CASE u # t /\ task[u].inst = task[t].inst /\ task'[u] = b
  BY <1>2, <1>7
<1>8. CASE u = t /\ \E p \in {"ok", "bad", "queued"} : task'[u] = c(p)
  BY <1>3, <1>8
<1>. QED
  BY <1>4, <1>5, <1>6, <1>7, <1>8

\* The outcome of an execution.
LEMMA ExecuteCase ==
    ASSUME TypeInv, NEW t \in TaskId, Execute(t) \/ LoseResult(t)
    PROVE  /\ Unfinished(t) /\ task[t].ph # "queued"
           /\ UNCHANGED <<releaseVars, acsImage, guard, instanceVars, row, image, nextTask>>
           /\ \A u \in TaskId : ~Unfinished(u) => task'[u] = task[u]
           /\ \/ /\ task[t].kind = "update" /\ task[t].live /\ task'[t].ph = "ok" /\ ~task'[t].live
                 /\ \A u \in TasksOf(task[t].inst) : ~task'[u].live
                 /\ actual' = [actual EXCEPT ![task[t].inst] = task[t].target]
                 /\ replaced' = [replaced EXCEPT ![task[t].inst] = TRUE]
              \/ /\ UNCHANGED <<actual, replaced>>
                 /\ \/ task[t].kind = "prepare"
                    \/ task[t].ph = "run" /\ task'[t].ph = "bad"
                    \/ task'[t].ph = "queued"
<1>1. Unfinished(t) /\ task[t].ph # "queued"
      /\ UNCHANGED <<releaseVars, acsImage, guard, instanceVars, row, image, nextTask>>
  BY DEF Execute, LoseResult, hostVars
<1>2. task[t] \in TaskRec /\ \A u \in TasksOf(task[t].inst) : task[u] \in TaskRec
  BY <1>1, UnfinishedFacts DEF TasksOf
<1>3. /\ [task[t] EXCEPT !.ph = "ok", !.live = FALSE].ph = "ok"
      /\ ~[task[t] EXCEPT !.ph = "ok", !.live = FALSE].live
      /\ [task[t] EXCEPT !.ph = "bad"].ph = "bad" /\ [task[t] EXCEPT !.ph = "queued"].ph = "queued"
      /\ \A u \in TasksOf(task[t].inst) : ~[task[u] EXCEPT !.live = FALSE].live
  BY <1>2, Zenon DEF TaskRec
<1>4. \A u \in TaskId : ~Unfinished(u) => task'[u] = task[u]
  BY <1>1 DEF Execute, LoseResult, TasksOf, TypeInv, TypeTasks
<1>5. CASE LoseResult(t)
  <2>1. task'[t] = [task[t] EXCEPT !.ph = "queued"] /\ UNCHANGED <<actual, replaced>>
    BY <1>5 DEF LoseResult, TypeInv, TypeTasks, hostVars
  <2>. QED
    BY <1>1, <1>3, <1>4, <2>1
<1>6. CASE Execute(t) /\ task[t].kind = "update" /\ task[t].live
           /\ actual' = [actual EXCEPT ![task[t].inst] = task[t].target]
           /\ replaced' = [replaced EXCEPT ![task[t].inst] = TRUE]
           /\ task' = [u \in TaskId |->
                  IF u = t THEN [task[u] EXCEPT !.ph = "ok", !.live = FALSE]
                  ELSE IF u \in TasksOf(task[t].inst) THEN [task[u] EXCEPT !.live = FALSE]
                  ELSE task[u]]
  <2>1. task'[t] = [task[t] EXCEPT !.ph = "ok", !.live = FALSE]
    BY <1>6
  <2>2. \A u \in TasksOf(task[t].inst) :
          task'[u] = IF u = t THEN [task[u] EXCEPT !.ph = "ok", !.live = FALSE]
                     ELSE [task[u] EXCEPT !.live = FALSE]
    BY <1>6 DEF TasksOf
  <2>3. task'[t].ph = "ok" /\ ~task'[t].live
    BY <1>3, <2>1
  <2>4. \A u \in TasksOf(task[t].inst) : ~task'[u].live
    BY <1>3, <2>2
  <2>. QED
    BY <1>1, <1>4, <1>6, <2>3, <2>4
<1>7. CASE Execute(t) /\ task[t].kind = "prepare" /\ UNCHANGED <<actual, replaced>>
  BY <1>1, <1>4, <1>7
<1>8. CASE Execute(t) /\ task' = [task EXCEPT ![t].ph = "bad"] /\ UNCHANGED <<actual, replaced>>
  <2>1. task'[t] = [task[t] EXCEPT !.ph = "bad"] /\ task[t].ph = "run"
    BY <1>8 DEF Execute, TypeInv, TypeTasks
  <2>. QED
    BY <1>1, <1>3, <1>4, <1>8, <2>1
<1>. QED
  BY <1>5, <1>6, <1>7, <1>8, Zenon DEF Execute

LEMMA ExecuteHosts ==
    ASSUME TypeInv, HostInv, NEW t \in TaskId, Execute(t) \/ LoseResult(t) PROVE HostInv'
<1> DEFINE i == task[t].inst
           swap == /\ task[t].kind = "update" /\ task[t].live /\ task'[t].ph = "ok" /\ ~task'[t].live
                   /\ \A u \in TasksOf(i) : ~task'[u].live
                   /\ actual' = [actual EXCEPT ![i] = task[t].target]
                   /\ replaced' = [replaced EXCEPT ![i] = TRUE]
           keep == /\ UNCHANGED <<actual, replaced>>
                   /\ \/ task[t].kind = "prepare" \/ task'[t].ph = "bad" \/ task'[t].ph = "queued"
<1>1. /\ Unfinished(t) /\ task[t].ph # "queued" /\ nextTask' = nextTask /\ image' = image
      /\ (swap \/ keep) /\ i \in Inst /\ task[t].st = "dispatched"
  BY ExecuteCase, UnfinishedFacts DEF HostInv, TaskRec
<1>2. ASSUME NEW u \in TaskId, Unfinished(u)' \/ WithAgent(task'[u])
      PROVE  /\ Unfinished(u) /\ task'[u].inst = task[u].inst /\ task'[u].kind = task[u].kind
             /\ task'[u].target = task[u].target /\ task'[u].bound = task[u].bound
             /\ task'[u].st = task[u].st /\ task[u].inst \in Inst
             /\ u # t => task'[u].ph = task[u].ph
             /\ task'[u].live => task[u].live
  <2>1. Unfinished(u)
    BY <1>2, ExecuteCase DEF Unfinished, WithAgent
  <2>. QED
    BY <2>1, ExecuteTask, UnfinishedFacts DEF TaskRec
<1>3. \A u \in TaskId : u >= nextTask' => task'[u] = NoTask
  <2>1. \A u \in TaskId : task[u] = NoTask => ~Unfinished(u)
    BY DEF Unfinished, NoTask
  <2>. QED
    BY <1>1, <2>1, ExecuteCase DEF HostInv
<1>4. ASSUME NEW u \in TaskId, Unfinished(u)', task'[u].live
      PROVE  task'[u].bound /\ ~replaced'[task'[u].inst]
  <2>1. task[u].bound /\ ~replaced[task[u].inst] /\ task'[u].inst = task[u].inst /\ task'[u].bound
    BY <1>2, <1>4 DEF HostInv
  <2>2. CASE swap
    <3>1. u \notin TasksOf(i)
      BY <1>4, <2>2
    <3>2. task[u].inst # i
      BY <1>2, <1>4, <3>1 DEF TasksOf
    <3>. QED
      BY <1>2, <1>4, <2>1, <2>2, <3>2 DEF TypeInv, TypeRows
  <2>3. CASE keep
    BY <2>1, <2>3
  <2>. QED
    BY <1>1, <2>2, <2>3
<1>5. \A u \in TaskId : Unfinished(u)' /\ task'[u].ph # "queued" => task'[u].st = "dispatched"
  BY <1>1, <1>2 DEF HostInv
<1>6. \A u, v \in TaskId :
        WithAgent(task'[u]) /\ WithAgent(task'[v]) /\ task'[u].inst = task'[v].inst => u = v
  <2>1. \A u \in TaskId : WithAgent(task'[u]) => WithAgent(task[u]) /\ task'[u].inst = task[u].inst
    BY <1>1, <1>2 DEF WithAgent, Unfinished
  <2>. QED
    BY <2>1 DEF HostInv
<1>7. ASSUME NEW u \in TaskId, Update(u)', task'[u].ph = "ok"
      PROVE  actual'[task'[u].inst] = task'[u].target
  <2>1. /\ Unfinished(u) /\ task[u].kind = "update" /\ task'[u].inst = task[u].inst
        /\ task'[u].target = task[u].target /\ task[u].inst \in Inst
        /\ u # t => task'[u].ph = task[u].ph
    BY <1>2, <1>7 DEF Update
  <2>2. CASE u = t
    BY <1>1, <1>7, <2>1, <2>2 DEF TypeInv, TypeRows
  <2>3. CASE u # t
    <3>1. actual[task[u].inst] = task[u].target
      BY <1>7, <2>1, <2>3 DEF HostInv, Update
    <3>2. task[u].inst # i
      <4>1. WithAgent(task[u]) /\ WithAgent(task[t])
        BY <1>1, <1>7, <2>1, <2>3 DEF WithAgent, Unfinished
      <4>. QED
        BY <2>3, <4>1 DEF HostInv
    <3>. QED
      BY <1>1, <2>1, <3>1, <3>2 DEF TypeInv, TypeRows
  <2>. QED
    BY <2>2, <2>3
<1>8. \A j \in Inst : ~replaced'[j] => image'[j] = actual'[j]
  BY <1>1 DEF HostInv, TypeInv, TypeRows
<1>. QED
  BY <1>3, <1>4, <1>5, <1>6, <1>7, <1>8 DEF HostInv

LEMMA ExecuteKnown ==
    ASSUME TypeInv, HostInv, KnownInv, NEW t \in TaskId, Execute(t) \/ LoseResult(t)
    PROVE  KnownInv'
<1> DEFINE i == task[t].inst
<1>1. Unfinished(t) /\ task[t].ph # "queued" /\ row' = row /\ i \in Inst /\ task[t].st = "dispatched"
  BY ExecuteCase, UnfinishedFacts DEF HostInv, TaskRec
<1> SUFFICES ASSUME NEW j \in Inst, replaced'[j], row'[j] # "gone"
             PROVE  \E u \in TaskId : Witness(u, j)'
  BY DEF KnownInv
<1>2. CASE replaced[j]
  <2>1. PICK u \in TaskId : Witness(u, j)
    BY <1>1, <1>2 DEF KnownInv
  <2>2. /\ task'[u].inst = j /\ task'[u].kind = "update" /\ task'[u].bound
        /\ task'[u].st = "dispatched" /\ (u # t => task'[u].ph = task[u].ph)
    BY <2>1, ExecuteTask DEF Witness, Update
  <2>3. task'[u].ph \in {"queued", "ok"}
    <3>1. CASE u # t
      BY <2>1, <2>2, <3>1 DEF Witness
    <3>2. CASE u = t
      BY <2>1, <3>2, ExecuteCase DEF Witness, Update
    <3>. QED
      BY <3>1, <3>2
  <2>. QED
    BY <2>2, <2>3 DEF Witness, Update, Unfinished
<1>3. CASE ~replaced[j]
  <2>1. /\ task[t].kind = "update" /\ task[t].live /\ task'[t].ph = "ok"
        /\ replaced' = [replaced EXCEPT ![i] = TRUE]
    BY <1>3, ExecuteCase
  <2>2. j = i /\ task[t].bound
    BY <1>1, <1>3, <2>1 DEF HostInv, TypeInv, TypeRows
  <2>3. /\ task'[t].inst = i /\ task'[t].kind = "update" /\ task'[t].bound
        /\ task'[t].st = "dispatched"
    BY <1>1, <2>1, <2>2, ExecuteTask
  <2>. QED
    BY <2>1, <2>2, <2>3 DEF Witness, Update, Unfinished
<1>. QED
  BY <1>2, <1>3

\* A result ends the task it is about.
LEMMA ResultTask ==
    ASSUME TypeInv, NEW t \in TaskId, TaskResult(t)
    PROVE  /\ Unfinished(t) /\ ~Unfinished(t)'
           /\ \A u \in TaskId : u # t => task'[u] = task[u]
           /\ t = releaseTask => task'[t].kind = task[t].kind
<1>1. Unfinished(t) /\ task[t] \in TaskRec /\ \A u \in TaskId : u # t => task'[u] = task[u]
  BY UnfinishedFacts DEF TaskResult, TypeInv, TypeTasks
<1>2. /\ [task[t] EXCEPT !.st = "success"].st = "success"
      /\ [task[t] EXCEPT !.st = "failed"].st = "failed" /\ NoTask.st = "none"
      /\ [task[t] EXCEPT !.st = "success"].kind = task[t].kind
      /\ [task[t] EXCEPT !.st = "failed"].kind = task[t].kind
  BY <1>1, Zenon DEF TaskRec, NoTask
<1>3. /\ task'[t] \in {NoTask, [task[t] EXCEPT !.st = "success"], [task[t] EXCEPT !.st = "failed"]}
      /\ t = releaseTask =>
           task'[t] \in {[task[t] EXCEPT !.st = "success"], [task[t] EXCEPT !.st = "failed"]}
  BY DEF TaskResult, TypeInv, TypeTasks
<1>4. task'[t].st \in {"none", "success", "failed"} /\ (t = releaseTask => task'[t].kind = task[t].kind)
  BY <1>2, <1>3, Zenon
<1>. QED
  BY <1>1, <1>4 DEF Unfinished

LEMMA ResultHosts ==
    ASSUME TypeInv, HostInv, NEW t \in TaskId, TaskResult(t) PROVE HostInv'
<1> DEFINE i == task[t].inst
           swapped == task[t].kind = "update" /\ task[t].ph = "ok"
<1>1. /\ Unfinished(t) /\ nextTask' = nextTask /\ actual' = actual /\ i \in Inst
      /\ \A u \in TaskId : u # t => task'[u] = task[u]
      /\ IF swapped THEN /\ image' = [image EXCEPT ![i] = task[t].target]
                         /\ replaced' = [replaced EXCEPT ![i] = FALSE]
         ELSE UNCHANGED <<image, replaced>>
  BY UnfinishedFacts DEF TaskResult, TaskRec, TypeInv, TypeTasks
<1>2. ~Unfinished(t)'
  BY ResultTask
<1>3. \A u \in TaskId : Unfinished(u)' \/ WithAgent(task'[u]) => u # t
  BY <1>2 DEF Unfinished, WithAgent
<1>4. \A u \in TaskId : u >= nextTask' => task'[u] = NoTask
  <2>1. \A u \in TaskId : task[u] = NoTask => u # t
    BY <1>1 DEF Unfinished, NoTask
  <2>. QED
    BY <1>1, <2>1 DEF HostInv
<1>5. ASSUME NEW u \in TaskId, Unfinished(u)', task'[u].live
      PROVE  task'[u].bound /\ ~replaced'[task'[u].inst]
  <2>1. task'[u] = task[u] /\ Unfinished(u)
    BY <1>1, <1>3, <1>5 DEF Unfinished
  <2>2. task[u].bound /\ ~replaced[task[u].inst] /\ task[u].inst \in Inst
    BY <1>5, <2>1, UnfinishedFacts DEF HostInv, TaskRec
  <2>. QED
    BY <1>1, <2>1, <2>2 DEF TypeInv, TypeRows
<1>6. \A u \in TaskId : Unfinished(u)' /\ task'[u].ph # "queued" => task'[u].st = "dispatched"
  BY <1>1, <1>3 DEF HostInv, Unfinished
<1>7. \A u, v \in TaskId :
        WithAgent(task'[u]) /\ WithAgent(task'[v]) /\ task'[u].inst = task'[v].inst => u = v
  BY <1>1, <1>3 DEF HostInv
<1>8. \A u \in TaskId : Update(u)' /\ task'[u].ph = "ok" => actual'[task'[u].inst] = task'[u].target
  BY <1>1, <1>3 DEF HostInv, Update, Unfinished
<1>9. \A j \in Inst : ~replaced'[j] => image'[j] = actual'[j]
  <2>1. swapped => actual[i] = task[t].target
    BY <1>1 DEF HostInv, Update
  <2>. QED
    BY <1>1, <2>1 DEF HostInv, TypeInv, TypeRows
<1>. QED
  BY <1>4, <1>5, <1>6, <1>7, <1>8, <1>9 DEF HostInv

LEMMA ResultKnown ==
    ASSUME TypeInv, KnownInv, NEW t \in TaskId, TaskResult(t) PROVE KnownInv'
<1> DEFINE i == task[t].inst
           swapped == task[t].kind = "update" /\ task[t].ph = "ok"
<1>1. /\ i \in Inst /\ task[t].ph \in {"ok", "bad"}
      /\ \A u \in TaskId : u # t => task'[u] = task[u]
      /\ IF swapped THEN /\ replaced' = [replaced EXCEPT ![i] = FALSE]
                         /\ \A j \in Inst : j # i => row'[j] = row[j]
         ELSE UNCHANGED <<replaced, row>>
  BY UnfinishedFacts DEF TaskResult, TaskRec, TypeInv, TypeTasks, TypeRows
<1> SUFFICES ASSUME NEW j \in Inst, replaced'[j], row'[j] # "gone"
             PROVE  \E u \in TaskId : Witness(u, j)'
  BY DEF KnownInv
<1>2. replaced[j] /\ row[j] # "gone" /\ (swapped => j # i)
  BY <1>1 DEF TypeInv, TypeRows
<1>3. PICK u \in TaskId : Witness(u, j)
  BY <1>2 DEF KnownInv
<1>4. u # t
  BY <1>1, <1>2, <1>3 DEF Witness, Update
<1>. QED
  BY <1>1, <1>3, <1>4 DEF Witness, Update, Unfinished

LEMMA HostsNext == ASSUME SafeInv, HostInv, [Next]_vars PROVE HostInv'
<1>1. TypeInv
  BY DEF SafeInv
<1>2. CASE ~Agent
  BY <1>1, <1>2, ServerSteps, ServerHosts
<1>3. CASE Agent
  BY <1>1, <1>3, HeartbeatHosts, NextTaskHosts, ExecuteHosts, ResultHosts DEF Agent
<1>. QED
  BY <1>2, <1>3

LEMMA KnownNext ==
    ASSUME ReportsBeforeRetry, SafeInv, HostInv, KnownInv, [Next]_vars PROVE KnownInv'
<1>1. TypeInv
  BY DEF SafeInv
<1>2. CASE ~Agent
  BY <1>1, <1>2, ServerSteps, ServerKnown
<1>3. CASE Agent
  BY <1>1, <1>3, HeartbeatKnown, NextTaskKnown, ExecuteKnown, ResultKnown DEF Agent
<1>. QED
  BY <1>2, <1>3

-----------------------------------------------------------------------------
(* The steps of the release.                                               *)

\* The task a release waits for is a preparation in the preflight and an update in the
\* rollout, and the step of its instance says so; after the rollout all steps are done.
TaskInv ==
    /\ status = "preflighting_local" /\ releaseTask # 0 =>
         task[releaseTask].kind = "prepare" /\ step[task[releaseTask].inst] = "preparing"
    /\ status \in Rollout /\ releaseTask # 0 =>
         /\ task[releaseTask].kind = "update"
         /\ step[task[releaseTask].inst] \in {"updating", "verifying"}
Late == {"updating_acs", "waiting_acs", "cleaning_guard"}
LateInv == status \in Late => \A i \in Inst : step[i] \in {"none", "completed"}
StepInv == SafeInv /\ HostInv /\ TaskInv /\ LateInv

\* While the release goes on, its set of instances is fixed, and once more the walk over
\* the instances comes only when the task it waited for has finished.
StepsFixed == \A i \in Inst : step'[i] = "none" <=> step[i] = "none"
StageStep == TaskInv' /\ LateInv' /\ (Active' => StepsFixed)

LEMMA StageStatus ==
    /\ "preflighting_local" \notin Rollout /\ "preflighting_local" \notin Late
    /\ Rollout \cap Late = {} /\ Rollout \subseteq ActiveStatus
    /\ "failed" \notin ActiveStatus /\ "completed" \notin ActiveStatus
    /\ Rollout = {"draining_local", "updating_local", "verifying_local"}
BY DEF Rollout, Late, ActiveStatus

LEMMA QueueFacts ==
    ASSUME TypeInv, NEW i, NEW kind, QueueTask(i, kind)
    PROVE  /\ releaseTask' = nextTask /\ task'[nextTask].inst = i /\ task'[nextTask].kind = kind
           /\ \A t \in TaskId : t # nextTask => task'[t] = task[t]
<1> DEFINE new == [inst |-> i, kind |-> kind, target |-> desiredImage, st |-> "pending",
                   ph |-> "queued", bound |-> TRUE, live |-> ~replaced[i]]
<1>1. task \in [TaskId -> AnyTask]
  BY DEF TypeInv, TypeTasks
<1>2. new.inst = i /\ new.kind = kind
  BY Zenon
<1>3. task' = [task EXCEPT ![nextTask] = new] /\ nextTask \in TaskId /\ releaseTask' = nextTask
  BY DEF QueueTask
<1> HIDE DEF new
<1>. QED
  BY <1>1, <1>2, <1>3

LEMMA StagePreflightResult ==
    ASSUME StepInv, UNCHANGED tickFrame, PreflightResult PROVE StageStep
<1>1. CASE FailRelease(step, desired)
  BY <1>1 DEF FailRelease, StageStep, TaskInv, LateInv, Late, Rollout, Active, ActiveStatus
<1>2. CASE /\ step' = [step EXCEPT ![task[releaseTask].inst] = "prepared"]
           /\ DropTask /\ UNCHANGED status
  <2>1. releaseTask' = 0 /\ status' = "preflighting_local" /\ releaseTask # 0
    BY <1>2 DEF DropTask, PreflightResult
  <2>2. StepsFixed
    BY <1>2, <2>1, ReleaseTaskFacts
       DEF PreflightResult, StepsFixed, StepInv, SafeInv, TaskInv, TypeInv, TypeRows
  <2>. QED
    BY <2>1, <2>2 DEF StageStep, TaskInv, LateInv, Late, Rollout
<1>. QED
  BY <1>1, <1>2 DEF PreflightResult

LEMMA StagePreflightNext ==
    ASSUME StepInv, UNCHANGED tickFrame, PreflightNext PROVE StageStep
<1> DEFINE Done(f) == [i \in Inst |-> IF step[i] = "pending" /\ i < f
                                      THEN "completed" ELSE step[i]]
<1>1. step \in [Inst -> StepStatus] /\ status = "preflighting_local" /\ releaseTask = 0
  BY DEF StepInv, SafeInv, TypeInv, TypeRows, PreflightNext
<1>2. ASSUME NEW stp, NEW des, FailRelease(stp, des) PROVE StageStep
  BY <1>2 DEF FailRelease, StageStep, TaskInv, LateInv, Late, Rollout, Active, ActiveStatus
<1>3. CASE /\ step' = Done(N + 1) /\ status' \in {"preparing_guard", "draining_local"}
           /\ UNCHANGED releaseTask
  <2>1. StepsFixed
    BY <1>1, <1>3 DEF StepsFixed
  <2>. QED
    BY <1>1, <1>3, <2>1 DEF StageStep, TaskInv, LateInv, Late
<1>4. ASSUME NEW f \in Inst, ~Matches(f), step[f] = "pending", QueueTask(f, "prepare"),
             step' = [Done(f) EXCEPT ![f] = "preparing"], UNCHANGED status
      PROVE  StageStep
  <2>1. StepsFixed /\ step'[f] = "preparing"
    BY <1>1, <1>4 DEF StepsFixed
  <2>2. releaseTask' = nextTask /\ task'[nextTask].inst = f /\ task'[nextTask].kind = "prepare"
    BY <1>4, QueueFacts DEF StepInv, SafeInv
  <2>. QED
    BY <1>1, <1>4, <2>1, <2>2, StageStatus DEF StageStep, TaskInv, LateInv
<1>. QED
  BY <1>2, <1>3, <1>4 DEF PreflightNext

LEMMA StageRolloutResult ==
    ASSUME StepInv, UNCHANGED tickFrame, RolloutResult PROVE StageStep
<1> DEFINE i == task[releaseTask].inst
<1>1. /\ status \in Rollout /\ releaseTask # 0 /\ i \in Inst /\ step[i] \in {"updating", "verifying"}
      /\ task[releaseTask].kind = "update" /\ step \in [Inst -> StepStatus]
  BY ReleaseTaskFacts DEF RolloutResult, StepInv, SafeInv, TaskInv, TypeInv, TypeRows
<1>2. CASE FailRelease(step, desired)
  BY <1>2 DEF FailRelease, StageStep, TaskInv, LateInv, Late, Rollout, Active, ActiveStatus
<1>3. CASE /\ step' = [step EXCEPT ![i] = "completed"]
           /\ status' = "draining_local" /\ DropTask
  <2>1. StepsFixed /\ releaseTask' = 0
    BY <1>1, <1>3 DEF StepsFixed, DropTask
  <2>. QED
    BY <1>3, <2>1 DEF StageStep, TaskInv, LateInv, Late
<1>4. CASE /\ step' = [step EXCEPT ![i] = "verifying"]
           /\ status' = "verifying_local" /\ UNCHANGED <<releaseTask, taskVars>>
  <2>1. StepsFixed /\ step'[i] = "verifying" /\ releaseTask' = releaseTask /\ task' = task
    BY <1>1, <1>4 DEF StepsFixed, taskVars
  <2>. QED
    BY <1>1, <1>4, <2>1 DEF StageStep, TaskInv, LateInv, Late
<1>. QED
  BY <1>2, <1>3, <1>4 DEF RolloutResult

LEMMA StageRolloutNext ==
    ASSUME StepInv, UNCHANGED tickFrame, RolloutNext PROVE StageStep
<1> DEFINE Open == {i \in Steps : step[i] # "completed"}
           Done(f) == [i \in Inst |-> IF i \in Open /\ i < f
                                      THEN "completed" ELSE step[i]]
           Served(f) == [i \in Inst |-> IF i \in Open /\ i < f
                                        THEN "serve" ELSE desired[i]]
<1>1. step \in [Inst -> StepStatus] /\ status \in Rollout /\ releaseTask = 0
  BY DEF StepInv, SafeInv, TypeInv, TypeRows, RolloutNext
<1>2. ASSUME NEW stp, NEW des, FailRelease(stp, des) PROVE StageStep
  BY <1>2 DEF FailRelease, StageStep, TaskInv, LateInv, Late, Rollout, Active, ActiveStatus
<1>3. \A f : \A i \in Inst : Done(f)[i] = "none" <=> step[i] = "none"
  BY DEF Steps
<1>4. CASE step' = Done(N + 1) /\ status' = "updating_acs" /\ UNCHANGED releaseTask
  <2>1. StepsFixed
    BY <1>3, <1>4 DEF StepsFixed
  <2>2. \A i \in Inst : step'[i] \in {"none", "completed"}
    BY <1>4, OrderFacts DEF Steps
  <2>. QED
    BY <1>1, <1>4, <2>1, <2>2 DEF StageStep, TaskInv, LateInv, Rollout
<1>5. ASSUME NEW f \in Open,
             \/ step' = [Done(f) EXCEPT ![f] = "draining"] /\ status' = "draining_local"
             \/ step' = Done(f) /\ UNCHANGED status,
             UNCHANGED releaseTask
      PROVE  StageStep
  <2>1. StepsFixed
    BY <1>1, <1>3, <1>5 DEF StepsFixed, Steps
  <2>. QED
    BY <1>1, <1>5, <2>1, StageStatus DEF StageStep, TaskInv, LateInv
<1>6. ASSUME NEW f \in Open, QueueTask(f, "update"),
             step' = [Done(f) EXCEPT ![f] = "updating"], status' = "updating_local"
      PROVE  StageStep
  <2>1. StepsFixed /\ step'[f] = "updating" /\ f \in Inst
    BY <1>1, <1>3, <1>6 DEF StepsFixed, Steps
  <2>2. releaseTask' = nextTask /\ task'[nextTask].inst = f /\ task'[nextTask].kind = "update"
    BY <1>6, QueueFacts DEF StepInv, SafeInv
  <2>. QED
    BY <1>6, <2>1, <2>2, StageStatus DEF StageStep, TaskInv, LateInv, Late
<1>. QED
  BY <1>2, <1>4, <1>5, <1>6 DEF RolloutNext

LEMMA StageTick == ASSUME StepInv, Tick PROVE StageStep
<1>1. UNCHANGED tickFrame
  BY DEF Tick
<1>2. CASE Abort
  BY <1>2 DEF Abort, FailRelease, StageStep, TaskInv, LateInv, Late, Rollout, Active, ActiveStatus
<1>3. CASE PrepareGuard \/ WaitGuard \/ UpdateAcs \/ WaitAcs \/ CleanGuard
  <2>1. status \notin Rollout \cup {"preflighting_local"} /\ releaseTask = 0
    BY <1>3 DEF PrepareGuard, WaitGuard, UpdateAcs, WaitAcs, CleanGuard, Rollout,
       StepInv, SafeInv, BusyInv
  <2>2. \/ status' = "failed" /\ releaseTask' = 0
        \/ /\ UNCHANGED step /\ releaseTask' = 0
           /\ status' \in Late => status \in Late
           /\ status' # "preflighting_local"
    BY <1>3, <2>1
       DEF PrepareGuard, WaitGuard, UpdateAcs, WaitAcs, CleanGuard, CompleteRelease, FailRelease, Late
  <2>. QED
    BY <2>2 DEF StepInv, StageStep, TaskInv, LateInv, Late, Rollout, Active, ActiveStatus, StepsFixed
<1>. QED
  BY <1>1, <1>2, <1>3, StagePreflightResult, StagePreflightNext, StageRolloutResult, StageRolloutNext
     DEF Tick, Progress

\* The Agent moves no task to another instance or kind, revives none, and binds none.
TaskGoesOn(t) ==
    /\ Unfinished(t) /\ task'[t].inst = task[t].inst /\ task'[t].kind = task[t].kind
    /\ task'[t].bound => task[t].bound
    /\ task'[t].live => task[t].live
LEMMA AgentTask ==
    ASSUME TypeInv, Agent, NEW t \in TaskId, Unfinished(t)' PROVE TaskGoesOn(t)
<1>1. ASSUME NEW i \in Inst, NEW s, Heartbeat(i, s) PROVE TaskGoesOn(t)
  <2>1. Unfinished(t)
    BY <1>1, HeartbeatRest DEF Unfinished
  <2>2. task'[t].bound => task[t].bound
    <3>1. task[t] \in TaskRec
      BY <2>1, UnfinishedFacts
    <3>2. ~[task[t] EXCEPT !.bound = FALSE].bound
      BY <3>1, Zenon DEF TaskRec
    <3>3. task'[t] \in {task[t], [task[t] EXCEPT !.bound = FALSE]}
      BY <1>1 DEF Heartbeat, TypeInv, TypeTasks
    <3>. QED
      BY <3>2, <3>3
  <2>. QED
    BY <1>1, <2>1, <2>2, HeartbeatTask DEF TaskGoesOn
<1>2. ASSUME NEW i \in Inst, NextTask(i) PROVE TaskGoesOn(t)
  <2>1. CASE t \in TasksOf(i)
    BY <1>2, <2>1, NextTaskTask DEF TasksOf, TaskGoesOn
  <2>2. CASE t \notin TasksOf(i)
    BY <1>2, <2>2, NextTaskTask DEF Unfinished, TaskGoesOn
  <2>. QED
    BY <2>1, <2>2
<1>3. ASSUME NEW u \in TaskId, Execute(u) \/ LoseResult(u) PROVE TaskGoesOn(t)
  <2>1. Unfinished(t)
    BY <1>3, ExecuteCase DEF Unfinished
  <2>. QED
    BY <1>3, <2>1, ExecuteTask DEF TaskGoesOn
<1>4. ASSUME NEW u \in TaskId, TaskResult(u) PROVE TaskGoesOn(t)
  BY <1>4, ResultTask DEF Unfinished, TaskGoesOn
<1>. QED
  BY <1>1, <1>2, <1>3, <1>4, Zenon DEF Agent

\* Also the task of the release keeps instance and kind, when its result arrives, too.
LEMMA AgentReleaseTask ==
    ASSUME TypeInv, Agent, releaseTask # 0
    PROVE  /\ task'[releaseTask].inst = task[releaseTask].inst
           /\ task'[releaseTask].kind = task[releaseTask].kind
<1>1. task'[releaseTask].inst = task[releaseTask].inst
  BY AgentKeeps
<1>2. releaseTask \in TaskId /\ task[releaseTask] \in TaskRec
  BY ReleaseTaskFacts
<1>3. ASSUME NEW i \in Inst, NEW s, Heartbeat(i, s)
      PROVE  task'[releaseTask].kind = task[releaseTask].kind
  BY <1>2, <1>3, HeartbeatTask, HeartbeatRest
<1>4. ASSUME NEW i \in Inst, NextTask(i) PROVE task'[releaseTask].kind = task[releaseTask].kind
  BY <1>2, <1>4, NextTaskTask
<1>5. ASSUME NEW u \in TaskId, Execute(u) \/ LoseResult(u)
      PROVE  task'[releaseTask].kind = task[releaseTask].kind
  BY <1>2, <1>5, ExecuteTask, ExecuteCase
<1>6. ASSUME NEW u \in TaskId, TaskResult(u) PROVE task'[releaseTask].kind = task[releaseTask].kind
  BY <1>2, <1>6, ResultTask
<1>. QED
  BY <1>1, <1>3, <1>4, <1>5, <1>6 DEF Agent

\* Steps of others than the loop leave the release, its steps and its task alone.
OtherStep ==
    /\ UNCHANGED <<status, step, desiredImage, releaseTask, acsImage>>
    /\ releaseTask # 0 => /\ task'[releaseTask].inst = task[releaseTask].inst
                          /\ task'[releaseTask].kind = task[releaseTask].kind

LEMMA OtherSteps ==
    ASSUME SafeInv, [Next]_vars
    PROVE  \/ Tick \/ (\E m \in Image : StartImageRelease(m)) \/ OtherStep
<1> USE DEF SafeInv
<1>1. CASE Release \/ Rollback \/ RollbackToVersion
  BY <1>1 DEF Release, Rollback, RollbackToVersion, TypeInv, TypeRows
<1>2. CASE Agent
  <2>1. UNCHANGED <<status, step, desiredImage, releaseTask, acsImage>>
    BY <1>2 DEF Agent, NextTask, Heartbeat, Execute, LoseResult, TaskResult, releaseVars
  <2>. QED
    BY <1>2, <2>1, AgentReleaseTask DEF OtherStep
<1>3. CASE Deadline \/ Business \/ UNCHANGED vars
  BY <1>3 DEF Deadline, Business, ReportLoad, GuardReport, GuardStale, vars, releaseVars,
     taskVars, OtherStep
<1>4. CASE Operator
  <2>1. ASSUME NEW i \in Inst, NEW m \in Image, CreateAction(i, m) PROVE OtherStep
    <3>1. releaseTask # nextTask
      BY TaskIdFacts, SMT DEF TypeInv, TypeTasks, IdInv
    <3>2. releaseTask # 0 => task'[releaseTask] = task[releaseTask]
      BY <2>1, <3>1, ReleaseTaskFacts DEF CreateAction, TypeInv, TypeTasks
    <3>. QED
      BY <2>1, <3>2 DEF CreateAction, releaseVars, OtherStep
  <2>. QED
    BY <1>4, <2>1
       DEF Operator, EnterMaintenance, ExitMaintenance, UpdateMonitoring, UpdateGuardMonitoring,
           releaseVars, taskVars, OtherStep
<1>. QED
  BY <1>1, <1>2, <1>3, <1>4 DEF Next

LEMMA StepNext == ASSUME StepInv, [Next]_vars PROVE StepInv'
<1>1. SafeInv' /\ HostInv'
  BY SafeNext, HostsNext DEF StepInv
<1>2. TaskInv' /\ LateInv'
  <2>1. CASE Tick
    BY <2>1, StageTick DEF StageStep
  <2>2. ASSUME NEW m \in Image, StartImageRelease(m) PROVE TaskInv' /\ LateInv'
    BY <2>2, StageStatus DEF StartImageRelease, TaskInv, LateInv
  <2>3. CASE OtherStep
    BY <2>3 DEF OtherStep, StepInv, TaskInv, LateInv
  <2>. QED
    BY <2>1, <2>2, <2>3, OtherSteps DEF StepInv
<1>. QED
  BY <1>1, <1>2 DEF StepInv

LEMMA StepInit == Init => StepInv
<1> SUFFICES ASSUME Init PROVE StepInv
  OBVIOUS
<1>1. SafeInv
  BY SafeInit
<1>2. TaskInv /\ LateInv
  BY DEF Init, TaskInv, LateInv, Late
<1>3. HostInv
  <2>1. \A t \in TaskId : task[t] = NoTask /\ ~Unfinished(t)
    BY DEF Init, Unfinished, NoTask
  <2>2. \A t \in TaskId : ~WithAgent(task[t])
    BY <2>1 DEF WithAgent, Unfinished
  <2>3. image = actual
    BY DEF Init
  <2>. QED
    BY <2>1, <2>2, <2>3 DEF HostInv, Update
<1>. QED
  BY <1>1, <1>2, <1>3 DEF StepInv

LEMMA ReleaseStepInv == Spec => []StepInv
BY StepInit, StepNext, PTL DEF Spec

-----------------------------------------------------------------------------
(* The protection Deployment.                                              *)

\* The Deployment is named when it was made; past waiting_guard it has reported; the
\* rollout of a sole instance has one; it is drained only at the end.
GuardInv ==
    /\ status \in {"preflighting_local", "preparing_guard"} => ~guard.named
    /\ status = "waiting_guard" => guard.named /\ guard.deployed
    /\ Active /\ guard.named /\ status # "waiting_guard" => guard.seen
    /\ status = "cleaning_guard" => guard.named
    /\ status \in Rollout => \A i \in Inst : SoleStep(i) => guard.named /\ guard.deployed
    /\ Active /\ guard.desired # "serve" => status = "cleaning_guard"

\* What the cluster and the gateway do to the guard, field by field.
LEMMA GuardFacts ==
    ASSUME guard \in GuardRec, NEW d, NEW r
    PROVE  /\ LET g == [EnsureReleaseGuard(guard) EXCEPT !.named = TRUE]
              IN  /\ g.named = TRUE /\ g.deployed = TRUE /\ g.seen = guard.seen
                  /\ g.desired = guard.desired /\ g.monitored = guard.monitored
           /\ LET g == [guard EXCEPT !.desired = d]
              IN  /\ g.named = guard.named /\ g.deployed = guard.deployed /\ g.seen = guard.seen
                  /\ g.monitored = guard.monitored
           /\ LET g == [guard EXCEPT !.seen = TRUE, !.report = r, !.fresh = TRUE,
                                     !.desired = AfterReport(@, r)]
              IN  /\ g.named = guard.named /\ g.deployed = guard.deployed /\ g.seen = TRUE
                  /\ g.monitored = guard.monitored /\ g.desired = AfterReport(guard.desired, r)
           /\ LET g == [guard EXCEPT !.fresh = FALSE]
              IN  /\ g.named = guard.named /\ g.deployed = guard.deployed /\ g.seen = guard.seen
                  /\ g.monitored = guard.monitored /\ g.desired = guard.desired
           /\ LET g == [guard EXCEPT !.monitored = d, !.desired = IF d THEN @ ELSE "serve"]
              IN  /\ g.named = guard.named /\ g.deployed = guard.deployed /\ g.seen = guard.seen
                  /\ g.desired = IF d THEN guard.desired ELSE "serve"
           /\ NoGuard.named = FALSE /\ NoGuard.desired = "serve" /\ NoGuard.monitored = TRUE
BY Zenon DEF GuardRec, EnsureReleaseGuard, NoGuard

\* The guard in a step of a loop that goes on: it is left alone, made, or cleaned up.
GuardKept ==
    /\ guard' = guard /\ status' \notin {"waiting_guard", "preparing_guard"}
    /\ status' \in Rollout =>
         \/ status \in Rollout
         \/ status = "preflighting_local" /\ Cardinality(Steps) # 1
         \/ status = "waiting_guard"
    /\ status = "waiting_guard" => guard.named /\ guard.seen
    /\ status' = "preflighting_local" => status = "preflighting_local"
    /\ status # "cleaning_guard"
    /\ status' = "cleaning_guard" => guard.named
GuardNeeded ==
    guard' = guard /\ status = "preflighting_local" /\ status' = "preparing_guard"
GuardMade ==
    /\ status = "preparing_guard" /\ status' = "waiting_guard"
    /\ guard'.named = TRUE /\ guard'.deployed = TRUE /\ guard'.seen = guard.seen
    /\ guard'.desired = guard.desired /\ guard'.monitored = guard.monitored
GuardCleaned ==
    /\ status = "cleaning_guard" /\ status' = "cleaning_guard"
    /\ guard'.named = guard.named /\ guard'.deployed = guard.deployed
    /\ guard'.seen = guard.seen /\ guard'.monitored = guard.monitored
LEMMA TickGuard ==
    ASSUME StepInv, Tick, Active' PROVE GuardKept \/ GuardNeeded \/ GuardMade \/ GuardCleaned
<1> USE DEF GuardKept, GuardNeeded, GuardMade, GuardCleaned
<1>1. guard \in GuardRec /\ ~(status' \in {"failed", "completed"})
  BY DEF StepInv, SafeInv, TypeInv, Active, ActiveStatus
<1>2. ~Abort
  BY <1>1 DEF Abort, FailRelease
<1>3. CASE PreflightResult
  BY <1>1, <1>3 DEF PreflightResult, FailRelease, Rollout
<1>4. CASE PreflightNext
  BY <1>1, <1>4 DEF PreflightNext, FailRelease, Rollout
<1>5. CASE PrepareGuard
  <2>1. guard' = [EnsureReleaseGuard(guard) EXCEPT !.named = TRUE]
        /\ status = "preparing_guard" /\ status' = "waiting_guard"
    BY <1>1, <1>5 DEF PrepareGuard, FailRelease
  <2>2. /\ guard'.named = TRUE /\ guard'.deployed = TRUE /\ guard'.seen = guard.seen
        /\ guard'.desired = guard.desired /\ guard'.monitored = guard.monitored
    BY <1>1, <2>1, GuardFacts, Zenon
  <2>. QED
    BY <2>1, <2>2
<1>6. CASE WaitGuard
  BY <1>1, <1>6 DEF WaitGuard, GuardIsServing, FailRelease, Rollout
<1>7. CASE RolloutResult \/ RolloutNext
  BY <1>1, <1>7 DEF RolloutResult, RolloutNext, FailRelease, Rollout
<1>8. CASE UpdateAcs \/ WaitAcs
  BY <1>1, <1>8 DEF UpdateAcs, WaitAcs, FailRelease, CompleteRelease, Rollout
<1>9. CASE CleanGuard
  <2>1. PICK d : guard' = [guard EXCEPT !.desired = d]
                 /\ status = "cleaning_guard" /\ status' = "cleaning_guard"
    BY <1>1, <1>9 DEF CleanGuard, FailRelease, CompleteRelease
  <2>2. /\ guard'.named = guard.named /\ guard'.deployed = guard.deployed
        /\ guard'.seen = guard.seen /\ guard'.monitored = guard.monitored
    BY <1>1, <2>1, GuardFacts, Zenon
  <2>. QED
    BY <2>1, <2>2
<1>. QED
  BY <1>2, <1>3, <1>4, <1>5, <1>6, <1>7, <1>8, <1>9 DEF Tick, Progress

\* What others do to the guard.
OtherGuard ==
    /\ guard'.named = guard.named /\ guard'.deployed = guard.deployed
    /\ guard'.seen \in {guard.seen, TRUE}
    /\ guard.desired = "serve" => guard'.desired = "serve"
    /\ "monitoring" \notin Operators => guard'.monitored = guard.monitored
LEMMA OtherGuards ==
    ASSUME SafeInv, [Next]_vars
    PROVE  \/ Tick
           \/ \E m \in Image : StartImageRelease(m)
           \/ OtherStep /\ OtherGuard
<1>1. guard \in GuardRec
  BY DEF SafeInv, TypeInv
<1>2. ASSUME NEW r \in ReportClass, GuardReport(r) PROVE OtherGuard
  <2>1. guard' = [guard EXCEPT !.seen = TRUE, !.report = r, !.fresh = TRUE,
                               !.desired = AfterReport(@, r)]
    BY <1>2 DEF GuardReport
  <2>2. /\ guard'.named = guard.named /\ guard'.deployed = guard.deployed /\ guard'.seen = TRUE
        /\ guard'.monitored = guard.monitored /\ guard'.desired = AfterReport(guard.desired, r)
    BY <1>1, <2>1, GuardFacts, Zenon
  <2>. QED
    BY <2>2 DEF OtherGuard, AfterReport
<1>3. ASSUME GuardStale PROVE OtherGuard
  <2>1. guard' = [guard EXCEPT !.fresh = FALSE]
    BY <1>3 DEF GuardStale
  <2>2. /\ guard'.named = guard.named /\ guard'.deployed = guard.deployed /\ guard'.seen = guard.seen
        /\ guard'.monitored = guard.monitored /\ guard'.desired = guard.desired
    BY <1>1, <2>1, GuardFacts, Zenon
  <2>. QED
    BY <2>2 DEF OtherGuard
<1>4. ASSUME NEW on \in BOOLEAN, UpdateGuardMonitoring(on) PROVE OtherGuard
  <2>1. guard' = [guard EXCEPT !.monitored = on, !.desired = IF on THEN @ ELSE "serve"]
        /\ "monitoring" \in Operators
    BY <1>4 DEF UpdateGuardMonitoring
  <2>2. /\ guard'.named = guard.named /\ guard'.deployed = guard.deployed /\ guard'.seen = guard.seen
        /\ guard'.desired = IF on THEN guard.desired ELSE "serve"
    BY <1>1, <2>1, GuardFacts, Zenon
  <2>. QED
    BY <2>1, <2>2 DEF OtherGuard
<1>5. \/ Tick \/ (\E m \in Image : StartImageRelease(m)) \/ guard' = guard \/ OtherGuard
  <2>1. CASE Release \/ Rollback \/ RollbackToVersion
    BY <2>1 DEF Release, Rollback, RollbackToVersion, SafeInv, TypeInv, TypeRows
  <2>2. CASE Agent
    BY <2>2 DEF Agent, NextTask, Heartbeat, Execute, LoseResult, TaskResult
  <2>3. CASE Deadline \/ UNCHANGED vars
    BY <2>3 DEF Deadline, vars
  <2>4. CASE Business
    BY <1>2, <1>3, <2>4 DEF Business, ReportLoad
  <2>5. CASE Operator
    BY <1>4, <2>5 DEF Operator, EnterMaintenance, ExitMaintenance, UpdateMonitoring, CreateAction
  <2>. QED
    BY <2>1, <2>2, <2>3, <2>4, <2>5 DEF Next
<1>6. guard' = guard => OtherGuard
  BY DEF OtherGuard
<1>. QED
  BY <1>5, <1>6, OtherSteps

LEMMA GuardNext == ASSUME StepInv, GuardInv, [Next]_vars PROVE GuardInv'
<1>1. ASSUME NEW m \in Image, StartImageRelease(m) PROVE GuardInv'
  <2>1. guard' = NoGuard /\ status' = "preflighting_local"
    BY <1>1 DEF StartImageRelease
  <2>2. guard'.named = FALSE /\ guard'.desired = "serve"
    BY <2>1, Zenon DEF NoGuard
  <2>. QED
    BY <2>1, <2>2, StageStatus DEF GuardInv
<1>2. CASE OtherStep /\ OtherGuard
  BY <1>2 DEF OtherStep, OtherGuard, GuardInv, Active, SoleStep, Steps
<1>3. CASE Tick /\ Active'
  <2>1. Active /\ \A i \in Inst : SoleStep(i)' <=> SoleStep(i)
    <3>1. Active /\ Steps' = Steps
      BY <1>3, StageTick, TickTasks DEF StageStep, StepsFixed, Steps, StepInv
    <3>. QED
      BY <3>1 DEF SoleStep
  <2>2. \A i \in Inst : SoleStep(i) => Cardinality(Steps) = 1
    BY FS_Singleton DEF SoleStep
  <2>3. CASE GuardKept
    <3> USE DEF GuardKept
    <3>1. \A i \in Inst : status' \in Rollout /\ SoleStep(i)' => guard.named /\ guard.deployed
      BY <2>1, <2>2, <2>3 DEF GuardInv
    <3>2. Active /\ guard.named /\ status' # "waiting_guard" => guard.seen
      BY <2>3 DEF GuardInv
    <3>3. status' = "preflighting_local" => ~guard.named
      BY <2>3 DEF GuardInv
    <3>4. ~(guard.desired # "serve")
      BY <2>1, <2>3 DEF GuardInv
    <3>. QED
      BY <2>1, <2>3, <3>1, <3>2, <3>3, <3>4 DEF GuardInv
  <2>4. CASE GuardNeeded
    BY <2>1, <2>4 DEF GuardInv, GuardNeeded, Rollout
  <2>5. CASE GuardMade
    BY <2>1, <2>5 DEF GuardInv, GuardMade, Rollout
  <2>6. CASE GuardCleaned
    BY <2>1, <2>6 DEF GuardInv, GuardCleaned, Rollout
  <2>. QED
    BY <1>3, <2>3, <2>4, <2>5, <2>6, TickGuard
<1>4. CASE Tick /\ ~Active'
  BY <1>4 DEF GuardInv, Active, ActiveStatus, Rollout
<1>. QED
  BY <1>1, <1>2, <1>3, <1>4, OtherGuards DEF StepInv

LEMMA ReleaseGuardInv == Spec => [](StepInv /\ GuardInv)
<1>1. Init => GuardInv
  BY DEF Init, GuardInv, Active, ActiveStatus, Rollout
<1>. QED
  BY <1>1, StepInit, StepNext, GuardNext, PTL DEF Spec

\* For any number of instances: a sole instance is out of service only while a guard
\* exists and has reported, and the guard drains only when the instances are back.
THEOREM ReleaseGuardCovers == Spec => []GuardCovers
<1>1. ASSUME StepInv, GuardInv PROVE GuardCovers
  <2>1. ASSUME NEW i \in Inst, Active, SoleStep(i), step[i] \in {"draining", "updating", "verifying"}
        PROVE  guard.named /\ guard.deployed /\ guard.seen
    <3>1. Busy(i) /\ step[i] # "preparing"
      BY <2>1 DEF Busy, BusyStep
    <3>2. status \in Rollout
      BY <1>1, <3>1 DEF StepInv, SafeInv, BusyInv, NoneBusy, TaskInv
    <3>. QED
      BY <1>1, <2>1, <3>2 DEF GuardInv, Rollout
  <2>2. Active /\ guard.desired # "serve" => \A i \in Steps : step[i] = "completed"
    BY <1>1 DEF GuardInv, StepInv, LateInv, Late, Steps
  <2>. QED
    BY <2>1, <2>2 DEF GuardCovers
<1>. QED
  BY <1>1, ReleaseGuardInv, PTL

\* The Deployment goes only after its instance had drained, as long as nobody takes the
\* guard out of the monitoring that the drain goes through.
THEOREM ReleaseGuardDeletedDrained ==
    ASSUME "monitoring" \notin Operators PROVE Spec => GuardDeletedDrained
<1> DEFINE MonInv == Active => guard.monitored = TRUE
<1>1. Init => MonInv
  BY DEF Init, Active, ActiveStatus
<1>2. ASSUME StepInv, MonInv, [Next]_vars PROVE MonInv'
  <2>1. ASSUME NEW m \in Image, StartImageRelease(m) PROVE MonInv'
    <3>1. guard' = NoGuard /\ NoGuard.monitored = TRUE
      BY <2>1, Zenon DEF StartImageRelease, NoGuard
    <3>. QED
      BY <3>1
  <2>2. CASE OtherStep /\ OtherGuard
    BY <1>2, <2>2 DEF OtherStep, OtherGuard, Active
  <2>3. CASE Tick
    <3>1. Active
      BY <1>2, <2>3, TickTasks DEF StepInv
    <3>2. Active' => guard'.monitored = guard.monitored
      BY <1>2, <2>3, TickGuard DEF GuardKept, GuardNeeded, GuardMade, GuardCleaned
    <3>. QED
      BY <1>2, <3>1, <3>2
  <2>. QED
    BY <1>2, <2>1, <2>2, <2>3, OtherGuards DEF StepInv
<1>3. ASSUME StepInv, GuardInv, MonInv, [Next]_vars, guard.deployed, ~guard'.deployed, Active
      PROVE  guard.desired = "maintenance" /\ guard.report = "idle"
  <2>1. guard \in GuardRec /\ guard.seen \in BOOLEAN /\ guard.monitored \in BOOLEAN
    BY <1>3 DEF StepInv, SafeInv, TypeInv, GuardRec
  <2>2. Tick
    BY <1>3, OtherGuards DEF StepInv, StartImageRelease, OtherGuard
  <2>3. ~Active'
    BY <1>3, <2>2, TickGuard DEF GuardKept, GuardNeeded, GuardMade, GuardCleaned
  <2>4. CleanGuard
    <3>1. guard' # guard
      BY <1>3
    <3>2. PrepareGuard => guard' \in {guard, EnsureReleaseGuard(guard)}
      BY <2>3 DEF PrepareGuard, Active, ActiveStatus
    <3>3. EnsureReleaseGuard(guard).deployed = TRUE
      BY <2>1, Zenon DEF EnsureReleaseGuard, GuardRec
    <3>4. ~PrepareGuard
      BY <1>3, <3>1, <3>2, <3>3
    <3>. QED
      BY <2>2, <3>1, <3>4
         DEF Tick, Progress, Abort, PreflightResult, PreflightNext, WaitGuard,
             RolloutResult, RolloutNext, UpdateAcs, WaitAcs
  <2>5. guard.seen /\ guard.monitored
    BY <1>3, <2>4 DEF GuardInv, CleanGuard
  <2>6. \E d : /\ d = IF guard.desired = "serve" THEN "draining" ELSE guard.desired
               /\ GuardDrained(d)
    BY <2>3, <2>4, <2>5 DEF CleanGuard, Active, ActiveStatus
  <2>. QED
    BY <2>6 DEF GuardDrained
<1>4. StepInv /\ GuardInv /\ MonInv /\ [Next]_vars
      => [guard.deployed /\ ~guard'.deployed /\ Active =>
            guard.desired = "maintenance" /\ guard.report = "idle"]_vars
  BY <1>3
<1>. QED
  BY <1>1, <1>2, <1>4, StepInit, StepNext, ReleaseGuardInv, PTL DEF Spec, GuardDeletedDrained

-----------------------------------------------------------------------------
(* The gateway.                                                            *)

\* The instance of an unfinished update was drained for it.
RouteInv ==
    releaseTask # 0 /\ Unfinished(releaseTask) /\ task[releaseTask].kind = "update"
    => desired[task[releaseTask].inst] = "maintenance"

LEMMA RouteTick == ASSUME StepInv, RouteInv, StepInv', Tick PROVE RouteInv'
<1>1. CASE releaseTask' = 0
  BY <1>1 DEF RouteInv
<1>2. CASE releaseTask' # 0
  <2>1. Active' /\ status' # "failed"
    BY <1>2 DEF StepInv, SafeInv, BusyInv, Active, ActiveStatus, Rollout
  <2>2. CASE PreflightNext
    <3>1. PICK f \in Inst : QueueTask(f, "prepare")
      BY <1>2, <2>1, <2>2 DEF PreflightNext, FailRelease
    <3>2. task'[releaseTask'].kind = "prepare"
      BY <3>1, QueueFacts DEF StepInv, SafeInv
    <3>. QED
      BY <3>2 DEF RouteInv
  <2>3. CASE RolloutResult
    <3>1. releaseTask' = releaseTask /\ task' = task /\ ~Unfinished(releaseTask)
      BY <1>2, <2>1, <2>3 DEF RolloutResult, FailRelease, DropTask, taskVars
    <3>. QED
      BY <3>1 DEF RouteInv, Unfinished
  <2>4. CASE RolloutNext
    <3>1. PICK f \in Inst : /\ QueueTask(f, "update") /\ desired[f] = "maintenance"
                            /\ desired'[f] = desired[f]
      <4>1. \A f \in Inst : ~(f < f)
        BY OrderFacts
      <4>. QED
        BY <1>2, <2>1, <2>4, <4>1 DEF RolloutNext, FailRelease, Steps
    <3>2. task'[releaseTask'].inst = f
      BY <3>1, QueueFacts DEF StepInv, SafeInv
    <3>. QED
      BY <3>1, <3>2 DEF RouteInv
  <2>5. ~Abort /\ ~PreflightResult
    BY <1>2, <2>1 DEF Abort, PreflightResult, FailRelease, DropTask
  <2>6. ~(PrepareGuard \/ WaitGuard \/ UpdateAcs \/ WaitAcs \/ CleanGuard)
    BY <1>2 DEF PrepareGuard, WaitGuard, UpdateAcs, WaitAcs, CleanGuard, CompleteRelease,
       FailRelease, StepInv, SafeInv, BusyInv, Rollout
  <2>. QED
    BY <2>2, <2>3, <2>4, <2>5, <2>6 DEF Tick, Progress
<1>. QED
  BY <1>1, <1>2

LEMMA RouteNext ==
    ASSUME "monitoring" \notin Operators, "exitDuringRelease" \notin Operators,
           StepInv, RouteInv, [Next]_vars
    PROVE  RouteInv'
<1>1. CASE Tick
  BY <1>1, StepNext, RouteTick
<1>2. ASSUME NEW m \in Image, StartImageRelease(m) PROVE RouteInv'
  BY <1>2 DEF StartImageRelease, RouteInv
<1>3. CASE OtherStep /\ ~Tick /\ releaseTask # 0 /\ Unfinished(releaseTask)'
  <2> DEFINE i == task[releaseTask].inst
  <2>1. /\ releaseTask' = releaseTask /\ task'[releaseTask].inst = i
        /\ task'[releaseTask].kind = task[releaseTask].kind /\ i \in Inst /\ Active
        /\ desired \in [Inst -> DesiredState]
    BY <1>3, ReleaseTaskFacts
       DEF OtherStep, StepInv, SafeInv, BusyInv, TypeInv, TypeRows, Active, ActiveStatus, Rollout
  <2>2. Unfinished(releaseTask)
    <3>1. PICK t \in TaskId : t = releaseTask
      BY <1>3, ReleaseTaskFacts DEF StepInv, SafeInv
    <3>2. Unfinished(t)'
      BY <1>3, <2>1, <3>1 DEF Unfinished
    <3>3. CASE Agent
      BY <3>1, <3>2, <3>3, AgentTask DEF StepInv, SafeInv, TaskGoesOn
    <3>4. CASE ~Agent
      <4>1. t # nextTask
        BY <3>1, TaskIdFacts, SMT DEF StepInv, SafeInv, IdInv, TypeInv, TypeTasks
      <4>2. task'[t] = task[t] \/ task'[t] = NoTask
        BY <3>4, <4>1, ServerSteps DEF StepInv, ServerStep, TaskStays, TaskEnds, TaskBegins
      <4>. QED
        BY <3>1, <3>2, <4>2 DEF Unfinished, NoTask
    <3>. QED
      BY <3>3, <3>4
  <2>3. desired[i] = "maintenance" => desired'[i] = "maintenance"
    <3>1. CASE Agent
      BY <3>1 DEF Agent, NextTask, Heartbeat, Execute, LoseResult, TaskResult, instanceVars
    <3>2. CASE Operator
      BY <2>1, <3>2 DEF Operator, EnterMaintenance, ExitMaintenance, UpdateMonitoring,
         CreateAction, UpdateGuardMonitoring, instanceVars
    <3>3. CASE Business
      BY <2>1, <3>3 DEF Business, ReportLoad, GuardReport, GuardStale, AfterReport, instanceVars
    <3>4. CASE Deadline \/ UNCHANGED vars
      BY <3>4 DEF Deadline, vars, instanceVars
    <3>5. ~(Release \/ Rollback \/ RollbackToVersion)
      BY <2>1 DEF Release, Rollback, RollbackToVersion, StartImageRelease
    <3>. QED
      BY <1>3, <3>1, <3>2, <3>3, <3>4, <3>5 DEF Next
  <2>. QED
    BY <1>3, <2>1, <2>2, <2>3 DEF RouteInv
<1>4. CASE OtherStep /\ ~(releaseTask # 0 /\ Unfinished(releaseTask)')
  BY <1>4 DEF OtherStep, RouteInv, Unfinished
<1>. QED
  BY <1>1, <1>2, <1>3, <1>4, OtherSteps DEF StepInv

\* For any number of instances, retries and lost results: as long as nobody puts an
\* instance back into service by hand during the release, one whose update the release
\* waits for is not given to the gateway.
THEOREM ReleaseNotRoutedDuringUpdate ==
    ASSUME "monitoring" \notin Operators, "exitDuringRelease" \notin Operators
    PROVE  Spec => []NotRoutedDuringUpdate
<1>1. Init => RouteInv
  BY DEF Init, RouteInv
<1>2. StepInv /\ RouteInv => NotRoutedDuringUpdate
  BY TaskIdFacts
     DEF RouteInv, NotRoutedDuringUpdate, UpdateUnderway, TasksOf, Discoverable
<1>. QED
  BY <1>1, <1>2, StepInit, StepNext, RouteNext, PTL DEF Spec

-----------------------------------------------------------------------------
(* Updates that can still change a container.                              *)

\* Of the tasks that name the row of one of its instances, a release knows all: it has
\* at most one, and started when there was none.
LinkInv == Active => \A t \in TaskId :
              Unfinished(t) /\ task[t].bound /\ step[task[t].inst] # "none" => t = releaseTask

LEMMA QuietTasks ==
    ASSUME "action" \notin Operators, [Next]_vars, ~Tick, ~Agent PROVE UNCHANGED taskVars
<1>1. CASE Release \/ Rollback \/ RollbackToVersion
  BY <1>1 DEF Release, Rollback, RollbackToVersion, StartImageRelease
<1>2. CASE Operator
  BY <1>2 DEF Operator, EnterMaintenance, ExitMaintenance, UpdateMonitoring, UpdateGuardMonitoring,
     CreateAction
<1>3. CASE Business \/ Deadline \/ UNCHANGED vars
  BY <1>3 DEF Business, ReportLoad, GuardReport, GuardStale, Deadline, vars
<1>. QED
  BY <1>1, <1>2, <1>3 DEF Next

\* A task that is unfinished after a step of the loop was so before, or was queued by it.
LEMMA TickTask ==
    ASSUME SafeInv, Tick, NEW t \in TaskId, Unfinished(t)'
    PROVE  \/ Unfinished(t) /\ task'[t] = task[t]
           \/ releaseTask = 0 /\ Active' /\ t = releaseTask'
<1>1. TypeInv
  BY DEF SafeInv
<1>2. ASSUME NEW stp, NEW des, FailRelease(stp, des) PROVE Unfinished(t) /\ task'[t] = task[t]
  <2>1. task'[t] = IF t = releaseTask /\ task[t].st # "dispatched" THEN NoTask ELSE task[t]
    BY <1>2 DEF FailRelease
  <2>. QED
    BY <2>1 DEF Unfinished, NoTask
<1>3. ASSUME NEW i, NEW kind, QueueTask(i, kind), releaseTask = 0, Active'
      PROVE  \/ Unfinished(t) /\ task'[t] = task[t]
             \/ releaseTask = 0 /\ Active' /\ t = releaseTask'
  BY <1>1, <1>3, QueueFacts DEF Unfinished
<1>4. CASE DropTask
  <2>1. task'[t] = IF t = releaseTask THEN NoTask ELSE task[t]
    BY <1>1, <1>4 DEF DropTask, TypeInv, TypeTasks
  <2>. QED
    BY <2>1 DEF Unfinished, NoTask
<1>5. CASE UNCHANGED taskVars
  BY <1>5 DEF taskVars, Unfinished
<1>. QED
  BY <1>2, <1>3, <1>4, <1>5, TickTasks

\* The loop does not give up an unfinished task of a release that goes on.
LEMMA TickKeepsTask ==
    ASSUME SafeInv, Tick, Active', releaseTask \in TaskId, Unfinished(releaseTask)
    PROVE  releaseTask' = releaseTask
<1>1. ASSUME NEW stp, NEW des, FailRelease(stp, des) PROVE FALSE
  BY <1>1 DEF FailRelease, Active, ActiveStatus
<1>2. releaseTask # 0
  BY TaskIdFacts
<1>3. ~(PreflightResult \/ RolloutResult \/ PreflightNext \/ RolloutNext)
  BY <1>2 DEF PreflightResult, RolloutResult, PreflightNext, RolloutNext
<1>4. ~(PrepareGuard \/ WaitGuard \/ UpdateAcs \/ WaitAcs \/ CleanGuard)
  BY <1>2 DEF PrepareGuard, WaitGuard, UpdateAcs, WaitAcs, CleanGuard, SafeInv, BusyInv, Rollout
<1>. QED
  BY <1>1, <1>3, <1>4 DEF Tick, Progress, Abort

LEMMA LinkNext ==
    ASSUME "action" \notin Operators, StepInv, LinkInv, StepInv', [Next]_vars PROVE LinkInv'
<1> SUFFICES ASSUME Active', NEW t \in TaskId,
                    Unfinished(t)', task'[t].bound, step'[task'[t].inst] # "none"
             PROVE  t = releaseTask'
  BY DEF LinkInv
<1>0. TypeInv /\ SafeInv
  BY DEF StepInv, SafeInv
<1>1. CASE Tick
  <2>1. CASE Unfinished(t) /\ task'[t] = task[t]
    <3>1. task[t].inst \in Inst
      BY <1>0, <2>1, UnfinishedFacts DEF TaskRec
    <3>2. step[task[t].inst] # "none" /\ Active
      BY <1>0, <1>1, <2>1, <3>1, StageTick, TickTasks DEF StageStep, StepsFixed
    <3>3. t = releaseTask
      BY <2>1, <3>2 DEF LinkInv
    <3>. QED
      BY <1>0, <1>1, <2>1, <3>3, TickKeepsTask
  <2>2. CASE t = releaseTask'
    BY <2>2
  <2>. QED
    BY <1>0, <1>1, <2>1, <2>2, TickTask
<1>2. ASSUME NEW m \in Image, StartImageRelease(m) PROVE FALSE
  <2>1. /\ task' = task /\ \A i \in Inst : monitored[i] => ~ActiveTask(i)
        /\ step' = [i \in Inst |-> IF monitored[i] THEN "pending" ELSE "none"]
    BY <1>2 DEF StartImageRelease, taskVars, Local
  <2>2. Unfinished(t) /\ task[t].bound
    BY <2>1 DEF Unfinished
  <2>3. task[t].inst \in Inst
    BY <1>0, <2>2, UnfinishedFacts DEF TaskRec
  <2>. QED
    BY <2>1, <2>2, <2>3 DEF ActiveTask, TasksOf
<1>3. CASE OtherStep /\ ~Tick
  <2>1. Unfinished(t) /\ task'[t].inst = task[t].inst /\ task[t].bound
    <3>1. CASE Agent
      BY <1>0, <3>1, AgentTask DEF TaskGoesOn
    <3>2. CASE ~Agent
      BY <1>3, <3>2, QuietTasks DEF taskVars, Unfinished
    <3>. QED
      BY <3>1, <3>2
  <2>. QED
    BY <1>3, <2>1 DEF OtherStep, LinkInv, Active
<1>. QED
  BY <1>0, <1>1, <1>2, <1>3, OtherSteps

\* Every instance is monitored, so a release has a step for each, and an update that can
\* still change a container is the task of the release.
EffectInv ==
    /\ \A i \in Inst : monitored[i] = TRUE
    /\ Active => \A i \in Inst : step[i] # "none"
    /\ OneEffectiveUpdate

Effective(r) == r.st \in {"pending", "dispatched"} /\ r.kind = "update" /\ r.live

LEMMA EffectNext ==
    ASSUME "action" \notin Operators, "monitoring" \notin Operators,
           StepInv, LinkInv, EffectInv, StepInv', LinkInv', [Next]_vars
    PROVE  EffectInv'
<1>0. TypeInv /\ SafeInv /\ monitored \in [Inst -> BOOLEAN]
  BY DEF StepInv, SafeInv, TypeInv, TypeRows
<1>1. \A i \in Inst : monitored'[i] = TRUE
  <2>1. monitored' = monitored
    <3>1. CASE Release \/ Rollback \/ RollbackToVersion
      BY <3>1 DEF Release, Rollback, RollbackToVersion, StartImageRelease, instanceVars
    <3>2. CASE Operator
      BY <3>2 DEF Operator, EnterMaintenance, ExitMaintenance, UpdateMonitoring,
         UpdateGuardMonitoring, CreateAction, instanceVars
    <3>3. CASE Business \/ Deadline \/ UNCHANGED vars
      BY <3>3 DEF Business, ReportLoad, GuardReport, GuardStale, Deadline, vars, instanceVars
    <3>4. CASE Agent
      BY <3>4 DEF Agent, NextTask, Heartbeat, Execute, LoseResult, TaskResult, instanceVars
    <3>5. CASE Tick
      BY <3>5 DEF Tick, tickFrame
    <3>. QED
      BY <3>1, <3>2, <3>3, <3>4, <3>5 DEF Next
  <2>. QED
    BY <2>1 DEF EffectInv
<1>2. Active' => \A i \in Inst : step'[i] # "none"
  <2>1. CASE Tick
    BY <1>0, <2>1, StageTick, TickTasks DEF StageStep, StepsFixed, EffectInv
  <2>2. ASSUME NEW m \in Image, StartImageRelease(m) PROVE \A i \in Inst : step'[i] # "none"
    BY <2>2 DEF StartImageRelease, EffectInv
  <2>3. CASE OtherStep
    BY <2>3 DEF OtherStep, EffectInv, Active
  <2>. QED
    BY <1>0, <2>1, <2>2, <2>3, OtherSteps
<1>3. CASE Active'
  <2>1. \A t \in TaskId : Effective(task'[t]) => t = releaseTask'
    <3> SUFFICES ASSUME NEW t \in TaskId, Effective(task'[t]) PROVE t = releaseTask'
      OBVIOUS
    <3>1. Unfinished(t)' /\ task'[t].live
      BY DEF Effective, Unfinished
    <3>2. task'[t].bound
      BY <3>1 DEF StepInv, HostInv
    <3>3. task'[t] \in TaskRec
      <4>1. task'[t] \in AnyTask /\ task'[t] # NoTask
        BY <3>1 DEF StepInv, SafeInv, TypeInv, TypeTasks, Unfinished, NoTask
      <4>. QED
        BY <4>1 DEF AnyTask
    <3>4. task'[t].inst \in Inst
      BY <3>3 DEF TaskRec
    <3>. QED
      BY <1>2, <1>3, <3>1, <3>2, <3>4 DEF LinkInv
  <2>. QED
    BY <1>1, <1>2, <2>1 DEF EffectInv, OneEffectiveUpdate, Effective, Unfinished
<1>4. CASE ~Active'
  <2>1. \A t \in TaskId : Effective(task'[t]) => Effective(task[t])
    <3> SUFFICES ASSUME NEW t \in TaskId, Effective(task'[t]) PROVE Effective(task[t])
      OBVIOUS
    <3>1. Unfinished(t)'
      BY DEF Effective, Unfinished
    <3>2. CASE Tick
      BY <1>0, <1>4, <3>1, <3>2, TickTask
    <3>3. CASE Agent
      BY <1>0, <3>1, <3>3, AgentTask DEF TaskGoesOn, Effective, Unfinished
    <3>4. CASE ~Tick /\ ~Agent
      BY <3>4, QuietTasks DEF taskVars
    <3>. QED
      BY <3>2, <3>3, <3>4
  <2>. QED
    BY <1>1, <1>4, <2>1 DEF EffectInv, OneEffectiveUpdate, Effective, Unfinished
<1>. QED
  BY <1>3, <1>4

LEMMA LinkInit == Init => LinkInv /\ EffectInv
<1> SUFFICES ASSUME Init PROVE LinkInv /\ EffectInv
  OBVIOUS
<1>1. ~Active /\ \A i \in Inst : monitored[i] = TRUE
  BY DEF Init, Active, ActiveStatus
<1>2. \A t \in TaskId : ~Unfinished(t)
  BY DEF Init, Unfinished, NoTask
<1>. QED
  BY <1>1, <1>2 DEF LinkInv, EffectInv, OneEffectiveUpdate

\* For any number of instances, images, retries and lost results: if updates only come
\* from releases, and no instance leaves the monitoring with one under way, at most one
\* update task can still change a container.
THEOREM ReleaseOneEffectiveUpdate ==
    ASSUME "action" \notin Operators, "monitoring" \notin Operators
    PROVE  Spec => []OneEffectiveUpdate
<1>1. StepInv /\ LinkInv /\ EffectInv /\ [Next]_vars => (StepInv /\ LinkInv /\ EffectInv)'
  BY StepNext, LinkNext, EffectNext
<1>2. EffectInv => OneEffectiveUpdate
  BY DEF EffectInv
<1>. QED
  BY <1>1, <1>2, StepInit, LinkInit, PTL DEF Spec

-----------------------------------------------------------------------------
(* A release is a rollout in stages.                                       *)

\* The server takes an instance for updated only when its host runs the target: if it does
\* not know the host's container, the update that made it is the task of the release.
LEMMA MatchesRuns ==
    ASSUME StepInv, KnownInv, LinkInv, Active, NEW i \in Inst, step[i] # "none", Matches(i),
           releaseTask = 0 \/ ~Unfinished(releaseTask)
    PROVE  actual[i] = desiredImage
<1>1. CASE replaced[i]
  <2>1. PICK t \in TaskId : Witness(t, i)
    BY <1>1 DEF KnownInv, Matches
  <2>2. t = releaseTask /\ Unfinished(t)
    BY <2>1 DEF LinkInv, Witness, Update
  <2>. QED
    BY <2>2, TaskIdFacts
<1>2. CASE ~replaced[i]
  BY <1>2 DEF StepInv, HostInv, Matches
<1>. QED
  BY <1>1, <1>2

\* What a step of the loop does to the stages while the release goes on: instances that
\* run the target are finished, and one is taken out when those before it are.
Finishes == \A i \in Inst : /\ step[i] = "completed" => step'[i] = "completed"
                            /\ step'[i] = "completed" /\ step[i] # "completed"
                               => actual[i] = desiredImage
TakesNone == \A i \in Inst : step'[i] \in OutStep <=> step[i] \in OutStep /\ step'[i] # "completed"
TakesOut(f) == /\ step'[f] \in OutStep /\ \A i \in Inst : step'[i] \in OutStep => i = f
               /\ \A i \in Inst : step[i] \in OutStep => step'[i] = "completed"
               /\ \A j \in Inst : j < f => step'[j] \in {"none", "completed"}
StageMove == Finishes /\ (TakesNone \/ \E f \in Inst : TakesOut(f))

LEMMA MovePreflight ==
    ASSUME StepInv, KnownInv, LinkInv, PreflightResult \/ PreflightNext, Active'
    PROVE  StageMove
<1>1. /\ status = "preflighting_local" /\ step \in [Inst -> StepStatus] /\ Active
      /\ status' # "failed"
  BY DEF PreflightResult, PreflightNext, StepInv, SafeInv, TypeInv, TypeRows, Active, ActiveStatus
<1>2. CASE PreflightResult
  <2>1. /\ step' = [step EXCEPT ![task[releaseTask].inst] = "prepared"] /\ releaseTask # 0
    BY <1>1, <1>2 DEF PreflightResult, FailRelease
  <2>2. step[task[releaseTask].inst] = "preparing"
    BY <1>1, <2>1 DEF StepInv, TaskInv
  <2>. QED
    BY <1>1, <2>1, <2>2 DEF StageMove, Finishes, TakesNone, OutStep
<1>3. CASE PreflightNext
  <2> DEFINE Behind == {i \in Inst : step[i] = "pending" /\ ~Matches(i)}
             Done(f) == [i \in Inst |-> IF step[i] = "pending" /\ i < f
                                        THEN "completed" ELSE step[i]]
  <2>1. \A i \in Inst : step[i] = "pending" /\ i \notin Behind => actual[i] = desiredImage
    BY <1>1, <1>3, MatchesRuns DEF PreflightNext
  <2>2. \/ Behind = {} /\ step' = Done(N + 1)
        \/ \E f \in Behind : First(Behind, f) /\ step' = [Done(f) EXCEPT ![f] = "preparing"]
    BY <1>1, <1>3 DEF PreflightNext, FailRelease
  <2>3. CASE Behind = {} /\ step' = Done(N + 1)
    BY <1>1, <2>1, <2>3 DEF StageMove, Finishes, TakesNone, OutStep
  <2>4. ASSUME NEW f \in Behind, First(Behind, f), step' = [Done(f) EXCEPT ![f] = "preparing"]
        PROVE  StageMove
    <3>1. \A i \in Inst : i < f => i \notin Behind
      BY <2>4, OrderFacts, SMT DEF First, Inst
    <3>. QED
      BY <1>1, <2>1, <2>4, <3>1 DEF StageMove, Finishes, TakesNone, OutStep
  <2>. QED
    BY <2>2, <2>3, <2>4
<1>. QED
  BY <1>2, <1>3

LEMMA MoveRolloutResult ==
    ASSUME StepInv, KnownInv, LinkInv, RolloutResult, Active' PROVE StageMove
<1> DEFINE i == task[releaseTask].inst
<1>1. /\ status \in Rollout /\ step \in [Inst -> StepStatus] /\ Active /\ releaseTask # 0
      /\ ~Unfinished(releaseTask) /\ i \in Inst /\ step[i] \in {"updating", "verifying"}
      /\ status' # "failed"
  BY ReleaseTaskFacts DEF RolloutResult, StepInv, SafeInv, TaskInv, TypeInv, TypeRows,
     Active, ActiveStatus, Rollout
<1>2. CASE Matches(i) /\ step' = [step EXCEPT ![i] = "completed"]
  <2>1. actual[i] = desiredImage
    BY <1>1, <1>2, MatchesRuns
  <2>. QED
    BY <1>1, <1>2, <2>1 DEF StageMove, Finishes, TakesNone, OutStep
<1>3. CASE step' = [step EXCEPT ![i] = "verifying"]
  BY <1>1, <1>3 DEF StageMove, Finishes, TakesNone, OutStep
<1>. QED
  BY <1>1, <1>2, <1>3 DEF RolloutResult, FailRelease

LEMMA MoveRolloutNext ==
    ASSUME StepInv, KnownInv, LinkInv, RolloutNext, Active' PROVE StageMove
<1> DEFINE Open == {i \in Steps : step[i] # "completed"}
           Behind == {i \in Open : ~Matches(i)}
           Done(f) == [i \in Inst |-> IF i \in Open /\ i < f
                                      THEN "completed" ELSE step[i]]
<1>1. /\ status \in Rollout /\ step \in [Inst -> StepStatus] /\ Active /\ releaseTask = 0
      /\ status' # "failed" /\ Open \subseteq Inst
  BY DEF RolloutNext, StepInv, SafeInv, TypeInv, TypeRows, Active, ActiveStatus, Rollout, Steps
<1>2. \A i \in Open : i \notin Behind => actual[i] = desiredImage
  BY <1>1, MatchesRuns DEF Steps
<1>3. \/ Behind = {} /\ step' = Done(N + 1)
      \/ \E f \in Behind :
           /\ First(Behind, f)
           /\ \/ /\ step[f] \in {"prepared", "pending", "preparing"}
                 /\ step' = [Done(f) EXCEPT ![f] = "draining"]
              \/ step[f] = "draining" /\ step' = [Done(f) EXCEPT ![f] = "updating"]
              \/ step' = Done(f)
  BY <1>1 DEF RolloutNext, FailRelease
<1>4. \A i \in Inst : step[i] \in OutStep => i \in Open
  BY DEF Steps, OutStep
<1>5. CASE Behind = {} /\ step' = Done(N + 1)
  BY <1>1, <1>2, <1>4, <1>5, OrderFacts DEF StageMove, Finishes, TakesNone, OutStep
<1>6. ASSUME NEW f \in Behind, First(Behind, f),
             \/ step[f] = "draining" /\ step' = [Done(f) EXCEPT ![f] = "updating"]
             \/ step' = Done(f)
      PROVE  StageMove
  <2>1. \A i \in Inst : i < f => i \notin Behind
    BY <1>1, <1>6, OrderFacts, SMT DEF First, Inst
  <2>2. ~(f < f) /\ f \in Open
    BY <1>1, OrderFacts
  <2>3. Finishes
    BY <1>1, <1>2, <1>6, <2>1, <2>2 DEF Finishes
  <2>4. TakesNone
    BY <1>1, <1>4, <1>6, <2>2 DEF TakesNone, OutStep
  <2>. QED
    BY <2>3, <2>4 DEF StageMove
<1>7. ASSUME NEW f \in Behind, First(Behind, f), step[f] \in {"prepared", "pending", "preparing"},
             step' = [Done(f) EXCEPT ![f] = "draining"]
      PROVE  StageMove
  <2>1. \A i \in Inst : i < f => i \notin Behind
    BY <1>1, <1>7, OrderFacts, SMT DEF First, Inst
  <2>2. Finishes
    BY <1>1, <1>2, <1>7, <2>1 DEF Finishes
  <2>3. \A i \in Inst : step[i] \in OutStep => i < f
    <3>1. \A i \in Inst : step[i] \in OutStep => Busy(i) /\ i # f
      BY <1>7 DEF OutStep, Busy, BusyStep
    <3>2. \A i \in Inst : Busy(i) => ~(f < i)
      BY <1>1 DEF StepInv, SafeInv, BusyInv, Steps
    <3>. QED
      BY <1>1, <3>1, <3>2, OrderFacts
  <2>4. TakesOut(f)
    <3>1. step'[f] \in OutStep /\ \A i \in Inst : i # f => step'[i] = Done(f)[i]
      BY <1>1, <1>7 DEF OutStep
    <3>2. \A i \in Inst : step[i] \in OutStep => step'[i] = "completed"
      BY <1>1, <1>4, <2>3, <3>1, OrderFacts
    <3>3. \A j \in Inst : j < f => step'[j] \in {"none", "completed"}
      BY <1>1, <3>1, OrderFacts DEF Steps
    <3>. QED
      BY <1>1, <1>4, <2>3, <3>1, <3>2, <3>3 DEF TakesOut, OutStep
  <2>. QED
    BY <1>1, <2>2, <2>4 DEF StageMove
<1>. QED
  BY <1>3, <1>5, <1>6, <1>7

LEMMA MoveTick ==
    ASSUME StepInv, KnownInv, LinkInv, Tick, Active' PROVE StageMove
<1>1. ASSUME step' = step PROVE StageMove
  BY <1>1 DEF StageMove, Finishes, TakesNone, OutStep
<1>2. status' # "failed" /\ status' # "completed"
  BY DEF Active, ActiveStatus
<1>3. CASE PrepareGuard \/ WaitGuard \/ UpdateAcs \/ WaitAcs \/ CleanGuard
  BY <1>1, <1>2, <1>3
     DEF PrepareGuard, WaitGuard, UpdateAcs, WaitAcs, CleanGuard, CompleteRelease, FailRelease
<1>4. ~Abort
  BY <1>2 DEF Abort, FailRelease
<1>. QED
  BY <1>3, <1>4, MovePreflight, MoveRolloutResult, MoveRolloutNext DEF Tick, Progress

\* Only the step that follows the finished rollout writes the ACS template.
LEMMA TickAcs ==
    ASSUME StepInv, Tick
    PROVE  \/ acsImage' = acsImage
           \/ status = "updating_acs" /\ acsImage' = desiredImage /\ (Active' => step' = step)
<1>1. CASE UpdateAcs
  BY <1>1 DEF UpdateAcs, WorkloadImage, FailRelease, Active, ActiveStatus
<1>2. CASE ~UpdateAcs
  BY <1>2 DEF Tick, Abort, Progress, PreflightResult, PreflightNext, PrepareGuard, WaitGuard,
     RolloutResult, RolloutNext, WaitAcs, CleanGuard
<1>. QED
  BY <1>1, <1>2

\* The updates on the hosts leave the finished instances of an active release alone.
LEMMA HostMove ==
    ASSUME StepInv, LinkInv, OtherStep, Next, ~Tick, actual' # actual
    PROVE  \E i \in Inst, m \in Image :
             /\ actual' = [actual EXCEPT ![i] = m]
             /\ Active => step[i] # "completed"
<1>1. TypeInv /\ SafeInv
  BY DEF StepInv, SafeInv
<1>2. PICK t \in TaskId : Execute(t)
  <2>1. Agent
    BY DEF Next, Release, Rollback, RollbackToVersion, StartImageRelease, Deadline, Operator, Business,
       EnterMaintenance, ExitMaintenance, UpdateMonitoring, UpdateGuardMonitoring, CreateAction,
       ReportLoad, GuardReport, GuardStale, hostVars
  <2>. QED
    BY <2>1 DEF Agent, NextTask, Heartbeat, LoseResult, TaskResult, hostVars
<1> DEFINE i == task[t].inst
<1>3. /\ Unfinished(t) /\ task[t].kind = "update" /\ task[t].live
      /\ actual' = [actual EXCEPT ![i] = task[t].target]
  BY <1>1, <1>2, ExecuteCase
<1>4. task[t].bound /\ i \in Inst /\ task[t].target \in Image
  BY <1>1, <1>3, UnfinishedFacts DEF StepInv, HostInv, TaskRec
<1>5. Active => step[i] # "completed"
  <2>1. SUFFICES ASSUME Active, step[i] = "completed" PROVE FALSE
    OBVIOUS
  <2>2. t = releaseTask /\ releaseTask # 0
    BY <1>3, <1>4, <2>1, TaskIdFacts DEF LinkInv
  <2>. QED
    BY <1>1, <1>3, <2>1, <2>2 DEF StepInv, TaskInv, SafeInv, BusyInv
<1>. QED
  BY <1>3, <1>4, <1>5

\* Each step of the code is a step of the rollout in stages, or none.
LEMMA StagedTick ==
    ASSUME StepInv, KnownInv, LinkInv, StepInv', Tick PROVE [Staged!Next]_(Staged!vars)
<1>1. /\ Active /\ desiredImage \in Image /\ desiredImage' = desiredImage /\ actual' = actual
      /\ step \in [Inst -> StepStatus] /\ step' \in [Inst -> StepStatus] /\ None \notin Image
  BY TickTasks, ImageAssumption
     DEF StepInv, SafeInv, TypeInv, TypeRows, Linked, tickFrame, hostVars
<1>2. CASE ~Active'
  <2>1. acsImage' # acsImage => acsImage' = desiredImage /\ \A i \in Inst : step[i] \in {"none", "completed"}
    BY TickAcs DEF StepInv, LateInv, Late
  <2>2. Staged!End
    BY <1>1, <1>2, <2>1 DEF Staged!End, Staged!Underway, ThoseAt, StepStatus
  <2>. QED
    BY <2>2 DEF Staged!Next
<1>3. CASE Active' /\ acsImage' # acsImage
  <2>1. /\ acsImage' = desiredImage /\ step' = step
        /\ \A i \in Inst : step[i] \in {"none", "completed"}
    BY <1>3, TickAcs DEF StepInv, LateInv, Late
  <2>2. Staged!SwitchAcs
    BY <1>1, <1>3, <2>1 DEF Staged!SwitchAcs, Staged!Underway, ThoseAt, StepStatus, OutStep
  <2>. QED
    BY <2>2 DEF Staged!Next
<1>4. CASE Active' /\ acsImage' = acsImage
  <2>1. StageMove /\ StepsFixed
    BY <1>4, MoveTick, StageTick DEF StageStep
  <2> DEFINE Part == {i \in Inst : step[i] \in StepStatus \ {"none"}}
             Fin == {i \in Inst : step[i] = "completed"}
             NowOut == {i \in Inst : step[i] \in OutStep}
  <2>2. /\ ThoseAt(StepStatus \ {"none"}) = Part /\ ThoseAt(StepStatus \ {"none"})' = Part'
        /\ ThoseAt({"completed"}) = Fin /\ ThoseAt({"completed"})' = Fin'
        /\ ThoseAt(OutStep) = NowOut /\ ThoseAt(OutStep)' = NowOut'
    BY <1>1, <1>4 DEF ThoseAt
  <2>3. Part' = Part /\ Fin' \subseteq Part /\ Fin \subseteq Fin'
        /\ \A i \in Fin' \ Fin : actual[i] = desiredImage
    BY <1>1, <2>1 DEF StageMove, Finishes, StepsFixed, StepStatus
  <2>4. \/ NowOut' = NowOut \ Fin'
        \/ \E f \in Part \ Fin' : /\ NowOut \subseteq Fin' /\ NowOut' = {f}
                                  /\ {j \in Part : j < f} \subseteq Fin'
    <3>1. CASE TakesNone
      BY <3>1 DEF TakesNone
    <3>2. ASSUME NEW f \in Inst, TakesOut(f)
          PROVE  f \in Part \ Fin' /\ NowOut \subseteq Fin' /\ NowOut' = {f}
                 /\ {j \in Part : j < f} \subseteq Fin'
      BY <1>1, <2>1, <3>2 DEF TakesOut, StepsFixed, OutStep, StepStatus, BusyStep
    <3>. QED
      BY <2>1, <3>1, <3>2 DEF StageMove
  <2>5. Staged!Advance
    <3> HIDE DEF Part, Fin, NowOut
    <3>. QED
      BY <1>1, <1>4, <2>2, <2>3, <2>4 DEF Staged!Advance, Staged!Underway
  <2>. QED
    BY <2>5 DEF Staged!Next
<1>. QED
  BY <1>2, <1>3, <1>4

LEMMA StagedStart ==
    ASSUME StepInv, NEW m \in Image, StartImageRelease(m) PROVE [Staged!Next]_(Staged!vars)
<1>1. /\ ~Active /\ Active' /\ desiredImage' = m /\ None \notin Image
      /\ actual' = actual /\ acsImage' = acsImage
      /\ step' = [i \in Inst |-> IF monitored[i] THEN "pending" ELSE "none"]
      /\ \E i \in Inst : monitored[i]
  BY ImageAssumption DEF StartImageRelease, hostVars, Active, ActiveStatus, Local
<1>2. /\ ThoseAt(StepStatus \ {"none"})' \in (SUBSET Inst) \ {{}}
      /\ ThoseAt({"completed"})' = {} /\ ThoseAt(OutStep)' = {}
      /\ ThoseAt({"completed"}) = {} /\ ThoseAt(OutStep) = {}
  BY <1>1 DEF ThoseAt, StepStatus, OutStep
<1>3. Staged!Start
  BY <1>1, <1>2 DEF Staged!Start, Staged!Underway
<1>. QED
  BY <1>3 DEF Staged!Next

LEMMA StagedOther ==
    ASSUME StepInv, LinkInv, OtherStep, [Next]_vars, ~Tick PROVE [Staged!Next]_(Staged!vars)
<1>1. /\ Active' = Active /\ desiredImage' = desiredImage /\ acsImage' = acsImage
      /\ \A S : ThoseAt(S)' = ThoseAt(S)
  BY DEF OtherStep, Active, ThoseAt
<1>2. CASE actual' = actual
  BY <1>1, <1>2 DEF Staged!vars
<1>3. CASE actual' # actual
  <2>1. Next
    BY <1>3 DEF vars, hostVars
  <2>2. PICK i \in Inst, m \in Image :
          actual' = [actual EXCEPT ![i] = m] /\ (Active => step[i] # "completed")
    BY <1>3, <2>1, HostMove
  <2>3. i \in Inst \ ThoseAt({"completed"})
    BY <2>2, Zenon DEF ThoseAt
  <2>4. Staged!Replace
    BY <1>1, <2>2, <2>3 DEF Staged!Replace
  <2>. QED
    BY <2>4 DEF Staged!Next
<1>. QED
  BY <1>2, <1>3

LEMMA StagedInit == Init => Staged!Init
<1> SUFFICES ASSUME Init PROVE Staged!Init
  OBVIOUS
<1>1. ~Active /\ None \notin Image
  BY ImageAssumption DEF Init, Active, ActiveStatus
<1>2. acsImage \in Image /\ actual = [i \in Inst |-> acsImage]
  BY DEF Init
<1>. QED
  BY <1>1, <1>2 DEF Staged!Init, Staged!Underway, ThoseAt

LEMMA CompletedStep ==
    ASSUME StepInv, KnownInv, LinkInv, CompletedRunsTarget, [Next]_vars
    PROVE  CompletedRunsTarget'
<1>1. CASE Tick
  <2>1. Active /\ desiredImage' = desiredImage /\ actual' = actual
    BY <1>1, TickTasks DEF StepInv, tickFrame, hostVars
  <2>. QED
    BY <1>1, <2>1, MoveTick DEF CompletedRunsTarget, StageMove, Finishes
<1>2. ASSUME NEW m \in Image, StartImageRelease(m) PROVE CompletedRunsTarget'
  BY <1>2 DEF StartImageRelease, CompletedRunsTarget
<1>3. CASE OtherStep /\ ~Tick
  <2>1. CASE actual' = actual
    BY <1>3, <2>1 DEF OtherStep, CompletedRunsTarget, Active
  <2>2. CASE actual' # actual
    <3>1. Next
      BY <2>2 DEF vars, hostVars
    <3>2. PICK i \in Inst, m \in Image :
            actual' = [actual EXCEPT ![i] = m] /\ (Active => step[i] # "completed")
      BY <1>3, <2>2, <3>1, HostMove
    <3>3. actual \in [Inst -> Image]
      BY DEF StepInv, SafeInv, TypeInv, TypeRows
    <3>. QED
      BY <1>3, <3>2, <3>3 DEF OtherStep, CompletedRunsTarget, Active
  <2>. QED
    BY <2>1, <2>2
<1>. QED
  BY <1>1, <1>2, <1>3, OtherSteps DEF StepInv

StagedInv == StepInv /\ KnownInv /\ LinkInv /\ CompletedRunsTarget

LEMMA StagedNext ==
    ASSUME ReportsBeforeRetry, "action" \notin Operators, StagedInv, [Next]_vars
    PROVE  StagedInv' /\ [Staged!Next]_(Staged!vars)
<1>1. StepInv' /\ KnownInv' /\ LinkInv' /\ CompletedRunsTarget'
  BY StepNext, KnownNext, LinkNext, CompletedStep DEF StagedInv, StepInv
<1>2. [Staged!Next]_(Staged!vars)
  BY <1>1, OtherSteps, StagedTick, StagedStart, StagedOther DEF StagedInv, StepInv
<1>. QED
  BY <1>1, <1>2 DEF StagedInv

LEMMA StagedInvInit == Init => StagedInv
<1>1. Init => KnownInv /\ CompletedRunsTarget
  BY DEF Init, KnownInv, CompletedRunsTarget
<1>. QED
  BY <1>1, StepInit, LinkInit DEF StagedInv

\* A step marked completed is one whose host runs the target, for any number of instances,
\* lost answers and repeated tasks: if updates only come from releases, and Agents report
\* before a task is handed out again.
THEOREM ReleaseCompletedRunsTarget ==
    ASSUME ReportsBeforeRetry, "action" \notin Operators
    PROVE  Spec => []CompletedRunsTarget
BY StagedInvInit, StagedNext, PTL DEF Spec, StagedInv

\* Under the same conditions releases, retries and rollbacks of any number of instances
\* are a rollout in stages.
THEOREM ReleaseImplementsStagedRollout ==
    ASSUME ReportsBeforeRetry, "action" \notin Operators
    PROVE  Spec => ImplementsStagedRollout
<1>1. StagedInv /\ [Next]_vars => StagedInv' /\ [Staged!Next]_(Staged!vars)
  BY StagedNext
<1>. QED
  BY <1>1, StagedInit, StagedInvInit, PTL DEF Spec, ImplementsStagedRollout, Staged!Spec
=============================================================================
