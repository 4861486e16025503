----------------------------- MODULE Autoscaler ------------------------------
(***************************************************************************)
(* evaluate_service (cloudhelm/autoscaling.py): how the monitor loop       *)
(* scales the ACS Deployment of one service, with the reports of its pods  *)
(* (cloudhelm/routers/scaling.py) and, as an external component, the       *)
(* Kubernetes controller that creates and deletes pods.                    *)
(*                                                                         *)
(* What an evaluation reads of the load, of the local instances, of the    *)
(* release and of the switches is an input of the step: each can change    *)
(* between two evaluations, 15 seconds apart.                              *)
(***************************************************************************)
EXTENDS Integers, FiniteSets, FiniteSetsExt

CONSTANTS
    Pod,           \* pods that can exist or be remembered at one time
    MinReplicas, MaxReplicas, ScaleUpStep, FailoverReplicas,
    Faults         \* what may go wrong, as long as the load is not calm

FaultKinds == {"refuse",   \* a call to the cluster fails without effect
               "timeout",  \* a call takes effect and no answer arrives
               "lost",     \* the server restarts between the call and the commit
               "slow",     \* the controller acts after the next evaluation
               "short",    \* the cooldown ends before a removed pod is gone
               "late"}     \* a running pod misses report_stale_seconds

ASSUME PolicyAssumption ==
    /\ MinReplicas \in Nat /\ MaxReplicas \in Nat \ {0} /\ MinReplicas <= MaxReplicas
    /\ ScaleUpStep \in Nat \ {0} /\ FailoverReplicas \in Nat \ {0}
ASSUME PodAssumption == IsFiniteSet(Pod) /\ Cardinality(Pod) >= MinReplicas
ASSUME FaultsAssumption == Faults \subseteq FaultKinds

VARIABLES
    replicas,   \* spec.replicas of the Deployment
    pod,        \* the pod: free (no such pod), running, terminating, dead
    marked,     \* pods with pod-deletion-cost -1000
    app,        \* what the application in the pod does
    told,       \* desired_state of the last answer, as the application takes it
    shown,      \* the last report in the instance row, "none" without a row
    fresh,      \* the report is younger than report_stale_seconds
    desired,    \* instance.desired_state
    cooling,    \* last_scaled_at lies within cooldown_seconds
    calm        \* the load is low from now on, and nothing else happens

clusterVars == <<replicas, pod, marked>>
podVars == <<app, told>>
rowVars == <<shown, fresh, desired>>
vars == <<clusterVars, podVars, rowVars, cooling, calm>>

MayOccur(fault) == fault \in Faults /\ ~calm

\* "open" accepts and has no business, "busy" accepts and has some, "finishing" no
\* longer accepts and has some, "idle" neither, "ill" is unhealthy.
App == {"open", "busy", "finishing", "idle", "ill"}
\* Reports do not tell "busy" from "open" as far as anything below asks.
Shown == App \ {"busy"}
AsShown(a) == IF a = "busy" THEN "open" ELSE a

Running == {p \in Pod : pod[p] = "running"}
Settled == Cardinality(Running) = replicas

\* _discoverable_instance
Routed(p) == shown[p] = "open" /\ fresh[p] /\ desired[p] = "serve"

Init ==
    /\ replicas = MinReplicas
    /\ \E S \in SUBSET Pod :
         /\ Cardinality(S) = MinReplicas
         /\ pod = [p \in Pod |-> IF p \in S THEN "running" ELSE "free"]
         /\ app = [p \in Pod |-> IF p \in S THEN "open" ELSE "idle"]
         /\ shown = [p \in Pod |-> IF p \in S THEN "open" ELSE "none"]
         /\ fresh = [p \in Pod |-> p \in S]
    /\ marked = {} /\ told = [p \in Pod |-> "serve"]
    /\ desired = [p \in Pod |-> "serve"]
    /\ cooling = FALSE /\ calm = FALSE

-----------------------------------------------------------------------------
(* One evaluation; it runs in one transaction.                             *)

Fresh == {p \in Pod : shown[p] # "none" /\ fresh[p] /\ shown[p] # "ill"}
\* Variant: the report is not looked at.
DrainAsked == {p \in Fresh : desired[p] = "draining"}
Drained == {p \in Fresh : desired[p] = "draining" /\ shown[p] = "idle"}
Serving == {p \in Fresh : desired[p] = "serve"}

\* _cancel_drains
Cancelled == [p \in Pod |-> "serve"]

\* The inputs of an evaluation: need is the number of replicas that would replace
\* the failed local instances, 0 if none failed; load stands for the window.
\* It is "other" between the thresholds, until the window is covered, and during a
\* release unless it is high.
Input == [enabled : BOOLEAN, need : 0..MaxReplicas, load : {"low", "high", "other"}]
CalmInput == [enabled |-> TRUE, need |-> 0, load |-> "low"]

FailureTarget(in) ==
    IF in.need = 0 THEN 0 ELSE Min({MaxReplicas, Max({in.need, FailoverReplicas})})
ScaleUpNeeded(in) == /\ replicas < FailureTarget(in) \/ in.load = "high"
                     /\ replicas < MaxReplicas

\* The returns that cancel the drains.  The variant stops one replica early.
HoldAboveMinimum(in) == in.need > 0 \/ in.load # "low" \/ replicas - 1 <= MinReplicas
Hold(in) == in.need > 0 \/ in.load # "low" \/ replicas <= MinReplicas

\* The new value keeps the policy's bounds and step; how far it goes beyond the step
\* depends on the load.  The variant forgets the maximum.
UncappedTargets(in) == {t \in MinReplicas..(MaxReplicas + ScaleUpStep) :
                          t >= Max({replicas + ScaleUpStep, FailureTarget(in)})}
UpTargets(in) == {t \in MinReplicas..MaxReplicas :
                    t >= Min({MaxReplicas, Max({replicas + ScaleUpStep, FailureTarget(in)})})}
DownTarget == Max({MinReplicas, replicas - 1})

\* last_scaled_at after a scaling; the variant does not record it.
NotScaled == cooling
Scaled == TRUE

\* set_replicas and what the transaction stores: "ok", or the fault.
SetReplicas(target, stored, failed) ==
    \/ /\ replicas' = target /\ cooling' = Scaled /\ desired' = stored
    \/ /\ MayOccur("refuse")
       /\ desired' = failed /\ UNCHANGED <<replicas, cooling>>
    \/ /\ MayOccur("timeout")
       /\ replicas' = target /\ desired' = failed /\ UNCHANGED cooling
    \/ /\ MayOccur("lost")
       /\ replicas' = target /\ UNCHANGED <<desired, cooling>>

\* Switched off, or nothing to scale: drains are cancelled.
EvaluateHold(in) ==
    /\ \/ ~in.enabled
       \/ ~ScaleUpNeeded(in) /\ Hold(in)
       \/ ScaleUpNeeded(in) /\ cooling /\ in.need = 0
    /\ desired' = Cancelled
    /\ UNCHANGED <<replicas, marked, cooling>>

\* A local failure does not wait for the cooldown.
EvaluateUp(in) ==
    /\ in.enabled /\ ScaleUpNeeded(in)
    /\ in.need > 0 \/ ~cooling
    /\ \E target \in UpTargets(in) : SetReplicas(target, Cancelled, Cancelled)
    /\ UNCHANGED marked

ScaleDownDue(in) == in.enabled /\ ~ScaleUpNeeded(in) /\ ~Hold(in)

EvaluateWait(in) ==
    /\ ScaleDownDue(in)
    /\ cooling \/ (Drained = {} /\ Serving = {})
    /\ UNCHANGED <<replicas, marked, cooling, desired>>

\* Another instance is asked to drain as long as none has drained.
EvaluateDrain(in) ==
    /\ ScaleDownDue(in) /\ ~cooling /\ Drained = {}
    /\ \E p \in Serving : desired' = [desired EXCEPT ![p] = "draining"]
    /\ UNCHANGED <<replicas, marked, cooling>>

\* prefer_pod_for_removal, then set_replicas; a pod that is gone answers 404.
EvaluateDown(in) ==
    /\ ScaleDownDue(in) /\ ~cooling
    /\ \E p \in Drained :
         LET failed == [desired EXCEPT ![p] = "serve"]
         IN \/ /\ pod[p] \in {"free", "dead"} \/ MayOccur("refuse")
               /\ desired' = failed
               /\ UNCHANGED <<replicas, marked, cooling>>
            \/ /\ pod[p] \in {"running", "terminating"}
               /\ marked' = marked \cup {p}
               /\ SetReplicas(DownTarget, desired, failed)

\* get_replicas fails, or no provider is configured: nothing is scaled and drains stay as they are.
EvaluateBlind(in) ==
    /\ MayOccur("refuse") /\ in.enabled
    /\ UNCHANGED <<replicas, marked, cooling, desired>>

Evaluate ==
    /\ MayOccur("slow") \/ Settled
    /\ \E in \in IF calm THEN {CalmInput} ELSE Input :
         \/ EvaluateHold(in) \/ EvaluateUp(in) \/ EvaluateWait(in)
         \/ EvaluateDrain(in) \/ EvaluateDown(in) \/ EvaluateBlind(in)
    /\ UNCHANGED <<pod, podVars, shown, fresh, calm>>

CooldownEnds ==
    /\ cooling
    /\ MayOccur("short")
       \/ (Settled /\ \A p \in Pod : pod[p] # "terminating")
    /\ cooling' = FALSE
    /\ UNCHANGED <<clusterVars, podVars, rowVars, calm>>

BecomeCalm == ~calm /\ calm' = TRUE
              /\ UNCHANGED <<clusterVars, podVars, rowVars, cooling>>

-----------------------------------------------------------------------------
(* report_business_load for an ACS instance; the answer carries the        *)
(* desired state, and the application obeys it.                            *)

ReportLoad(p) ==
    /\ pod[p] \in {"running", "terminating"}
    /\ shown' = [shown EXCEPT ![p] = AsShown(app[p])]
    /\ fresh' = [fresh EXCEPT ![p] = TRUE]
    /\ told' = [told EXCEPT ![p] = desired[p]]
    /\ UNCHANGED <<clusterVars, app, desired, cooling, calm>>

\* What the application does next.
AppNext(p) ==
    CASE app[p] = "open"      -> IF told[p] = "draining" THEN {"idle"}
                                 ELSE IF Routed(p) THEN {"busy"} ELSE {}
      [] app[p] = "busy"      -> IF told[p] = "draining" THEN {"finishing"} ELSE {"open"}
      [] app[p] = "finishing" -> IF told[p] = "draining" THEN {"idle"} ELSE {"busy"}
      [] app[p] = "idle"      -> IF told[p] = "draining" THEN {} ELSE {"open"}
      [] app[p] = "ill"       -> {"idle"}

AppStep(p) ==
    /\ pod[p] \in {"running", "terminating"}
    /\ \E a \in AppNext(p) : app' = [app EXCEPT ![p] = a]
    /\ UNCHANGED <<clusterVars, told, rowVars, cooling, calm>>

Fail(p) ==
    /\ pod[p] = "running" /\ ~calm
    /\ app' = [app EXCEPT ![p] = "ill"]
    /\ UNCHANGED <<clusterVars, told, rowVars, cooling, calm>>

GoStale(p) ==
    /\ fresh[p] /\ pod[p] = "running" /\ MayOccur("late")
    /\ fresh' = [fresh EXCEPT ![p] = FALSE]
    /\ UNCHANGED <<clusterVars, podVars, shown, desired, cooling, calm>>

-----------------------------------------------------------------------------
(* The Deployment's controller (external).                                 *)

CreatePod(p) ==
    /\ pod[p] = "free" /\ Cardinality(Running) < replicas
    /\ pod' = [pod EXCEPT ![p] = "running"]
    /\ UNCHANGED <<replicas, marked, podVars, rowVars, cooling, calm>>

\* Pods with the lowest deletion cost go first.
DeletePod(p) ==
    /\ pod[p] = "running" /\ Cardinality(Running) > replicas
    /\ marked \cap Running # {} => p \in marked
    /\ pod' = [pod EXCEPT ![p] = "terminating"]
    /\ UNCHANGED <<replicas, marked, podVars, rowVars, cooling, calm>>

PodGone(p) ==
    /\ pod[p] = "terminating"
    /\ pod' = [pod EXCEPT ![p] = "dead"] /\ marked' = marked \ {p}
    /\ app' = [app EXCEPT ![p] = "idle"] /\ told' = [told EXCEPT ![p] = "serve"]
    /\ UNCHANGED <<replicas, rowVars, cooling, calm>>

\* A pod's name is not used again and its row goes stale; a new pod takes its place.
Forget(p) ==
    /\ pod[p] = "dead"
    /\ pod' = [pod EXCEPT ![p] = "free"] /\ fresh' = [fresh EXCEPT ![p] = FALSE]
    /\ shown' = [shown EXCEPT ![p] = "none"] /\ desired' = [desired EXCEPT ![p] = "serve"]
    /\ UNCHANGED <<replicas, marked, podVars, cooling, calm>>

-----------------------------------------------------------------------------
PodStep(p) == \/ ReportLoad(p) \/ AppStep(p) \/ Fail(p) \/ GoStale(p)
              \/ CreatePod(p) \/ DeletePod(p) \/ PodGone(p) \/ Forget(p)

Next == Evaluate \/ CooldownEnds \/ BecomeCalm \/ \E p \in Pod : PodStep(p)
Spec == Init /\ [][Next]_vars
Fairness == /\ WF_vars(Evaluate) /\ WF_vars(CooldownEnds)
            /\ \A p \in Pod : /\ WF_vars(ReportLoad(p)) /\ WF_vars(AppStep(p))
                              /\ WF_vars(DeletePod(p)) /\ WF_vars(CreatePod(p))
                              /\ WF_vars(PodGone(p)) /\ WF_vars(Forget(p))
FairSpec == Spec /\ Fairness

-----------------------------------------------------------------------------
\* The values the rest relies on, among them the policy's bounds on the replicas that
\* evaluate_service keeps in every scaling.
TypeOK ==
    /\ replicas \in MinReplicas..MaxReplicas
    /\ pod \in [Pod -> {"free", "running", "terminating", "dead"}]
    /\ marked \subseteq Pod
    /\ app \in [Pod -> App] /\ told \in [Pod -> {"serve", "draining"}]
    /\ shown \in [Pod -> Shown \cup {"none"}] /\ fresh \in [Pod -> BOOLEAN]
    /\ desired \in [Pod -> {"serve", "draining"}]
    /\ cooling \in BOOLEAN /\ calm \in BOOLEAN

\* docs/acs-dynamic-scaling-validation.md, the point of its acceptance test: the
\* address leaves the routes first, the pod is deleted later; and no pod is
\* deleted with business in it.
RouteFirst ==
    [][\A p \in Pod : pod[p] = "running" /\ pod'[p] = "terminating" =>
         ~Routed(p) /\ app[p] \notin {"busy", "finishing"}]_vars

\* prefer_pod_for_removal before set_replicas: whenever the cluster has pods to delete,
\* as many of them are marked, so it need not take one that was never drained.
RemovalsMarked == Cardinality(Running) <= replicas + Cardinality(marked \cap Running)

\* Once faults stop, low load that lasts brings the workload back to its minimum, through
\* drains, reports, cooldowns and whatever the faults left in rows and cluster.
EventuallyMinimum == calm ~> replicas = MinReplicas
=============================================================================
