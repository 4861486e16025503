-------------------------- MODULE Autoscaler_proofs --------------------------
(***************************************************************************)
(* Theorems about the autoscaler, for any set of pods and any policy.      *)
(***************************************************************************)
EXTENDS Autoscaler, FiniteSetTheorems, TLAPS

-----------------------------------------------------------------------------
(* The targets of a scaling.                                               *)

LEMMA MinOfTwo ==
  ASSUME NEW a \in Int, NEW b \in Int
  PROVE  Min({a, b}) = IF a <= b THEN a ELSE b
<1>1. \E x \in {a, b} : \A y \in {a, b} : x =< y
  BY SMT
<1>2. Min({a, b}) \in {a, b} /\ \A y \in {a, b} : Min({a, b}) =< y
  BY <1>1 DEF Min
<1>. QED
  BY <1>2, SMT

LEMMA MaxOfTwo ==
  ASSUME NEW a \in Int, NEW b \in Int
  PROVE  Max({a, b}) = IF a >= b THEN a ELSE b
<1>1. \E x \in {a, b} : \A y \in {a, b} : x >= y
  BY SMT
<1>2. Max({a, b}) \in {a, b} /\ \A y \in {a, b} : Max({a, b}) >= y
  BY <1>1 DEF Max
<1>. QED
  BY <1>2, SMT

\* A scaling down, which happens above the minimum, takes one replica away.
LEMMA DownByOne ==
  ASSUME TypeOK, NEW in, ScaleDownDue(in)
  PROVE  DownTarget = replicas - 1 /\ DownTarget \in MinReplicas..MaxReplicas
<1>1. replicas \in Int /\ MinReplicas \in Int /\ replicas > MinReplicas /\ replicas <= MaxReplicas
  BY PolicyAssumption, SMT DEF TypeOK, ScaleDownDue, Hold
<1>2. Max({MinReplicas, replicas - 1}) = IF MinReplicas >= replicas - 1 THEN MinReplicas ELSE replicas - 1
  BY <1>1, MaxOfTwo
<1>. QED
  BY <1>1, <1>2, PolicyAssumption, SMT DEF DownTarget

\* A scaling up takes none away.
LEMMA UpNotDown ==
  ASSUME TypeOK, NEW in \in Input, NEW t \in UpTargets(in)
  PROVE  t \in MinReplicas..MaxReplicas /\ t >= replicas
<1>1. replicas \in Nat /\ MinReplicas \in Nat /\ MaxReplicas \in Nat /\ replicas <= MaxReplicas
      /\ ScaleUpStep \in Nat /\ FailoverReplicas \in Nat
  BY PolicyAssumption, SMT DEF TypeOK
<1>2. in.need \in Nat
  BY <1>1, SMT DEF Input
<1>3. Max({in.need, FailoverReplicas}) \in Int
  BY <1>1, <1>2, MaxOfTwo, SMT
<1>4. Min({MaxReplicas, Max({in.need, FailoverReplicas})}) \in Int
  BY <1>1, <1>3, MinOfTwo, SMT
<1>5. FailureTarget(in) \in Int
  BY <1>4 DEF FailureTarget
<1>6. /\ Max({replicas + ScaleUpStep, FailureTarget(in)}) \in Int
      /\ Max({replicas + ScaleUpStep, FailureTarget(in)}) >= replicas
  <2>1. replicas + ScaleUpStep \in Int /\ replicas + ScaleUpStep >= replicas
    BY <1>1, SMT
  <2>. QED
    BY <1>1, <1>5, <2>1, MaxOfTwo, SMT
<1>7. Min({MaxReplicas, Max({replicas + ScaleUpStep, FailureTarget(in)})}) >= replicas
      /\ Min({MaxReplicas, Max({replicas + ScaleUpStep, FailureTarget(in)})}) \in Int
  BY <1>1, <1>6, MinOfTwo, SMT
<1>8. t \in MinReplicas..MaxReplicas /\ t >= Min({MaxReplicas, Max({replicas + ScaleUpStep, FailureTarget(in)})})
  BY DEF UpTargets
<1>. QED
  BY <1>1, <1>7, <1>8, SMT

-----------------------------------------------------------------------------
(* What one evaluation may do.                                             *)

LEMMA CalmIsInput == CalmInput \in Input
BY PolicyAssumption, SMT DEF CalmInput, Input

\* The ways an evaluation touches the cluster: not at all, a scaling up, a pod that is
\* marked and then, unless the call is refused, one replica less.
ScalesNot == UNCHANGED <<replicas, marked, cooling>>
ScalesUp ==
  /\ replicas' \in MinReplicas..MaxReplicas /\ replicas' >= replicas
  /\ cooling' \in BOOLEAN
  /\ cooling' = TRUE \/ (cooling' = cooling /\ (replicas' = replicas \/ MayOccur("timeout") \/ MayOccur("lost")))
  /\ UNCHANGED marked
ScalesDown(p) ==
  /\ ~cooling /\ p \in Drained /\ pod[p] \in {"running", "terminating"}
  /\ marked' = marked \cup {p}
  /\ \/ replicas' = replicas - 1 /\ replicas' >= MinReplicas /\ cooling' = TRUE /\ desired' = desired
     \/ MayOccur("refuse") /\ replicas' = replicas /\ cooling' = cooling
     \/ /\ MayOccur("timeout") \/ MayOccur("lost")
        /\ replicas' = replicas - 1 /\ replicas' >= MinReplicas /\ cooling' = cooling

LEMMA EvaluationScales ==
  ASSUME TypeOK, Evaluate
  PROVE  ScalesNot \/ ScalesUp \/ \E p \in Pod : ScalesDown(p)
<1>. PICK in \in Input :
       \/ EvaluateHold(in) \/ EvaluateUp(in) \/ EvaluateWait(in)
       \/ EvaluateDrain(in) \/ EvaluateDown(in) \/ EvaluateBlind(in)
  BY CalmIsInput DEF Evaluate
<1>1. CASE EvaluateHold(in) \/ EvaluateWait(in) \/ EvaluateDrain(in) \/ EvaluateBlind(in)
  BY <1>1 DEF EvaluateHold, EvaluateWait, EvaluateDrain, EvaluateBlind, ScalesNot
<1>2. CASE EvaluateUp(in)
  <2>1. PICK t \in UpTargets(in) : SetReplicas(t, Cancelled, Cancelled)
    BY <1>2 DEF EvaluateUp
  <2>2. UNCHANGED marked
    BY <1>2 DEF EvaluateUp
  <2>3. t \in MinReplicas..MaxReplicas /\ t >= replicas
    BY UpNotDown
  <2>4. replicas \in MinReplicas..MaxReplicas /\ replicas >= replicas /\ cooling \in BOOLEAN
    BY PolicyAssumption, SMT DEF TypeOK
  <2>. QED
    BY <2>1, <2>2, <2>3, <2>4 DEF SetReplicas, Scaled, ScalesUp
<1>3. CASE EvaluateDown(in)
  <2>0. ScaleDownDue(in) /\ ~cooling
    BY <1>3 DEF EvaluateDown
  <2>1. DownTarget = replicas - 1 /\ DownTarget \in MinReplicas..MaxReplicas /\ DownTarget >= MinReplicas
    BY <2>0, DownByOne, PolicyAssumption, SMT
  <2>2. PICK p \in Drained :
          \/ UNCHANGED <<replicas, marked, cooling>>
          \/ /\ pod[p] \in {"running", "terminating"}
             /\ marked' = marked \cup {p}
             /\ SetReplicas(DownTarget, desired, [desired EXCEPT ![p] = "serve"])
    BY <1>3 DEF EvaluateDown
  <2>3. p \in Pod
    BY DEF Drained, Fresh
  <2>. QED
    BY <2>0, <2>1, <2>2, <2>3 DEF SetReplicas, Scaled, ScalesNot, ScalesDown
<1>. QED
  BY <1>1, <1>2, <1>3

LEMMA EvaluationDesires ==
  ASSUME TypeOK, Evaluate
  PROVE  desired' \in [Pod -> {"serve", "draining"}]
<1>. PICK in \in Input :
       \/ EvaluateHold(in) \/ EvaluateUp(in) \/ EvaluateWait(in)
       \/ EvaluateDrain(in) \/ EvaluateDown(in) \/ EvaluateBlind(in)
  BY CalmIsInput DEF Evaluate
<1>1. desired \in [Pod -> {"serve", "draining"}] /\ Cancelled \in [Pod -> {"serve", "draining"}]
  BY DEF TypeOK, Cancelled
<1>2. desired' = desired \/ desired' = Cancelled
      \/ \E p \in Pod, d \in {"serve", "draining"} : desired' = [desired EXCEPT ![p] = d]
  BY DEF EvaluateHold, EvaluateUp, EvaluateWait, EvaluateDrain, EvaluateDown, EvaluateBlind,
         SetReplicas, Serving, Drained, Fresh
<1>. QED
  BY <1>1, <1>2

-----------------------------------------------------------------------------
(* Types.                                                                  *)

LEMMA TypeInit == Init => TypeOK
<1> SUFFICES ASSUME Init PROVE TypeOK
  OBVIOUS
<1>1. PICK S \in SUBSET Pod :
        /\ pod = [p \in Pod |-> IF p \in S THEN "running" ELSE "free"]
        /\ app = [p \in Pod |-> IF p \in S THEN "open" ELSE "idle"]
        /\ shown = [p \in Pod |-> IF p \in S THEN "open" ELSE "none"]
        /\ fresh = [p \in Pod |-> p \in S]
  BY DEF Init
<1>2. replicas \in MinReplicas..MaxReplicas
  BY PolicyAssumption, SMT DEF Init
<1>3. pod \in [Pod -> {"free", "running", "terminating", "dead"}]
  BY <1>1
<1>4. app \in [Pod -> App] /\ shown \in [Pod -> Shown \cup {"none"}]
  BY <1>1 DEF App, Shown
<1>5. fresh \in [Pod -> BOOLEAN]
  BY <1>1
<1>. QED
  BY <1>2, <1>3, <1>4, <1>5 DEF Init, TypeOK

LEMMA TypeStep == TypeOK /\ [Next]_vars => TypeOK'
<1> SUFFICES ASSUME TypeOK, [Next]_vars PROVE TypeOK'
  OBVIOUS
<1>1. CASE Evaluate
  <2>1. UNCHANGED <<pod, app, told, shown, fresh, calm>>
    BY <1>1 DEF Evaluate, podVars
  <2>2. desired' \in [Pod -> {"serve", "draining"}]
    BY <1>1, EvaluationDesires
  <2>3. replicas' \in MinReplicas..MaxReplicas /\ marked' \subseteq Pod /\ cooling' \in BOOLEAN
    <3>1. replicas \in Int /\ MinReplicas \in Int /\ MaxReplicas \in Int
          /\ replicas \in MinReplicas..MaxReplicas /\ marked \subseteq Pod /\ cooling \in BOOLEAN
      BY PolicyAssumption, SMT DEF TypeOK
    <3>2. CASE ScalesNot
      BY <3>1, <3>2, Zenon DEF ScalesNot
    <3>3. CASE ScalesUp
      <4>1. cooling' = TRUE \/ cooling' = cooling
        BY <3>3 DEF ScalesUp
      <4>. QED
        BY <3>1, <3>3, <4>1, Zenon DEF ScalesUp
    <3>4. CASE \E p \in Pod : ScalesDown(p)
      <4>1. PICK p \in Pod : ScalesDown(p)
        BY <3>4
      <4>2. marked' \subseteq Pod /\ (cooling' = TRUE \/ cooling' = cooling)
        BY <3>1, <4>1, Zenon DEF ScalesDown
      <4>3. replicas' \in MinReplicas..MaxReplicas
        BY <3>1, <4>1, SMT DEF ScalesDown
      <4>. QED
        BY <3>1, <4>2, <4>3, Zenon
    <3>. QED
      BY <1>1, <3>2, <3>3, <3>4, EvaluationScales
  <2>. QED
    BY <2>1, <2>2, <2>3 DEF TypeOK
<1>2. CASE CooldownEnds
  BY <1>2 DEF CooldownEnds, TypeOK, clusterVars, podVars, rowVars
<1>3. CASE BecomeCalm
  BY <1>3 DEF BecomeCalm, TypeOK, clusterVars, podVars, rowVars
<1>4. ASSUME NEW p \in Pod, PodStep(p) PROVE TypeOK'
  <2>1. CASE ReportLoad(p)
    <3>1. AsShown(app[p]) \in Shown
      BY DEF TypeOK, AsShown, App, Shown
    <3>. QED
      BY <2>1, <3>1 DEF ReportLoad, TypeOK, clusterVars
  <2>2. CASE AppStep(p)
    <3>1. AppNext(p) \subseteq App
      BY DEF AppNext, App, TypeOK
    <3>. QED
      BY <2>2, <3>1 DEF AppStep, TypeOK, clusterVars, rowVars
  <2>3. CASE Fail(p)
    BY <2>3 DEF Fail, TypeOK, clusterVars, rowVars, App
  <2>4. CASE GoStale(p)
    BY <2>4 DEF GoStale, TypeOK, clusterVars, podVars
  <2>5. CASE CreatePod(p)
    BY <2>5 DEF CreatePod, TypeOK, podVars, rowVars
  <2>6. CASE DeletePod(p)
    BY <2>6 DEF DeletePod, TypeOK, podVars, rowVars
  <2>7. CASE PodGone(p)
    BY <2>7 DEF PodGone, TypeOK, rowVars, App
  <2>8. CASE Forget(p)
    BY <2>8 DEF Forget, TypeOK, podVars
  <2>. QED
    BY <1>4, <2>1, <2>2, <2>3, <2>4, <2>5, <2>6, <2>7, <2>8 DEF PodStep
<1>5. CASE UNCHANGED vars
  BY <1>5 DEF vars, clusterVars, podVars, rowVars, TypeOK
<1>. QED
  BY <1>1, <1>2, <1>3, <1>4, <1>5 DEF Next

(* The number of replicas stays within the policy, whatever fails: scalings up, failovers  *)
(* and scalings down of evaluate_service, with every answer of the cluster lost.           *)
THEOREM AutoscalerTypeCorrect == Spec => []TypeOK
BY TypeInit, TypeStep, PTL DEF Spec

-----------------------------------------------------------------------------
(* Marks.                                                                  *)

NoLostAnswers == Faults \cap {"short", "timeout", "lost"} = {}

\* Outside the cooldown nothing is left to delete, so that a removal starts from a
\* workload of its size and takes a pod that runs.
MarkInv ==
  /\ ~cooling => /\ Cardinality(Running) <= replicas
                 /\ \A p \in Pod : pod[p] # "terminating"
  /\ RemovalsMarked

LEMMA CountFacts ==
  /\ IsFiniteSet(Running) /\ Cardinality(Running) \in Nat
  /\ \A S : IsFiniteSet(S \cap Running) /\ Cardinality(S \cap Running) \in Nat
  /\ \A S, T : S \subseteq T => Cardinality(S \cap Running) <= Cardinality(T \cap Running)
<1>1. Running \in SUBSET Pod
  BY DEF Running
<1>2. IsFiniteSet(Running)
  BY <1>1, PodAssumption, FS_Subset
<1>3. Cardinality(Running) \in Nat
  BY <1>2, FS_CardinalityType
<1>4. ASSUME NEW S PROVE IsFiniteSet(S \cap Running) /\ Cardinality(S \cap Running) \in Nat
  <2>1. IsFiniteSet(S \cap Running)
    BY <1>2, FS_Intersection
  <2>. QED
    BY <2>1, FS_CardinalityType
<1>5. ASSUME NEW S, NEW T, S \subseteq T
      PROVE  Cardinality(S \cap Running) <= Cardinality(T \cap Running)
  <2>1. S \cap Running \in SUBSET (T \cap Running)
    BY <1>5
  <2>. QED
    BY <1>4, <2>1, FS_Subset
<1>. QED
  BY <1>2, <1>3, <1>4, <1>5

\* The controller takes one pod at a time.
LEMMA CreatedCounts ==
  ASSUME TypeOK, NEW p \in Pod, CreatePod(p)
  PROVE  /\ Running' = Running \cup {p} /\ Cardinality(Running') = Cardinality(Running) + 1
         /\ Cardinality(marked' \cap Running') \in Nat
         /\ Cardinality(marked' \cap Running') >= Cardinality(marked \cap Running)
<1>1. Running' = Running \cup {p} /\ p \notin Running /\ marked' = marked
  BY DEF CreatePod, Running, TypeOK
<1>2. Cardinality(Running') = Cardinality(Running) + 1
  BY <1>1, CountFacts, FS_AddElement
<1>3. marked \cap Running \in SUBSET (marked' \cap Running')
  BY <1>1
<1>4. IsFiniteSet(marked' \cap Running')
  <2>1. IsFiniteSet(Running')
    BY <1>1, CountFacts, FS_AddElement
  <2>. QED
    BY <2>1, FS_Intersection
<1>5. Cardinality(marked \cap Running) <= Cardinality(marked' \cap Running')
  BY <1>3, <1>4, FS_Subset
<1>6. Cardinality(marked' \cap Running') \in Nat
  BY <1>4, FS_CardinalityType
<1>. QED
  BY <1>1, <1>2, <1>5, <1>6, CountFacts, SMT

LEMMA DeletedCounts ==
  ASSUME TypeOK, NEW p \in Pod, DeletePod(p)
  PROVE  /\ Running' = Running \ {p} /\ p \in Running
         /\ Cardinality(Running') = Cardinality(Running) - 1
         /\ Cardinality(marked' \cap Running') = Cardinality(marked \cap Running)
                                                 - (IF p \in marked THEN 1 ELSE 0)
<1>1. Running' = Running \ {p} /\ p \in Running /\ marked' = marked
  BY DEF DeletePod, Running, TypeOK
<1>2. Cardinality(Running') = Cardinality(Running) - 1
  BY <1>1, CountFacts, FS_RemoveElement
<1>3. marked' \cap Running' = (marked \cap Running) \ {p}
  BY <1>1
<1>4. IsFiniteSet(marked \cap Running)
  BY CountFacts
<1>5. Cardinality(marked' \cap Running') =
        IF p \in marked \cap Running THEN Cardinality(marked \cap Running) - 1
                                     ELSE Cardinality(marked \cap Running)
  BY <1>3, <1>4, FS_RemoveElement
<1>. QED
  BY <1>1, <1>2, <1>5, CountFacts, SMT

\* Pods that are gone do not count.
LEMMA GoneCounts ==
  ASSUME TypeOK, NEW p \in Pod, PodGone(p) \/ Forget(p)
  PROVE  /\ Running' = Running /\ marked' \cap Running' = marked \cap Running
         /\ replicas' = replicas /\ cooling' = cooling
         /\ \A q \in Pod : pod'[q] = "terminating" => pod[q] = "terminating"
BY DEF PodGone, Forget, Running, TypeOK, rowVars, podVars

LEMMA MarkInit == Init => MarkInv
<1> SUFFICES ASSUME Init PROVE MarkInv
  OBVIOUS
<1>1. PICK S \in SUBSET Pod :
        /\ Cardinality(S) = MinReplicas
        /\ pod = [p \in Pod |-> IF p \in S THEN "running" ELSE "free"]
  BY DEF Init
<1>2. Running = S
  BY <1>1 DEF Running
<1>3. replicas = MinReplicas /\ MinReplicas \in Nat
  BY PolicyAssumption DEF Init
<1>4. \A p \in Pod : pod[p] # "terminating"
  BY <1>1
<1>5. Cardinality(marked \cap Running) \in Nat
  BY CountFacts
<1>. QED
  BY <1>1, <1>2, <1>3, <1>4, <1>5, SMT DEF MarkInv, RemovalsMarked

LEMMA MarkStep == NoLostAnswers /\ TypeOK /\ MarkInv /\ [Next]_vars => MarkInv'
<1> SUFFICES ASSUME NoLostAnswers, TypeOK, MarkInv, [Next]_vars PROVE MarkInv'
  OBVIOUS
<1>. ~MayOccur("short") /\ ~MayOccur("timeout") /\ ~MayOccur("lost")
  BY DEF NoLostAnswers, MayOccur
<1>. replicas \in Int /\ MinReplicas \in Int
  BY PolicyAssumption, SMT DEF TypeOK
<1>1. CASE Evaluate
  <2>1. pod' = pod /\ Running' = Running
    BY <1>1 DEF Evaluate, Running
  <2>2. CASE ScalesNot
    BY <2>1, <2>2 DEF ScalesNot, MarkInv, RemovalsMarked
  <2>3. CASE ScalesUp
    <3>1. replicas' \in Int /\ replicas' >= replicas /\ marked' = marked
      BY <2>3, PolicyAssumption, SMT DEF ScalesUp
    <3>2. RemovalsMarked'
      BY <2>1, <3>1, CountFacts, SMT DEF MarkInv, RemovalsMarked
    <3>3. ~cooling' => cooling' = cooling /\ replicas' = replicas
      BY <2>3, Zenon DEF ScalesUp
    <3>. QED
      BY <2>1, <3>2, <3>3 DEF MarkInv
  <2>4. ASSUME NEW p \in Pod, ScalesDown(p) PROVE MarkInv'
    <3>1. ~cooling /\ pod[p] = "running" /\ marked' = marked \cup {p}
      BY <2>4 DEF ScalesDown, MarkInv
    <3>2. Cardinality(Running) <= replicas /\ p \in marked' \cap Running
      BY <3>1 DEF MarkInv, Running
    <3>3. Cardinality(marked' \cap Running) >= 1
      <4>1. Cardinality({p}) = 1 /\ {p} \subseteq marked' /\ {p} \cap Running = {p}
        BY <3>2, FS_Singleton
      <4>. QED
        BY <4>1, CountFacts
    <3>4. CASE replicas' = replicas - 1 /\ cooling' = TRUE
      BY <2>1, <3>2, <3>3, <3>4, CountFacts, SMT DEF MarkInv, RemovalsMarked
    <3>5. CASE replicas' = replicas /\ cooling' = cooling
      <4>1. RemovalsMarked'
        BY <2>1, <3>2, <3>3, <3>5, CountFacts, SMT DEF RemovalsMarked
      <4>. QED
        BY <2>1, <3>5, <4>1 DEF MarkInv
    <3>. QED
      BY <2>4, <3>4, <3>5 DEF ScalesDown
  <2>. QED
    BY <1>1, <2>2, <2>3, <2>4, EvaluationScales
<1>2. CASE CooldownEnds
  <2>1. UNCHANGED <<replicas, pod, marked>> /\ Cardinality(Running) = replicas
        /\ \A p \in Pod : pod[p] # "terminating"
    BY <1>2 DEF CooldownEnds, clusterVars, Settled
  <2>. QED
    BY <2>1, SMT DEF MarkInv, RemovalsMarked, Running
<1>3. CASE BecomeCalm
  BY <1>3 DEF BecomeCalm, MarkInv, RemovalsMarked, Running, clusterVars
<1>4. ASSUME NEW p \in Pod, PodStep(p) PROVE MarkInv'
  <2>1. CASE ReportLoad(p) \/ AppStep(p) \/ Fail(p) \/ GoStale(p)
    <3>1. UNCHANGED <<replicas, pod, marked, cooling>>
      BY <2>1 DEF ReportLoad, AppStep, Fail, GoStale, clusterVars
    <3>. QED
      BY <3>1 DEF MarkInv, RemovalsMarked, Running
  <2>2. CASE CreatePod(p)
    <3>1. UNCHANGED <<replicas, cooling>> /\ Cardinality(Running) < replicas
      BY <2>2 DEF CreatePod
    <3>2. \A q \in Pod : pod'[q] = "terminating" => pod[q] = "terminating"
      BY <2>2 DEF CreatePod, TypeOK
    <3>3. /\ Cardinality(Running') = Cardinality(Running) + 1
          /\ Cardinality(marked' \cap Running') >= Cardinality(marked \cap Running)
      BY <2>2, CreatedCounts
    <3>4. Cardinality(Running') <= replicas'
      BY <3>1, <3>3, CountFacts, SMT
    <3>5. Cardinality(marked' \cap Running') \in Nat
      BY <2>2, CreatedCounts
    <3>6. RemovalsMarked'
      BY <3>1, <3>3, <3>4, <3>5, CountFacts, SMT DEF RemovalsMarked
    <3>. QED
      BY <3>1, <3>2, <3>4, <3>6 DEF MarkInv
  <2>3. CASE DeletePod(p)
    <3>1. UNCHANGED <<replicas, cooling, marked>> /\ Cardinality(Running) > replicas
          /\ (marked \cap Running # {} => p \in marked)
      BY <2>3 DEF DeletePod
    <3>2. cooling'
      BY <3>1, CountFacts, SMT DEF MarkInv
    <3>3. marked \cap Running # {}
      <4>1. Cardinality(marked \cap Running) # 0
        BY <3>1, CountFacts, SMT DEF MarkInv, RemovalsMarked
      <4>. QED
        BY <4>1, FS_EmptySet
    <3>4. /\ Cardinality(Running') = Cardinality(Running) - 1
          /\ Cardinality(marked' \cap Running') = Cardinality(marked \cap Running) - 1
      BY <2>3, <3>1, <3>3, DeletedCounts
    <3>. QED
      BY <3>1, <3>2, <3>4, CountFacts, SMT DEF MarkInv, RemovalsMarked
  <2>4. CASE PodGone(p) \/ Forget(p)
    BY <2>4, GoneCounts DEF MarkInv, RemovalsMarked
  <2>. QED
    BY <1>4, <2>1, <2>2, <2>3, <2>4 DEF PodStep
<1>5. CASE UNCHANGED vars
  BY <1>5 DEF vars, clusterVars, podVars, rowVars, MarkInv, RemovalsMarked, Running
<1>. QED
  BY <1>1, <1>2, <1>3, <1>4, <1>5 DEF Next

(* A removal is marked before the replicas go down: the cluster never has to choose a pod  *)
(* that evaluate_service did not drain.  Calls may be refused, reports may be late and the  *)
(* controller slow; an answer lost after the call took effect, a restart between the call   *)
(* and the commit, or a cooldown that is over before the pod is gone can break it.           *)
THEOREM AutoscalerRemovalsMarked ==
  ASSUME NoLostAnswers
  PROVE  Spec => []RemovalsMarked
<1>1. TypeOK /\ MarkInv /\ [Next]_vars => (TypeOK /\ MarkInv)'
  BY TypeStep, MarkStep
<1>2. MarkInv => RemovalsMarked
  BY DEF MarkInv
<1>. QED
  BY <1>1, <1>2, TypeInit, MarkInit, PTL DEF Spec

-----------------------------------------------------------------------------
(* Routes.                                                                 *)

OnlyLate == Faults \subseteq {"late"}

Resting(p) == app[p] \in {"idle", "open", "ill"}

\* An application whose last report was idle has taken no business since: it left the
\* routes with that report.  What is marked has drained, and there is one pod too many
\* exactly as long as the marked pod runs.
RouteInv ==
  /\ \A p \in Pod : shown[p] = "idle" => Resting(p)
  /\ Cardinality(Running) <= replicas => marked \cap Running = {}
  /\ \A p, q \in marked \cap Running : p = q
  /\ \A p \in marked : /\ pod[p] \in {"running", "terminating"}
                       /\ pod[p] = "running" => desired[p] = "draining" /\ Resting(p)

LEMMA RouteInit == Init => RouteInv
<1> SUFFICES ASSUME Init PROVE RouteInv
  OBVIOUS
<1>1. \A p \in Pod : shown[p] # "idle"
  BY DEF Init
<1>2. marked = {}
  BY DEF Init
<1>. QED
  BY <1>1, <1>2 DEF RouteInv

\* The controller deletes a marked pod.
LEMMA DeletedMarked ==
  ASSUME TypeOK, MarkInv, NEW p \in Pod, DeletePod(p)
  PROVE  p \in marked \cap Running
<1>1. Cardinality(Running) > replicas /\ (marked \cap Running # {} => p \in marked) /\ p \in Running
  BY DEF DeletePod, Running
<1>2. replicas \in Int
  BY PolicyAssumption, SMT DEF TypeOK
<1>3. Cardinality(marked \cap Running) # 0
  BY <1>1, <1>2, CountFacts, SMT DEF MarkInv, RemovalsMarked
<1>. QED
  BY <1>1, <1>3, FS_EmptySet

\* An application that rests starts no business unless its instance is routed.
LEMMA RestStays ==
  ASSUME TypeOK, NEW p \in Pod, AppStep(p), Resting(p), shown[p] = "idle" \/ desired[p] = "draining"
  PROVE  Resting(p)'
<1>1. ~Routed(p)
  BY DEF Routed
<1>2. PICK a \in AppNext(p) : app' = [app EXCEPT ![p] = a]
  BY DEF AppStep
<1>3. app'[p] = a
  BY <1>2 DEF TypeOK
<1>4. AppNext(p) \subseteq {"idle", "open"}
  BY <1>1 DEF AppNext, Resting
<1>. QED
  BY <1>3, <1>4 DEF Resting

LEMMA RouteStep == OnlyLate /\ TypeOK /\ MarkInv /\ RouteInv /\ [Next]_vars => RouteInv'
<1> SUFFICES ASSUME OnlyLate, TypeOK, MarkInv, RouteInv, [Next]_vars PROVE RouteInv'
  OBVIOUS
<1>. /\ ~MayOccur("short") /\ ~MayOccur("timeout") /\ ~MayOccur("lost")
     /\ ~MayOccur("refuse") /\ ~MayOccur("slow")
  BY DEF OnlyLate, MayOccur
<1>. replicas \in Int /\ MinReplicas \in Int
  BY PolicyAssumption, SMT DEF TypeOK
<1>1. CASE Evaluate
  <2>1. UNCHANGED <<pod, app, shown>> /\ Running' = Running /\ Cardinality(Running) = replicas
    BY <1>1 DEF Evaluate, Running, podVars, Settled
  <2>2. marked \cap Running = {}
    BY <2>1 DEF RouteInv
  <2>3. \A q \in Pod : shown'[q] = "idle" => Resting(q)'
    BY <2>1 DEF RouteInv, Resting
  <2>4. CASE ScalesNot \/ ScalesUp
    <3>1. marked' = marked
      BY <2>4 DEF ScalesNot, ScalesUp
    <3>2. \A q \in marked : pod[q] # "running"
      BY <2>2 DEF Running, TypeOK
    <3>. QED
      BY <2>1, <2>2, <2>3, <3>1, <3>2 DEF RouteInv
  <2>5. ASSUME NEW p \in Pod, ScalesDown(p) PROVE RouteInv'
    <3>1. replicas' = replicas - 1 /\ desired' = desired /\ marked' = marked \cup {p}
      BY <2>5 DEF ScalesDown
    <3>2. desired[p] = "draining" /\ shown[p] = "idle"
      BY <2>5 DEF ScalesDown, Drained
    <3>3. \A q \in marked : pod[q] # "running" /\ pod[q] = "terminating"
      <4>1. \A q \in marked : q \in Pod /\ pod[q] \in {"running", "terminating"}
        BY DEF TypeOK, RouteInv
      <4>. QED
        BY <2>2, <4>1 DEF Running
    <3>5. pod[p] \in {"running", "terminating"}
      BY <2>5 DEF ScalesDown
    <3>6. \A q \in marked' : /\ pod'[q] \in {"running", "terminating"}
                             /\ pod'[q] = "running" => desired'[q] = "draining" /\ Resting(q)'
      BY <2>1, <2>3, <3>1, <3>2, <3>3, <3>5
    <3>7. \A q, r \in marked' \cap Running' : q = r
      BY <2>1, <2>2, <3>1
    <3>4. ~(Cardinality(Running') <= replicas')
      BY <2>1, <3>1, SMT
    <3>. QED
      BY <2>3, <3>4, <3>6, <3>7 DEF RouteInv
  <2>. QED
    BY <1>1, <2>4, <2>5, EvaluationScales
<1>2. CASE CooldownEnds
  BY <1>2 DEF CooldownEnds, RouteInv, Resting, Running, clusterVars, podVars, rowVars
<1>3. CASE BecomeCalm
  BY <1>3 DEF BecomeCalm, RouteInv, Resting, Running, clusterVars, podVars, rowVars
<1>4. ASSUME NEW p \in Pod, PodStep(p) PROVE RouteInv'
  <2>1. CASE ReportLoad(p)
    <3>1. UNCHANGED <<replicas, pod, marked, app, desired>> /\ Running' = Running
          /\ shown' = [shown EXCEPT ![p] = AsShown(app[p])]
      BY <2>1 DEF ReportLoad, clusterVars, Running
    <3>2. ASSUME NEW q \in Pod, shown'[q] = "idle" PROVE Resting(q)'
      <4>1. CASE q = p
        <5>1. shown'[p] = AsShown(app[p])
          BY <3>1 DEF TypeOK
        <5>. QED
          BY <3>1, <3>2, <4>1, <5>1 DEF AsShown, Resting
      <4>2. CASE q # p
        BY <3>1, <3>2, <4>2 DEF TypeOK, RouteInv, Resting
      <4>. QED
        BY <4>1, <4>2
    <3>. QED
      BY <3>1, <3>2 DEF RouteInv, Resting
  <2>2. CASE AppStep(p)
    <3>1. UNCHANGED <<replicas, pod, marked, desired, shown>> /\ Running' = Running
          /\ \A q \in Pod : q # p => app'[q] = app[q]
      BY <2>2 DEF AppStep, clusterVars, rowVars, Running, TypeOK
    <3>2. ASSUME NEW q \in Pod, Resting(q), shown[q] = "idle" \/ desired[q] = "draining"
          PROVE  Resting(q)'
      BY <2>2, <3>1, <3>2, RestStays DEF Resting
    <3>3. \A q \in marked : q \in Pod
      BY DEF TypeOK
    <3>. QED
      BY <3>1, <3>2, <3>3 DEF RouteInv
  <2>3. CASE Fail(p)
    <3>1. UNCHANGED <<replicas, pod, marked, desired, shown>> /\ Running' = Running
          /\ \A q \in Pod : app'[q] = app[q] \/ app'[q] = "ill"
      BY <2>3 DEF Fail, clusterVars, rowVars, Running, TypeOK
    <3>2. \A q \in marked : q \in Pod
      BY DEF TypeOK
    <3>. QED
      BY <3>1, <3>2 DEF RouteInv, Resting
  <2>4. CASE GoStale(p)
    BY <2>4 DEF GoStale, RouteInv, Resting, Running, clusterVars, podVars
  <2>5. CASE CreatePod(p)
    <3>1. UNCHANGED <<replicas, marked, app, desired, shown>> /\ Cardinality(Running) < replicas
      BY <2>5 DEF CreatePod, podVars, rowVars
    <3>2. marked \cap Running = {}
      BY <3>1, CountFacts, SMT DEF RouteInv
    <3>3. Running' = Running \cup {p} /\ p \notin marked
      <4>1. pod[p] = "free"
        BY <2>5 DEF CreatePod
      <4>2. p \notin marked
        BY <4>1 DEF RouteInv
      <4>. QED
        BY <2>5, <4>2, CreatedCounts
    <3>4. \A q \in marked : pod'[q] = pod[q]
      BY <2>5, <3>3 DEF CreatePod, TypeOK
    <3>. QED
      BY <3>1, <3>2, <3>3, <3>4 DEF RouteInv, Resting
  <2>6. CASE DeletePod(p)
    <3>1. UNCHANGED <<replicas, marked, app, desired, shown>>
      BY <2>6 DEF DeletePod, podVars, rowVars
    <3>2. Running' = Running \ {p} /\ p \in marked \cap Running
      BY <2>6, DeletedCounts, DeletedMarked
    <3>3. marked' \cap Running' = {}
      BY <3>1, <3>2 DEF RouteInv
    <3>4. pod'[p] = "terminating" /\ \A q \in marked : q # p => pod'[q] = pod[q]
      BY <2>6 DEF DeletePod, TypeOK
    <3>. QED
      BY <3>1, <3>3, <3>4 DEF RouteInv, Resting
  <2>7. CASE PodGone(p)
    <3>1. UNCHANGED <<replicas, desired, shown>> /\ marked' = marked \ {p} /\ Running' = Running
      BY <2>7, GoneCounts DEF PodGone, rowVars
    <3>2. app'[p] = "idle" /\ \A q \in Pod : q # p => app'[q] = app[q] /\ pod'[q] = pod[q]
      BY <2>7 DEF PodGone, TypeOK
    <3>. QED
      BY <3>1, <3>2 DEF RouteInv, Resting, TypeOK
  <2>8. CASE Forget(p)
    <3>1. UNCHANGED <<replicas, marked, app>> /\ Running' = Running /\ p \notin marked
      <4>1. pod[p] = "dead" /\ UNCHANGED <<replicas, marked, app>>
        BY <2>8 DEF Forget, podVars
      <4>2. p \notin marked
        BY <4>1 DEF RouteInv
      <4>. QED
        BY <2>8, <4>1, <4>2, GoneCounts
    <3>2. shown'[p] # "idle" /\ \A q \in Pod : q # p => /\ shown'[q] = shown[q] /\ pod'[q] = pod[q]
                                                        /\ desired'[q] = desired[q]
      BY <2>8 DEF Forget, TypeOK
    <3>. QED
      BY <3>1, <3>2 DEF RouteInv, Resting, TypeOK
  <2>. QED
    BY <1>4, <2>1, <2>2, <2>3, <2>4, <2>5, <2>6, <2>7, <2>8 DEF PodStep
<1>5. CASE UNCHANGED vars
  BY <1>5 DEF vars, clusterVars, podVars, rowVars, RouteInv, Resting, Running
<1>. QED
  BY <1>1, <1>2, <1>3, <1>4, <1>5 DEF Next

\* A step of another kind leaves a running pod running.
LEMMA OnlyDeleted ==
  ASSUME TypeOK, Next, NEW p \in Pod, pod[p] = "running", pod'[p] = "terminating"
  PROVE  DeletePod(p)
<1>1. pod' # pod
  OBVIOUS
<1>2. PICK q \in Pod : PodStep(q)
  BY <1>1 DEF Next, Evaluate, CooldownEnds, BecomeCalm, clusterVars
<1>3. CreatePod(q) \/ DeletePod(q) \/ PodGone(q) \/ Forget(q)
  BY <1>1, <1>2 DEF PodStep, ReportLoad, AppStep, Fail, GoStale, clusterVars
<1>. QED
  BY <1>3 DEF CreatePod, DeletePod, PodGone, Forget, TypeOK

(* The address leaves the routes first and the pod is deleted later, with no business in   *)
(* it: docs/acs-dynamic-scaling-validation.md asks for it, and evaluate_service drains,     *)
(* waits for the report and marks to get there.  Shown when every call is answered and the  *)
(* controller acts in time; reports may be late and applications may fail at any moment.    *)
THEOREM AutoscalerRouteFirst ==
  ASSUME OnlyLate
  PROVE  Spec => RouteFirst
<1>1. NoLostAnswers
  BY DEF OnlyLate, NoLostAnswers
<1>2. TypeOK /\ MarkInv /\ RouteInv /\ [Next]_vars => (TypeOK /\ MarkInv /\ RouteInv)'
  BY <1>1, TypeStep, MarkStep, RouteStep
<1>3. TypeOK /\ MarkInv /\ RouteInv /\ [Next]_vars
        => [\A p \in Pod : pod[p] = "running" /\ pod'[p] = "terminating" =>
              ~Routed(p) /\ app[p] \notin {"busy", "finishing"}]_vars
  <2> SUFFICES ASSUME TypeOK, MarkInv, RouteInv, Next,
                      NEW p \in Pod, pod[p] = "running", pod'[p] = "terminating"
               PROVE  ~Routed(p) /\ app[p] \notin {"busy", "finishing"}
    OBVIOUS
  <2>1. p \in marked
    BY OnlyDeleted, DeletedMarked
  <2>. QED
    BY <2>1 DEF RouteInv, Routed, Resting
<1>. QED
  BY <1>2, <1>3, TypeInit, MarkInit, RouteInit, PTL DEF Spec, RouteFirst
=============================================================================
