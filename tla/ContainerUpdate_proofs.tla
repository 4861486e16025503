----------------------- MODULE ContainerUpdate_proofs ------------------------
(***************************************************************************)
(* Proofs about ContainerUpdate, for any number of deliveries and any      *)
(* number of faults of any kinds.                                          *)
(***************************************************************************)
EXTENDS ContainerUpdate, TLAPS

Running(b) == box[b].state = "running"

\* The delivery in progress counts from 1, and a step that starts or checks a
\* replacement works on the one this delivery created.
CurrentOK ==
    /\ pc # "idle" => attempt \in Attempt
    /\ pc \in {"start", "health"} => was_running /\ me.repl = attempt
    /\ pc = "undoStart" => was_running

\* A delivery that found the old container running is the only one that can have
\* a running replacement.
OthersStopped ==
    was_running /\ pc # "idle" => \A b \in Attempt \ {attempt} : ~Running(b)

\* Its own replacement does not run before it is started.
OwnStopped ==
    was_running /\ pc \in {"pull", "compose"} \cup (TryPc \ {"health"})
      => ~Running(attempt)

\* The old container does not run once it was stopped.
OldStopped == was_running /\ pc \in TryPc \ {"stop"} => ~Running(0)

\* A replacement that may run holds the name, so that the old container cannot
\* get its name back and is not started beside it.
OwnNamed ==
    /\ pc \in {"get", "start", "health"} => box[attempt].name = me.orig
    /\ was_running /\ pc \in {"undoRemove", "undoRename"} /\ Running(attempt)
         => box[attempt].name = me.orig
    /\ pc = "undoStart" => ~Running(attempt)

\* The inductive invariant for OneRunning.
RunInv == /\ TypeOK /\ CurrentOK /\ OneRunning
          /\ OthersStopped /\ OwnStopped /\ OldStopped /\ OwnNamed

-----------------------------------------------------------------------------
LEMMA BoxFacts == /\ 0 \in Box /\ Attempt \subseteq Box /\ 0 \notin Attempt
                  /\ MaxAttempts \in Nat \ {0} /\ \A b \in Box : b = 0 \/ b \in Attempt
BY AttemptsAssumption, SMT DEF Box, Attempt

\* A fault is recorded with the call it hits.
LEMMA FaultType ==
    ASSUME TypeOK, NEW kind, Fault(kind) PROVE faulted' \subseteq (Pc \X Kinds)
BY FaultAssumption DEF TypeOK, Fault

\* A call leaves the containers as they were or makes the change it is for; it
\* continues only after the change.
LEMMA CallFacts ==
    ASSUME TypeOK, NEW after, NEW ok, NEW refused, NEW timedOut,
           Call(after, ok, refused, timedOut)
    PROVE  /\ faulted' \subseteq (Pc \X Kinds)
           /\ \/ box' = after /\ pc' = ok
              \/ box' = box /\ pc' = refused
              \/ box' \in {box, after} /\ pc' = timedOut
BY FaultType DEF TypeOK, Call

LEMMA TryCallFacts ==
    ASSUME TypeOK, NEW after, NEW ok, TryCall(after, ok)
    PROVE  /\ faulted' \subseteq (Pc \X Kinds)
           /\ \/ box' = after /\ pc' = ok
              \/ box' \in {box, after} /\ pc' = "undoRemove"
BY CallFacts DEF TryCall

\* The first state satisfies the inductive invariant.
LEMMA RunInit == Init => RunInv
<1> SUFFICES ASSUME Init PROVE RunInv
  OBVIOUS
<1>1. found \in BoxState /\ Gone \in BoxRec
  BY BoxFacts, SMT DEF Init, BoxState, BoxRec, Gone, Name
<1>2. box \in [Box -> BoxRec]
  BY <1>1, SMT DEF Init, BoxRec
<1>3. me \in Locals
  BY BoxFacts, SMT DEF Init, NoLocals, Locals, Name, BoxState
<1>4. TypeOK
  BY <1>2, <1>3, BoxFacts, SMT DEF Init, TypeOK, Pc
<1>5. \A b \in Attempt : ~Running(b)
  BY BoxFacts, SMT DEF Init, Running, Gone
<1>6. OneRunning
  BY <1>5, BoxFacts DEF OneRunning, Running
<1>. QED
  BY <1>4, <1>6 DEF Init, RunInv, CurrentOK, OthersStopped, OwnStopped,
       OldStopped, OwnNamed, TryPc

\* The types and the numbering of deliveries are kept by every step.
LEMMA TypeNext ==
    ASSUME TypeOK, CurrentOK, [Next]_vars PROVE TypeOK' /\ CurrentOK'
<1> USE BoxFacts DEF TypeOK, CurrentOK, was_running, fixed, Pc, TryPc, UndoPc
<1>1. CASE Begin
  <2>1. me' \in Locals
    BY <1>1, SMT DEF Begin, NoLocals, Locals, Name, BoxRec, BoxState
  <2>2. attempt' \in Attempt
    BY <1>1, SMT DEF Begin, Attempt
  <2>. QED
    BY <1>1, <2>1, <2>2 DEF Begin
<1>2. CASE Pull
  <2>1. faulted' \subseteq (Pc \X Kinds) /\ box' = box
        /\ pc' \in {"compose", "stop", "failed"}
    BY <1>2, CallFacts DEF Pull
  <2>. QED
    BY <1>2, <2>1 DEF Pull
<1>3. CASE UpdateCompose
  <2>1. faulted' \subseteq (Pc \X Kinds) /\ pc' \in {"stop", "failed"}
    BY <1>3, FaultType DEF UpdateCompose
  <2>2. me' \in Locals
    BY <1>3, SMT DEF UpdateCompose, Locals
  <2>. QED
    BY <1>3, <2>1, <2>2 DEF UpdateCompose
<1>4. CASE Stop
  <2>1. faulted' \subseteq (Pc \X Kinds) /\ pc' \in {"rename", "undoRemove"}
    BY <1>4, TryCallFacts DEF Stop
  <2>2. box' \in [Box -> BoxRec]
    <3>1. [box EXCEPT ![0].state = "stopped"] \in [Box -> BoxRec]
      BY SMT DEF BoxRec, BoxState
    <3>. QED
      BY <1>4, <3>1, TryCallFacts DEF Stop
  <2>. QED
    BY <1>4, <2>1, <2>2 DEF Stop
<1>5. CASE Rename
  <2>1. faulted' \subseteq (Pc \X Kinds) /\ pc' \in {"create", "undoRemove"}
    BY <1>5, TryCallFacts DEF Rename
  <2>2. box' \in [Box -> BoxRec]
    <3>1. attempt \in Box
      BY <1>5 DEF Rename
    <3>2. [box EXCEPT ![0].name = attempt] \in [Box -> BoxRec]
      BY <3>1, SMT DEF BoxRec, Name
    <3>. QED
      BY <1>5, <3>2, TryCallFacts DEF Rename
  <2>. QED
    BY <1>5, <2>1, <2>2 DEF Rename
<1>6. CASE Create
  <2>1. faulted' \subseteq (Pc \X Kinds) /\ pc' \in {"get", "undoRemove"}
    BY <1>6, TryCallFacts DEF Create
  <2>2. box' \in [Box -> BoxRec]
    <3>1. me.orig \in Name /\ attempt \in Box
      BY <1>6 DEF Create, Locals
    <3>2. [box EXCEPT ![attempt] = [state |-> "stopped", name |-> me.orig, image |-> "new"]]
            \in [Box -> BoxRec]
      BY <3>1, SMT DEF BoxRec, BoxState, Name
    <3>. QED
      BY <1>6, <3>2, TryCallFacts DEF Create
  <2>. QED
    BY <1>6, <2>1, <2>2 DEF Create
<1>7. CASE Get
  <2>1. faulted' \subseteq (Pc \X Kinds) /\ box' = box
        /\ pc' \in {IF was_running THEN "start" ELSE "remove", "undoRemove"}
    BY <1>7, TryCallFacts DEF Get
  <2>2. me' \in Locals /\ me'.was = me.was /\ (pc' # "undoRemove" => me'.repl = attempt)
    BY <1>7, SMT DEF Get, Locals
  <2>. QED
    BY <1>7, <2>1, <2>2 DEF Get
<1>8. CASE Start
  <2>1. faulted' \subseteq (Pc \X Kinds) /\ pc' \in {"health", "undoRemove"}
    BY <1>8, TryCallFacts DEF Start
  <2>2. box' \in [Box -> BoxRec]
    <3>1. [box EXCEPT ![me.repl].state = "running"] \in [Box -> BoxRec]
      BY SMT DEF BoxRec, BoxState, Locals
    <3>. QED
      BY <1>8, <3>1, TryCallFacts DEF Start
  <2>. QED
    BY <1>8, <2>1, <2>2 DEF Start
<1>9. CASE Health
  <2>1. faulted' \subseteq (Pc \X Kinds) /\ pc' \in {"remove", "undoRemove"}
    BY <1>9, FaultType DEF Health
  <2>2. box' \in [Box -> BoxRec]
    <3>1. \A st \in BoxState : [box EXCEPT ![me.repl].state = st] \in [Box -> BoxRec]
      BY SMT DEF BoxRec, Locals
    <3>. QED
      BY <1>9, <3>1 DEF Health, BoxState
  <2>. QED
    BY <1>9, <2>1, <2>2 DEF Health
<1>10. CASE UndoRemove
  <2>1. faulted' \subseteq (Pc \X Kinds) /\ pc' \in {"undoRename", "failed"}
    BY <1>10, CallFacts DEF UndoRemove
  <2>2. box' \in [Box -> BoxRec]
    <3>1. [box EXCEPT ![me.repl] = Gone] \in [Box -> BoxRec]
      BY SMT DEF BoxRec, BoxState, Gone, Name, Locals
    <3>. QED
      BY <1>10, <3>1, CallFacts DEF UndoRemove
  <2>. QED
    BY <1>10, <2>1, <2>2 DEF UndoRemove
<1>11. CASE UndoRename
  <2>1. faulted' \subseteq (Pc \X Kinds)
        /\ pc' \in {IF was_running THEN "undoStart" ELSE "undoCompose", "undoCompose", "failed"}
    BY <1>11, CallFacts DEF UndoRename
  <2>2. box' \in [Box -> BoxRec]
    <3>1. me.orig \in Name
      BY DEF Locals
    <3>2. [box EXCEPT ![0].name = me.orig] \in [Box -> BoxRec]
      BY <3>1, SMT DEF BoxRec, Name
    <3>. QED
      BY <1>11, <3>2, CallFacts DEF UndoRename
  <2>. QED
    BY <1>11, <2>1, <2>2 DEF UndoRename
<1>12. CASE UndoStart
  <2>1. faulted' \subseteq (Pc \X Kinds) /\ pc' \in {"undoCompose", "failed"}
    BY <1>12, CallFacts DEF UndoStart
  <2>2. box' \in [Box -> BoxRec]
    <3>1. [box EXCEPT ![0].state = "running"] \in [Box -> BoxRec]
      BY SMT DEF BoxRec, BoxState
    <3>. QED
      BY <1>12, <3>1, CallFacts DEF UndoStart
  <2>. QED
    BY <1>12, <2>1, <2>2 DEF UndoStart
<1>13. CASE UndoCompose
  <2>1. faulted' \subseteq (Pc \X Kinds)
    BY <1>13, FaultType DEF UndoCompose
  <2>2. compose' \in {"old", "new"}
    BY <1>13 DEF UndoCompose, RolledBack, Locals
  <2>. QED
    BY <1>13, <2>1, <2>2 DEF UndoCompose
<1>14. CASE Remove
  <2>1. faulted' \subseteq (Pc \X Kinds) /\ pc' \in {"success", "failed"}
    BY <1>14, CallFacts DEF Remove
  <2>2. box' \in [Box -> BoxRec]
    <3>1. [box EXCEPT ![0] = Gone] \in [Box -> BoxRec]
      BY SMT DEF BoxRec, BoxState, Gone, Name
    <3>. QED
      BY <1>14, <3>1, CallFacts DEF Remove
  <2>. QED
    BY <1>14, <2>1, <2>2 DEF Remove
<1>15. CASE Report
  <2>1. faulted' \subseteq (Pc \X Kinds)
    BY <1>15, FaultType DEF Report
  <2>2. me' \in Locals
    BY <1>15, SMT DEF Report, NoLocals, Locals, Name, BoxState
  <2>. QED
    BY <1>15, <2>1, <2>2 DEF Report
<1>16. CASE Crash
  <2>1. faulted' \subseteq (Pc \X Kinds)
    BY <1>16, FaultType DEF Crash
  <2>2. me' \in Locals
    BY <1>16, SMT DEF Crash, NoLocals, Locals, Name, BoxState
  <2>. QED
    BY <1>16, <2>1, <2>2 DEF Crash
<1>17. CASE UNCHANGED vars
  BY <1>17 DEF vars
<1>. QED
  BY <1>1, <1>2, <1>3, <1>4, <1>5, <1>6, <1>7, <1>8, <1>9, <1>10, <1>11, <1>12,
     <1>13, <1>14, <1>15, <1>16, <1>17 DEF Next, Work

\* Every step keeps at most one container running.
LEMMA RunNext ==
    ASSUME RunInv, [Next]_vars PROVE RunInv'
<1>1. TypeOK /\ CurrentOK /\ TypeOK' /\ CurrentOK'
  BY TypeNext DEF RunInv
<1> USE BoxFacts, <1>1 DEF RunInv, TypeOK, CurrentOK, OneRunning, OthersStopped,
        OwnStopped, OldStopped, OwnNamed, Running, was_running, fixed, TryPc
<1>2. CASE Begin
  BY <1>2, SMT DEF Begin, Attempt
<1>3. CASE Pull
  BY <1>3, CallFacts, SMT DEF Pull
<1>4. CASE UpdateCompose
  BY <1>4, SMT DEF UpdateCompose, Locals
<1>5. CASE Stop
  BY <1>5, TryCallFacts, SMT DEF Stop, BoxRec
<1>6. CASE Rename
  BY <1>6, TryCallFacts, SMT DEF Rename, BoxRec
<1>7. CASE Create
  BY <1>7, TryCallFacts, SMT DEF Create, BoxRec
<1>8. CASE Get
  BY <1>8, TryCallFacts, SMT DEF Get, Locals
<1>9. CASE Start
  BY <1>9, TryCallFacts, SMT DEF Start, BoxRec
<1>10. CASE Health
  BY <1>10, SMT DEF Health, BoxRec
<1>11. CASE UndoRemove
  BY <1>11, CallFacts, SMT DEF UndoRemove, Gone, Locals, BoxRec
<1>12. CASE UndoRename
  BY <1>12, CallFacts, SMT DEF UndoRename, Taken, Locals, BoxRec
<1>13. CASE UndoStart
  BY <1>13, CallFacts, SMT DEF UndoStart, BoxRec
<1>14. CASE UndoCompose
  BY <1>14 DEF UndoCompose
<1>15. CASE Remove
  BY <1>15, CallFacts, SMT DEF Remove, Gone, BoxRec
<1>16. CASE Report
  BY <1>16 DEF Report, NoLocals
<1>17. CASE Crash
  BY <1>17 DEF Crash, NoLocals
<1>18. CASE UNCHANGED vars
  BY <1>18 DEF vars
<1>. QED
  BY <1>2, <1>3, <1>4, <1>5, <1>6, <1>7, <1>8, <1>9, <1>10, <1>11, <1>12, <1>13,
     <1>14, <1>15, <1>16, <1>17, <1>18 DEF Next, Work

\* Every variable of the update keeps to its type, whatever fails.
THEOREM UpdateTypeCorrect == Spec => []TypeOK
<1>1. Init => TypeOK /\ CurrentOK
  BY RunInit DEF RunInv
<1>2. TypeOK /\ CurrentOK /\ [Next]_vars => TypeOK' /\ CurrentOK'
  BY TypeNext
<1>. QED
  BY <1>1, <1>2, PTL DEF Spec

\* However daemon calls fail, however often the Agent crashes and the task is
\* delivered, no two containers of the service run at the same time.
THEOREM UpdateOneRunning == Spec => []OneRunning
<1>1. RunInv => OneRunning
  BY DEF RunInv
<1>. QED
  BY RunInit, RunNext, <1>1, PTL DEF Spec

-----------------------------------------------------------------------------
(* What one delivery leaves behind.                                        *)

\* Before the first delivery the container is as it was found.
NotBegun == attempt = 0 => /\ box[0] = [state |-> found, name |-> 0, image |-> "old"]
                           /\ pc = "idle"

\* The first delivery works on the service's name and the state it was found in.
FirstLocals == attempt = 1 /\ pc # "idle" =>
                 me.orig = 0 /\ (was_running <=> found = "running")

\* The old container exists until the delivery removes it.
FirstOld == attempt = 1 /\ box[0].state = "gone" =>
              pc \in {"idle", "success", "failed", "done"}

\* A replacement that is started, checked or kept has the name and the new image,
\* and runs when the check begins.
IsNew == box[1].state # "gone" /\ box[1].image = "new" /\ box[1].name = 0
FirstNew == /\ attempt = 1 /\ pc \in {"get", "start", "health"} => IsNew
            /\ pc = "health" => Running(me.repl)

\* Past the Compose step the file names the new image.
ComposeNew == managed /\ pc \in TryPc \cup {"remove", "success"} => compose = "new"

\* What the first delivery has reached when only the removal is left.
Replaced == /\ IsNew /\ (found = "running" => Running(1) /\ 1 \in passed)
            /\ managed => compose = "new"
FirstDone == /\ attempt = 1 /\ pc \in {"remove", "success"} => Replaced
             /\ attempt = 1 /\ outcome = "success" => Replaced
             /\ outcome = "success" => pc = "done"

\* The inductive invariant for OldKept and SuccessReplaces.
FirstInv == /\ TypeOK /\ CurrentOK /\ NotBegun /\ FirstLocals /\ FirstOld
            /\ FirstNew /\ ComposeNew /\ FirstDone /\ OldKept

LEMMA FirstInit == Init => FirstInv
<1> SUFFICES ASSUME Init PROVE FirstInv
  OBVIOUS
<1>1. TypeOK /\ CurrentOK
  BY RunInit DEF RunInv
<1>2. box[0] = [state |-> found, name |-> 0, image |-> "old"]
  BY BoxFacts, SMT DEF Init, Gone
<1>3. box[0].state # "gone"
  BY <1>2 DEF Init
<1>. QED
  BY <1>1, <1>2, <1>3 DEF Init, FirstInv, NotBegun, FirstLocals, FirstOld,
     FirstNew, ComposeNew, FirstDone, OldKept, TryPc

\* Every step of the first delivery keeps what it owes the old container.
LEMMA FirstNext ==
    ASSUME FirstInv, [Next]_vars PROVE FirstInv'
<1>1. TypeOK /\ CurrentOK /\ TypeOK' /\ CurrentOK'
  BY TypeNext DEF FirstInv
<1> USE BoxFacts, <1>1 DEF FirstInv, TypeOK, CurrentOK, NotBegun, FirstLocals,
        FirstOld, FirstNew, IsNew, ComposeNew, Replaced, FirstDone, OldKept, Running,
        was_running, fixed, TryPc
<1>2. CASE Begin
  BY <1>2, SMT DEF Begin, Attempt
<1>3. CASE Pull
  BY <1>3, CallFacts, SMT DEF Pull
<1>4. CASE UpdateCompose
  BY <1>4, SMT DEF UpdateCompose, Locals
<1>5. CASE Stop
  BY <1>5, TryCallFacts, SMT DEF Stop, BoxRec
<1>6. CASE Rename
  BY <1>6, TryCallFacts, SMT DEF Rename, BoxRec
<1>7. CASE Create
  BY <1>7, TryCallFacts, SMT DEF Create, BoxRec
<1>8. CASE Get
  BY <1>8, TryCallFacts, SMT DEF Get, Locals
<1>9. CASE Start
  BY <1>9, TryCallFacts, SMT DEF Start, BoxRec
<1>10. CASE Health
  BY <1>10, SMT DEF Health, BoxRec
<1>11. CASE UndoRemove
  BY <1>11, CallFacts, SMT DEF UndoRemove, Gone, Locals, BoxRec
<1>12. CASE UndoRename
  BY <1>12, CallFacts, SMT DEF UndoRename, Taken, Locals, BoxRec
<1>13. CASE UndoStart
  BY <1>13, CallFacts, SMT DEF UndoStart, BoxRec
<1>14. CASE UndoCompose
  BY <1>14 DEF UndoCompose
<1>15. CASE Remove
  BY <1>15, CallFacts, SMT DEF Remove, Gone, BoxRec
<1>16. CASE Report
  BY <1>16 DEF Report, NoLocals
<1>17. CASE Crash
  BY <1>17 DEF Crash, NoLocals
<1>18. CASE UNCHANGED vars
  BY <1>18 DEF vars
<1>. QED
  BY <1>2, <1>3, <1>4, <1>5, <1>6, <1>7, <1>8, <1>9, <1>10, <1>11, <1>12, <1>13,
     <1>14, <1>15, <1>16, <1>17, <1>18 DEF Next, Work

\* What the first delivery gives up, it gives up for a replacement that holds the
\* name and, where the old container ran, passed its startup check.
THEOREM UpdateOldKept == Spec => []OldKept
<1>1. FirstInv => OldKept
  BY DEF FirstInv
<1>. QED
  BY FirstInit, FirstNext, <1>1, PTL DEF Spec

\* A success the first delivery reports is one.
THEOREM UpdateSuccessReplaces == Spec => []SuccessReplaces
<1>1. FirstInv => SuccessReplaces
  BY DEF FirstInv, FirstDone, Replaced, IsNew, Running, SuccessReplaces
<1>. QED
  BY FirstInit, FirstNext, <1>1, PTL DEF Spec

-----------------------------------------------------------------------------
(* What a task that failed recoverably leaves behind.                      *)

Old(state, name) == box[0] = [state |-> state, name |-> name, image |-> "old"]
OnlyNew(S) == \A b \in Attempt \ S : box[b].state = "gone"

\* What the containers are at each call of the delivery and of its undo.
Shape ==
    /\ pc \in {"stop", "undoCompose"} => Old(found, 0) /\ OnlyNew({})
    /\ pc = "rename" => Old("stopped", 0) /\ OnlyNew({})
    /\ pc \in {"create", "undoRename"} => Old("stopped", 1) /\ OnlyNew({})
    /\ pc \in {"get", "start", "health", "undoRemove"} => Old("stopped", 1) /\ OnlyNew({1})
    /\ pc = "undoRemove" /\ me.repl = 0 => OnlyNew({})
    /\ pc = "undoRemove" => me.repl \in {0, 1}
    /\ pc = "undoStart" => Old("stopped", 0) /\ OnlyNew({})
    /\ pc \in {"pull", "compose", "stop", "rename", "create", "get"} => me.repl = 0
    /\ pc \in {"undoRename", "undoRemove", "undoCompose"} /\ ~was_running => found = "stopped"

\* What the Compose file is, or can be put back to.
ShapeCompose ==
    /\ pc \in TryPc \cup UndoPc => compose = "old" \/ me.backup = "old"
    /\ me.backup \in {"none", "old"}

\* The inductive invariant for FailureRestores.
FailInv ==
    /\ TypeOK /\ CurrentOK
    /\ faulted \subseteq Recoverable =>
         /\ attempt = IF pc = "idle" THEN 0 ELSE 1
         /\ pc # "idle" => me.orig = 0 /\ me.was = found
         /\ pc \in {"idle", "pull", "compose", "failed"} => Before
         /\ outcome = "failed" => pc = "done" /\ Before
         /\ Shape /\ ShapeCompose

\* A recoverable fault hits the calls it names only.
LEMMA RecoverableFault ==
    ASSUME NEW kind, Fault(kind), faulted' \subseteq Recoverable
    PROVE  /\ faulted \subseteq Recoverable
           /\ \/ kind = "refuse" /\ pc \in {"pull", "compose", "create", "start"}
              \/ kind = "timeout" /\ pc \in {"pull", "start"}
              \/ kind = "startup" /\ pc = "health"
<1>1. <<pc, kind>> \in Recoverable /\ faulted \subseteq Recoverable
  BY DEF Fault
<1>. QED
  BY <1>1 DEF Recoverable

LEMMA RecoverableCall ==
    ASSUME NEW after, NEW ok, NEW refused, NEW timedOut,
           Call(after, ok, refused, timedOut), faulted' \subseteq Recoverable
    PROVE  /\ faulted \subseteq Recoverable
           /\ \/ box' = after /\ pc' = ok
              \/ /\ pc \in {"pull", "compose", "create", "start"}
                 /\ box' = box /\ pc' = refused
              \/ /\ pc \in {"pull", "start"}
                 /\ box' \in {box, after} /\ pc' = timedOut
BY RecoverableFault DEF Call

LEMMA FailInit == Init => FailInv
<1> SUFFICES ASSUME Init PROVE FailInv
  OBVIOUS
<1>1. TypeOK /\ CurrentOK
  BY RunInit DEF RunInv
<1>2. Before
  BY BoxFacts, SMT DEF Init, Gone, Before
<1>. QED
  BY <1>1, <1>2, SMT DEF Init, FailInv, Shape, ShapeCompose, NoLocals, TryPc, UndoPc

\* Every step without an unrecoverable fault keeps the way back open.
LEMMA FailNext ==
    ASSUME FailInv, [Next]_vars PROVE FailInv'
<1>1. TypeOK /\ CurrentOK /\ TypeOK' /\ CurrentOK'
  BY TypeNext DEF FailInv
<1>2. SUFFICES ASSUME faulted' \subseteq Recoverable
      PROVE  (/\ attempt = IF pc = "idle" THEN 0 ELSE 1
              /\ pc # "idle" => me.orig = 0 /\ me.was = found
              /\ pc \in {"idle", "pull", "compose", "failed"} => Before
              /\ outcome = "failed" => pc = "done" /\ Before
              /\ Shape /\ ShapeCompose)'
  BY <1>1 DEF FailInv
<1> USE BoxFacts, <1>1, <1>2 DEF FailInv, TypeOK, CurrentOK, Shape, ShapeCompose, Before,
        Old, OnlyNew, was_running, fixed, TryPc, UndoPc
<1>3. CASE Begin
  BY <1>3, SMT DEF Begin
<1>4. CASE Pull
  BY <1>4, RecoverableCall, SMT DEF Pull
<1>5. CASE UpdateCompose
  BY <1>5, RecoverableFault, SMT DEF UpdateCompose, Locals
<1>6. CASE Stop
  BY <1>6, RecoverableCall, SMT DEF Stop, TryCall, BoxRec
<1>7. CASE Rename
  BY <1>7, RecoverableCall, SMT DEF Rename, TryCall, BoxRec
<1>8. CASE Create
  <2> DEFINE after == [box EXCEPT ![attempt] =
                   [state |-> "stopped", name |-> me.orig, image |-> "new"]]
  <2>1. Old("stopped", 1) /\ OnlyNew({}) /\ attempt = 1 /\ me.orig = 0
    BY <1>8, RecoverableFault, SMT DEF Create, TryCall, Call
  <2>2. ~Taken(me.orig)
    BY <2>1, SMT DEF Taken
  <2>3. after[0] = box[0] /\ \A b \in Attempt \ {1} : after[b] = box[b]
    BY <2>1, SMT
  <2>4. \/ box' = after /\ pc' = "get"
        \/ box' = box /\ pc' = "undoRemove"
    BY <1>8, <2>2, RecoverableCall, SMT DEF Create, TryCall
  <2>5. UNCHANGED <<fixed, compose, me, passed>> /\ pc = "create" /\ faulted \subseteq Recoverable
    BY <1>8, <2>2, RecoverableCall, SMT DEF Create, TryCall
  <2>6. Shape' /\ ShapeCompose'
    <3>1. CASE pc' = "get" /\ box' = after
      BY <3>1, <2>1, <2>3, <2>5
    <3>2. CASE pc' = "undoRemove" /\ box' = box
      <4>1. UNCHANGED <<box, me, compose, found>>
        BY <3>2, <2>5
      <4>. QED
        BY <3>2, <4>1, <2>1, <2>5
    <3>. QED
      BY <2>4, <3>1, <3>2
  <2>. QED
    BY <2>1, <2>4, <2>5, <2>6
<1>9. CASE Get
  BY <1>9, RecoverableCall, SMT DEF Get, TryCall, Locals
<1>10. CASE Start
  BY <1>10, RecoverableCall, SMT DEF Start, TryCall, BoxRec
<1>11. CASE Health
  BY <1>11, RecoverableFault, SMT DEF Health, BoxRec
<1>12. CASE UndoRemove
  BY <1>12, RecoverableCall, SMT DEF UndoRemove, Gone, Locals, BoxRec
<1>13. CASE UndoRename
  BY <1>13, RecoverableCall, SMT DEF UndoRename, Taken, Locals, BoxRec
<1>14. CASE UndoStart
  BY <1>14, RecoverableCall, SMT DEF UndoStart, BoxRec
<1>15. CASE UndoCompose
  BY <1>15, RecoverableFault DEF UndoCompose, RolledBack
<1>16. CASE Remove
  BY <1>16, RecoverableCall, SMT DEF Remove, Gone, BoxRec
<1>17. CASE Report
  BY <1>17, RecoverableFault DEF Report, NoLocals
<1>18. CASE Crash
  BY <1>18, RecoverableFault DEF Crash, NoLocals
<1>19. CASE UNCHANGED vars
  BY <1>19 DEF vars
<1>. QED
  BY <1>3, <1>4, <1>5, <1>6, <1>7, <1>8, <1>9, <1>10, <1>11, <1>12, <1>13,
     <1>14, <1>15, <1>16, <1>17, <1>18, <1>19 DEF Next, Work

\* A task that failed, hit by recoverable faults only, leaves everything as it was.
THEOREM UpdateFailureRestores == Spec => []FailureRestores
<1>1. FailInv => FailureRestores
  BY DEF FailInv, FailureRestores
<1>. QED
  BY FailInit, FailNext, <1>1, PTL DEF Spec

-----------------------------------------------------------------------------
(* An update the except block covers is one atomic step.                   *)

\* What the containers are at each call of a delivery that found the service as it
\* was, be it the first or one sent again after the result was lost.
Replacement(state) == box[attempt] = [state |-> state, name |-> 0, image |-> "new"]
Stage ==
    /\ pc \in {"pull", "compose"} => Before /\ me.backup = "none"
    /\ pc \in {"stop", "undoCompose"} => Old(found, 0) /\ OnlyNew({})
    /\ pc = "rename" => Old("stopped", 0) /\ OnlyNew({})
    /\ pc \in {"create", "undoRename"} => Old("stopped", attempt) /\ OnlyNew({})
    /\ pc \in {"get", "start", "health", "remove", "undoRemove"}
         => Old("stopped", attempt) /\ OnlyNew({attempt})
    /\ pc \in {"get", "start"} => Replacement("stopped")
    /\ pc = "health" => Replacement("running")
    /\ pc = "remove" => Replacement(found) /\ (found = "running" => attempt \in passed)
    /\ pc = "undoRemove" => me.repl \in {0, attempt} /\ (me.repl = 0 => OnlyNew({}))
    /\ pc = "undoStart" => Old("stopped", 0) /\ OnlyNew({})
    /\ pc \in {"pull", "compose", "stop", "rename", "create", "get"} => me.repl = 0

\* The calls of a delivery that changes something.
Changing == TryPc \cup UndoPc \cup {"compose", "remove"}

\* Between deliveries, and with the result, the service is the old one or the new one;
\* a delivery that finds it exchanged fails, and only one sent again can.
Settled ==
    /\ pc \in {"idle", "failed", "done"} => Before \/ Exchanged
    /\ pc = "idle" /\ attempt = 0 => Before
    /\ pc = "failed" => Before \/ attempt > 1
    /\ pc = "success" => Exchanged

\* The inductive invariant for ImplementsAtomicUpdate.
AtomicInv ==
    /\ TypeOK /\ CurrentOK /\ ComposeNew
    /\ outcome # "none" => pc = "done"
    /\ Covered =>
         /\ pc \in Changing \cup {"pull"} => me.orig = 0 /\ me.was = found
         /\ Stage /\ ShapeCompose /\ Settled

\* A fault the except block covers hits the calls it names only; a lost result is none
\* of a call's.
LEMMA CoveredFault ==
    ASSUME NEW kind, Fault(kind), Covered'
    PROVE  /\ Covered
           /\ \/ kind = "refuse" /\ pc \in {"pull", "compose", "create", "start"}
              \/ kind = "timeout" /\ pc \in {"pull", "start"}
              \/ kind = "startup" /\ pc = "health"
              \/ kind = "lost" /\ pc \in {"success", "failed"}
<1>1. <<pc, kind>> \in Recoverable \cup {<<"success", "lost">>, <<"failed", "lost">>}
  BY DEF Fault, Covered
<1>2. Covered
  BY DEF Fault, Covered
<1>. QED
  BY <1>1, <1>2 DEF Recoverable

LEMMA CoveredCall ==
    ASSUME NEW after, NEW ok, NEW refused, NEW timedOut,
           Call(after, ok, refused, timedOut), Covered'
    PROVE  /\ Covered
           /\ \/ box' = after /\ pc' = ok
              \/ /\ pc \in {"pull", "compose", "create", "start"}
                 /\ box' = box /\ pc' = refused
              \/ /\ pc \in {"pull", "start"}
                 /\ box' \in {box, after} /\ pc' = timedOut
BY CoveredFault DEF Call, Covered

\* Faults are never forgotten.
LEMMA CoveredBefore == ASSUME [Next]_vars, Covered' PROVE Covered
<1>1. faulted \subseteq faulted'
  BY DEF Next, Work, vars, fixed, Fault, Call, TryCall, Begin, Pull, UpdateCompose, Stop,
     Rename, Create, Get, Start, Health, UndoRemove, UndoRename, UndoStart, UndoCompose,
     Remove, Report, Crash
<1>. QED
  BY <1>1 DEF Covered

LEMMA AtomicInit == Init => AtomicInv
<1> SUFFICES ASSUME Init PROVE AtomicInv
  OBVIOUS
<1>1. TypeOK /\ CurrentOK
  BY RunInit DEF RunInv
<1>2. Before
  BY BoxFacts, SMT DEF Init, Gone, Before
<1>. QED
  BY <1>1, <1>2, SMT DEF Init, AtomicInv, ComposeNew, Stage, Settled, Changing, ShapeCompose,
     NoLocals, TryPc, UndoPc

\* A result is recorded when the task is over, whatever went wrong.
LEMMA OverNext ==
    ASSUME outcome # "none" => pc = "done", [Next]_vars
    PROVE  /\ outcome' # "none" => pc' = "done"
           /\ outcome # "none" => outcome' = outcome
<1> USE DEF fixed
<1>1. CASE Begin \/ Pull \/ UpdateCompose \/ Stop \/ Rename \/ Create \/ Get \/ Start \/ Health
  BY <1>1 DEF Begin, Pull, UpdateCompose, Stop, Rename, Create, Get, Start, Health
<1>2. CASE UndoRemove \/ UndoRename \/ UndoStart \/ UndoCompose \/ Remove
  BY <1>2 DEF UndoRemove, UndoRename, UndoStart, UndoCompose, Remove
<1>3. CASE Report
  BY <1>3 DEF Report
<1>4. CASE Crash
  BY <1>4 DEF Crash
<1>5. CASE UNCHANGED vars
  BY <1>5 DEF vars
<1>. QED
  BY <1>1, <1>2, <1>3, <1>4, <1>5 DEF Next, Work

\* Past the Compose step the file names the new image, in every delivery.
LEMMA ComposeNext ==
    ASSUME TypeOK, ComposeNew, [Next]_vars PROVE ComposeNew'
<1> USE DEF TypeOK, ComposeNew, TryPc, fixed
<1>1. CASE Begin
  BY <1>1 DEF Begin
<1>2. CASE Pull
  BY <1>2, CallFacts DEF Pull
<1>3. CASE UpdateCompose
  BY <1>3 DEF UpdateCompose
<1>4. CASE Stop
  BY <1>4, TryCallFacts DEF Stop
<1>5. CASE Rename \/ Create \/ Get \/ Start
  <2>1. pc \in TryPc /\ compose' = compose /\ managed' = managed
    BY <1>5 DEF Rename, Create, Get, Start
  <2>. QED
    BY <2>1
<1>6. CASE Health
  BY <1>6 DEF Health
<1>7. CASE UndoRemove \/ UndoRename \/ UndoStart
  <2>1. pc' \in {"undoRename", "undoStart", "undoCompose", "failed"}
    BY <1>7, CallFacts DEF UndoRemove, UndoRename, UndoStart
  <2>. QED
    BY <2>1
<1>10. CASE Remove
  BY <1>10 DEF Remove
<1>8. CASE UndoCompose \/ Report \/ Crash
  BY <1>8 DEF UndoCompose, Report, Crash
<1>9. CASE UNCHANGED vars
  BY <1>9 DEF vars
<1>. QED
  BY <1>1, <1>2, <1>3, <1>4, <1>5, <1>6, <1>7, <1>8, <1>9, <1>10 DEF Next, Work

\* Every step hit by faults the except block covers keeps the service whole.
LEMMA AtomicNext ==
    ASSUME AtomicInv, [Next]_vars PROVE AtomicInv'
<1>1. TypeOK /\ CurrentOK /\ TypeOK' /\ CurrentOK' /\ ComposeNew /\ ComposeNew'
  BY TypeNext, ComposeNext DEF AtomicInv
<1>2. (outcome # "none" => pc = "done") /\ (outcome' # "none" => pc' = "done")
  BY OverNext DEF AtomicInv
<1>3. SUFFICES ASSUME Covered'
      PROVE  (/\ pc \in Changing \cup {"pull"} => me.orig = 0 /\ me.was = found
              /\ Stage /\ ShapeCompose /\ Settled)'
  BY <1>1, <1>2 DEF AtomicInv
<1>4. Covered
  BY <1>3, CoveredBefore
<1> USE BoxFacts, <1>1, <1>3, <1>4 DEF AtomicInv, TypeOK, CurrentOK, Stage, ShapeCompose,
        Settled, Before, Old, OnlyNew, Replacement, Changing, was_running, fixed, TryPc, UndoPc
<1>5. CASE Begin
  <2>1. pc = "idle" /\ attempt' = attempt + 1 /\ UNCHANGED <<box, compose, found, passed, managed>>
    BY <1>5 DEF Begin
  <2>2. CASE Before
    BY <1>5, <2>1, <2>2, SMT DEF Begin
  <2>3. CASE Exchanged
    <3>1. box[0].state = "gone"
      BY <2>3 DEF Exchanged
    <3>2. Exchanged'
      BY <2>1, <2>3 DEF Exchanged
    <3>3. attempt \in Nat /\ attempt # 0
      BY <2>1, <3>1, SMT
    <3>. QED
      BY <1>5, <2>1, <3>1, <3>2, <3>3, SMT DEF Begin
  <2>. QED
    BY <2>1, <2>2, <2>3
<1>6. CASE Pull
  BY <1>6, CoveredCall, SMT DEF Pull
<1>7. CASE UpdateCompose
  BY <1>7, CoveredFault, SMT DEF UpdateCompose, Locals
<1>8. CASE Stop
  BY <1>8, CoveredCall, SMT DEF Stop, TryCall, BoxRec
<1>9. CASE Rename
  BY <1>9, CoveredCall, SMT DEF Rename, TryCall, BoxRec
<1>10. CASE Create
  <2> DEFINE after == [box EXCEPT ![attempt] =
                   [state |-> "stopped", name |-> me.orig, image |-> "new"]]
  <2>1. pc = "create" /\ Old("stopped", attempt) /\ OnlyNew({}) /\ me.orig = 0 /\ me.was = found
        /\ attempt \in Attempt
    BY <1>10 DEF Create
  <2>2. ~Taken(me.orig)
    BY <2>1, SMT DEF Taken
  <2>3. after[0] = box[0] /\ \A b \in Attempt \ {attempt} : after[b] = box[b]
    BY <2>1, SMT
  <2>4. after[attempt] = [state |-> "stopped", name |-> 0, image |-> "new"]
    BY <2>1, SMT
  <2>5. \/ box' = after /\ pc' = "get"
        \/ box' = box /\ pc' = "undoRemove"
    BY <1>10, <2>2, CoveredCall, SMT DEF Create, TryCall
  <2>6. UNCHANGED <<fixed, compose, me, passed>>
    BY <1>10 DEF Create
  <2>7. CASE box' = after /\ pc' = "get"
    BY <2>1, <2>3, <2>4, <2>6, <2>7
  <2>8. CASE box' = box /\ pc' = "undoRemove"
    BY <2>1, <2>6, <2>8
  <2>. QED
    BY <2>5, <2>7, <2>8
<1>11. CASE Get
  BY <1>11, CoveredCall, SMT DEF Get, TryCall, Locals
<1>12. CASE Start
  BY <1>12, CoveredCall, SMT DEF Start, TryCall, BoxRec
<1>13. CASE Health
  BY <1>13, CoveredFault, SMT DEF Health, BoxRec
<1>14. CASE UndoRemove
  BY <1>14, CoveredCall, SMT DEF UndoRemove, Gone, Locals, BoxRec
<1>15. CASE UndoRename
  BY <1>15, CoveredCall, SMT DEF UndoRename, Taken, Locals, BoxRec
<1>16. CASE UndoStart
  BY <1>16, CoveredCall, SMT DEF UndoStart, BoxRec
<1>17. CASE UndoCompose
  BY <1>17, CoveredFault DEF UndoCompose, RolledBack
<1>18. CASE Remove
  <2>1. pc = "remove" /\ UNCHANGED <<fixed, compose, me, passed>>
    BY <1>18 DEF Remove
  <2>2. box' = [box EXCEPT ![0] = Gone] /\ pc' = "success"
    BY <1>18, <2>1, CoveredCall DEF Remove
  <2>3. attempt \in Attempt /\ box'[0].state = "gone"
        /\ \A b \in Attempt : box'[b] = box[b]
    BY <2>1, <2>2, SMT DEF Gone
  <2>4. \A c \in Box \ {attempt} : box'[c].state = "gone"
    BY <2>1, <2>3
  <2>5. Replacement(found) /\ (found = "running" => attempt \in passed)
        /\ (managed => compose = "new")
    BY <2>1 DEF ComposeNew
  <2>6. Exchanged'
    BY <2>1, <2>3, <2>4, <2>5 DEF Exchanged
  <2>7. (Stage /\ ShapeCompose)'
    BY <2>1, <2>2
  <2>. QED
    BY <2>2, <2>6, <2>7
<1>19. CASE Report
  <2>1. pc \in {"success", "failed"} /\ pc' \in {"done", "idle"} /\ me'.backup \in {"none", "old"}
        /\ UNCHANGED <<box, compose, attempt, managed, found, passed>>
    BY <1>19 DEF Report, NoLocals
  <2>2. Before \/ Exchanged
    BY <2>1
  <2>3. Before' = Before /\ Exchanged' = Exchanged
    BY <2>1 DEF Exchanged
  <2>4. attempt # 0
    BY <2>1
  <2>5. Settled'
    <3>1. pc' = "idle" => attempt' # 0
      BY <2>1, <2>4
    <3>. QED
      BY <2>1, <2>2, <2>3, <3>1
  <2>. QED
    BY <2>1, <2>5
<1>20. CASE Crash
  BY <1>20, CoveredFault DEF Crash
<1>21. CASE UNCHANGED vars
  BY <1>21 DEF vars, Exchanged
<1>. QED
  BY <1>5, <1>6, <1>7, <1>8, <1>9, <1>10, <1>11, <1>12, <1>13, <1>14, <1>15, <1>16, <1>17,
     <1>18, <1>19, <1>20, <1>21 DEF Next, Work

-----------------------------------------------------------------------------
(* The steps of AtomicUpdate.                                              *)

\* What the service is, as the refinement reads it from a state.
ServiceIs ==
    /\ ~Covered => Service = "unknown"
    /\ Covered /\ pc \in Changing \cup {"pull"} => Service = "old"
    /\ Covered /\ pc \notin Changing /\ Before => Service = "old"
    /\ Covered /\ pc \notin Changing /\ Exchanged => Service = "new"

LEMMA ServiceValue == AtomicInv => ServiceIs
<1> SUFFICES ASSUME AtomicInv PROVE ServiceIs
  OBVIOUS
<1>1. ~Covered => Service = "unknown"
  BY DEF Service
<1>2. Covered /\ pc \in Changing => Service = "old"
  BY DEF Service, Changing
<1>3. Covered /\ pc \notin Changing /\ Before => Service = "old"
  BY DEF Service, Changing
<1>4. Covered /\ pc = "pull" => Before
  BY DEF AtomicInv, Stage
<1>5. ~(Before /\ Exchanged)
  <2>1. Before => box[0].state # "gone"
    BY DEF Before, AtomicInv, TypeOK
  <2>2. Exchanged => box[0].state = "gone"
    BY BoxFacts DEF Exchanged
  <2>. QED
    BY <2>1, <2>2
<1>6. Covered /\ pc \notin Changing /\ Exchanged => Service = "new"
  BY <1>5 DEF Service, Changing
<1>7. "pull" \notin Changing
  BY DEF Changing, TryPc, UndoPc
<1>. QED
  BY <1>1, <1>2, <1>3, <1>4, <1>6, <1>7 DEF ServiceIs

AtomicNow == AtomicInv /\ ServiceIs

\* The task is sent again, or for the first time.
LEMMA AtomicBegin ==
    ASSUME AtomicNow, AtomicNow', Begin, Covered, Covered'
    PROVE  Atomic!Resend \/ UNCHANGED <<Service, attempt > 1, outcome>>
<1>1. pc = "idle" /\ attempt' = attempt + 1 /\ outcome = "none" /\ outcome' = outcome
      /\ UNCHANGED <<box, compose, found, passed, managed>> /\ pc' \in {"pull", "failed"}
  BY DEF AtomicNow, AtomicInv, Begin, TypeOK
<1>2. "idle" \notin Changing /\ "pull" \notin Changing /\ "failed" \notin Changing
  BY DEF Changing, TryPc, UndoPc
<1>3. Before' = Before /\ Exchanged' = Exchanged
  BY <1>1 DEF Before, Exchanged
<1>4. Before \/ Exchanged
  BY <1>1 DEF AtomicNow, AtomicInv, Settled
<1>5. Service' = Service
  BY <1>1, <1>2, <1>3, <1>4 DEF AtomicNow, ServiceIs
<1>6. attempt \in Nat
  BY AttemptsAssumption, SMT DEF AtomicNow, AtomicInv, TypeOK
<1>7. CASE attempt = 0
  <2>1. (attempt > 1) = FALSE /\ (attempt' > 1) = FALSE
    BY <1>1, <1>7, SMT
  <2>. QED
    BY <1>1, <1>5, <2>1
<1>8. CASE attempt # 0
  <2>1. (attempt' > 1) = TRUE
    BY <1>1, <1>6, <1>8, SMT
  <2>. QED
    BY <1>1, <1>5, <2>1 DEF Atomic!Resend
<1>. QED
  BY <1>7, <1>8

\* The old container is given up: the service is the new one.
LEMMA AtomicRemove ==
    ASSUME AtomicNow, AtomicNow', Remove, Covered, Covered' PROVE Atomic!Replace
<1>1. pc = "remove" /\ pc' = "success" /\ UNCHANGED fixed
  BY CoveredCall DEF Remove
<1>2. "remove" \in Changing /\ "success" \notin Changing
  BY DEF Changing, TryPc, UndoPc
<1>3. Exchanged'
  BY <1>1 DEF AtomicNow, AtomicInv, Settled
<1>4. Service = "old" /\ Service' = "new"
  BY <1>1, <1>2, <1>3 DEF AtomicNow, ServiceIs
<1>5. outcome = "none"
  BY <1>1 DEF AtomicNow, AtomicInv
<1>. QED
  BY <1>1, <1>4, <1>5 DEF fixed, Atomic!Replace

\* The result is recorded, or it is lost and the service stays what it is.
LEMMA AtomicReport ==
    ASSUME AtomicNow, AtomicNow', Report, Covered, Covered'
    PROVE  \/ Atomic!Succeed \/ Atomic!Fail
           \/ UNCHANGED <<Service, attempt > 1, outcome>>
<1>1. pc \in {"success", "failed"} /\ pc' \in {"done", "idle"} /\ attempt' = attempt
      /\ UNCHANGED <<box, compose, managed, found, passed>>
      /\ (outcome' = pc \/ outcome' = outcome)
  BY DEF Report
<1>2. "success" \notin Changing /\ "failed" \notin Changing
      /\ "done" \notin Changing /\ "idle" \notin Changing
  BY DEF Changing, TryPc, UndoPc
<1>3. Before' = Before /\ Exchanged' = Exchanged
  BY <1>1 DEF Before, Exchanged
<1>4. Before \/ Exchanged
  BY <1>1 DEF AtomicNow, AtomicInv, Settled
<1>5. Service' = Service
  BY <1>1, <1>2, <1>3, <1>4 DEF AtomicNow, ServiceIs
<1>6. outcome = "none"
  BY <1>1 DEF AtomicNow, AtomicInv
<1>7. CASE outcome' = "success" /\ pc = "success"
  <2>1. Service = "new"
    BY <1>2, <1>7 DEF AtomicNow, AtomicInv, Settled, ServiceIs
  <2>. QED
    BY <1>1, <1>5, <1>6, <1>7, <2>1 DEF Atomic!Succeed
<1>8. CASE outcome' = "failed" /\ pc = "failed"
  <2>1. Service = "old" \/ attempt > 1
    BY <1>2, <1>8 DEF AtomicNow, AtomicInv, Settled, ServiceIs
  <2>. QED
    BY <1>1, <1>5, <1>6, <1>8, <2>1 DEF Atomic!Fail
<1>9. CASE outcome' = outcome
  BY <1>1, <1>5, <1>9
<1>. QED
  BY <1>1, <1>7, <1>8, <1>9

\* The calls between: the service is what it was to everyone who looks at it.
LEMMA AtomicCall ==
    ASSUME AtomicNow, AtomicNow', [Next]_vars, ~Begin, ~Remove, ~Report, Covered, Covered'
    PROVE  UNCHANGED <<Service, attempt > 1, outcome>>
<1>1. CASE UNCHANGED vars
  <2>1. Before' = Before /\ Exchanged' = Exchanged /\ Covered' = Covered
    BY <1>1 DEF vars, Before, Exchanged, Covered
  <2>2. Service' = Service
    BY <1>1, <2>1 DEF vars, Service
  <2>. QED
    BY <1>1, <2>2 DEF vars
<1>2. CASE Pull \/ UpdateCompose \/ Stop \/ Rename \/ Create \/ Get \/ Start \/ Health
           \/ UndoRemove \/ UndoRename \/ UndoStart \/ UndoCompose
  <2>1. pc \in Changing \cup {"pull"} /\ attempt' = attempt /\ outcome' = outcome
    BY <1>2 DEF Pull, UpdateCompose, Stop, Rename, Create, Get, Start, Health, UndoRemove,
       UndoRename, UndoStart, UndoCompose, fixed, Changing, TryPc, UndoPc
  <2>2. pc' \in Changing \/ (pc' = "failed" /\ Before')
    <3>1. CASE Pull
      <4>1. box' = box /\ pc' \in {"compose", "stop", "failed"} /\ pc = "pull"
            /\ UNCHANGED <<compose, found>>
        BY <3>1, CoveredCall DEF Pull, fixed
      <4>2. Before'
        BY <4>1 DEF AtomicNow, AtomicInv, Stage, Before
      <4>. QED
        BY <4>1, <4>2 DEF Changing, TryPc
    <3>2. CASE UpdateCompose
      <4>1. pc = "compose" /\ UNCHANGED <<box, found>>
            /\ (pc' = "stop" \/ (pc' = "failed" /\ compose' = compose))
        BY <3>2 DEF UpdateCompose, fixed
      <4>2. Before /\ (compose' = compose => Before')
        BY <4>1 DEF AtomicNow, AtomicInv, Stage, Before
      <4>. QED
        BY <4>1, <4>2 DEF Changing, TryPc
    <3>3. CASE Stop \/ Rename \/ Create \/ Get \/ Start
      <4>1. pc' \in {"rename", "create", "get", "start", "health", "remove", "undoRemove"}
        BY <3>3, TryCallFacts DEF Stop, Rename, Create, Get, Start, AtomicNow, AtomicInv
      <4>. QED
        BY <4>1 DEF Changing, TryPc, UndoPc
    <3>4. CASE Health
      BY <3>4 DEF Health, Changing, UndoPc
    <3>5. CASE UndoRemove \/ UndoRename \/ UndoStart
      <4>1. pc' \in {"undoRename", "undoStart", "undoCompose"}
        BY <3>5, CoveredCall DEF UndoRemove, UndoRename, UndoStart
      <4>. QED
        BY <4>1 DEF Changing, UndoPc
    <3>6. CASE UndoCompose
      <4>1. pc = "undoCompose" /\ pc' = "failed" /\ UNCHANGED <<box, me, found>>
        BY <3>6 DEF UndoCompose, fixed
      <4>2. compose' = RolledBack
        BY <3>6, CoveredFault DEF UndoCompose
      <4>3. Before'
        BY <4>1, <4>2, SMT DEF AtomicNow, AtomicInv, Stage, ShapeCompose, Before, Old, OnlyNew,
           RolledBack, UndoPc
      <4>. QED
        BY <4>1, <4>3
    <3>. QED
      BY <1>2, <3>1, <3>2, <3>3, <3>4, <3>5, <3>6
  <2>3. "failed" \notin Changing
    BY DEF Changing, TryPc, UndoPc
  <2>4. Service = "old" /\ Service' = "old"
    BY <2>1, <2>2, <2>3 DEF AtomicNow, ServiceIs
  <2>. QED
    BY <2>1, <2>4
<1>3. ~Crash
  BY CoveredFault DEF Crash
<1>. QED
  BY <1>1, <1>2, <1>3 DEF Next, Work

\* Once something happened that the except block does not cover, only the result is kept.
LEMMA AtomicBroken ==
    ASSUME AtomicNow, AtomicNow', [Next]_vars, ~Covered' PROVE Atomic!Break
<1>1. Service' = "unknown"
  BY DEF AtomicNow, ServiceIs
<1>2. outcome # "none" => outcome' = outcome
  BY OverNext DEF AtomicNow, AtomicInv
<1>. QED
  BY <1>1, <1>2 DEF Atomic!Break

LEMMA AtomicStep ==
    ASSUME AtomicNow, AtomicNow', [Next]_vars
    PROVE  [Atomic!Next]_<<Service, attempt > 1, outcome>>
<1>1. CASE Covered'
  <2>1. Covered
    BY <1>1, CoveredBefore
  <2>. QED
    BY <1>1, <2>1, AtomicBegin, AtomicRemove, AtomicReport, AtomicCall DEF Atomic!Next
<1>2. CASE ~Covered'
  BY <1>2, AtomicBroken DEF Atomic!Next
<1>. QED
  BY <1>1, <1>2

LEMMA AtomicStart == Init => Atomic!Init
<1> SUFFICES ASSUME Init PROVE Atomic!Init
  OBVIOUS
<1>1. Before
  BY BoxFacts, SMT DEF Init, Gone, Before
<1>2. Covered /\ pc = "idle" /\ attempt = 0 /\ outcome = "none"
  BY DEF Init, Covered
<1>3. Service = "old"
  BY <1>1, <1>2 DEF Service, TryPc, UndoPc
<1>4. (attempt > 1) = FALSE
  BY <1>2, SMT
<1>. QED
  BY <1>2, <1>3, <1>4 DEF Atomic!Init

\* An update is one atomic step to the server, for any number of deliveries and faults:
\* the service is replaced as a whole, at most once, or is as it was, and the recorded
\* result says which, until a fault happens that the except block does not cover.
THEOREM UpdateImplementsAtomicUpdate == Spec => ImplementsAtomicUpdate
<1>1. AtomicInv /\ [Next]_vars => AtomicInv'
  BY AtomicNext
<1>2. AtomicInv /\ ServiceIs /\ AtomicInv' /\ ServiceIs' /\ [Next]_vars
        => [Atomic!Next]_<<Service, attempt > 1, outcome>>
  BY AtomicStep DEF AtomicNow
<1>. QED
  BY <1>1, <1>2, AtomicInit, AtomicStart, ServiceValue, PTL
     DEF Spec, ImplementsAtomicUpdate, Atomic!Spec
=============================================================================
