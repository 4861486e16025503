-------------------------- MODULE ContainerUpdate ---------------------------
(***************************************************************************)
(* One update_image task on the Agent: DockerRuntime._update_image         *)
(* (cloudhelm_agent/docker_runtime.py) replaces a container call by call,  *)
(* ComposeManager.update_image (cloudhelm_agent/compose_manager.py)        *)
(* rewrites the image in the Compose file, Agent.poll_task                 *)
(* (cloudhelm_agent/main.py) posts the result, and the server sends the    *)
(* task again when no result arrives.                                      *)
(*                                                                         *)
(* Every call to the Docker daemon may be refused (a DockerException,      *)
(* nothing happened) or time out (an exception of the HTTP library, which  *)
(* is not a DockerException; the daemon may or may not have acted).        *)
(***************************************************************************)
EXTENDS Naturals, FiniteSets

CONSTANTS
    FaultKinds,   \* faults that may happen
    MaxFaults,    \* bound: faults in a behaviour
    MaxAttempts   \* bound: deliveries of the task

Kinds == {"refuse", "timeout", "startup", "crash", "lost"}

ASSUME FaultAssumption == FaultKinds \subseteq Kinds /\ MaxFaults \in Nat
ASSUME AttemptsAssumption == MaxAttempts \in Nat \ {0}

VARIABLES
    pc,       \* the call _update_image is about to make
    box,      \* the containers on the host: 0 is the one the task names,
              \* k the replacement created by delivery k
    compose,  \* image in the Compose file
    me,       \* local variables of _update_image
    attempt,  \* deliveries so far
    outcome,  \* the result the server recorded
    managed,  \* the container belongs to a Compose project
    found,    \* history: the state of the container when the task was created
    passed,   \* history: replacements that passed the startup check
    faulted   \* history: faults, with the call they hit

vars == <<pc, box, compose, me, attempt, outcome, managed, found, passed, faulted>>

Attempt == 1..MaxAttempts
Box == 0..MaxAttempts

\* Names on the host: 0 is the service's name, k the backup name of delivery k.
Name == Box
BoxState == {"gone", "stopped", "running"}
Gone == [state |-> "gone", name |-> 0, image |-> "old"]
BoxRec == [state : BoxState, name : Name, image : {"old", "new"}]

TryPc == {"stop", "rename", "create", "get", "start", "health"}
UndoPc == {"undoRemove", "undoRename", "undoStart", "undoCompose"}
Pc == {"idle", "pull", "compose", "remove", "success", "failed", "done"}
      \cup TryPc \cup UndoPc

\* Local variables: original_name, the state was_running tests, replacement (0 for
\* None) and the backup of compose_update ("none" for None).
Locals == [orig : Name, was : BoxState, repl : Box, backup : {"none", "old", "new"}]
NoLocals == [orig |-> 0, was |-> "gone", repl |-> 0, backup |-> "none"]
was_running == me.was = "running"

Taken(n) == \E b \in Box : box[b].state # "gone" /\ box[b].name = n

Init ==
    /\ pc = "idle" /\ compose = "old" /\ me = NoLocals
    /\ attempt = 0 /\ outcome = "none" /\ passed = {} /\ faulted = {}
    /\ managed \in BOOLEAN /\ found \in {"stopped", "running"}
    /\ box = [b \in Box |-> IF b = 0 THEN [Gone EXCEPT !.state = found] ELSE Gone]

-----------------------------------------------------------------------------
Fault(kind) ==
    /\ kind \in FaultKinds
    /\ Cardinality(faulted) < MaxFaults
    /\ <<pc, kind>> \notin faulted
    /\ faulted' = faulted \cup {<<pc, kind>>}

\* A call to the daemon that turns the containers into after.
Call(after, ok, refused, timedOut) ==
    \/ box' = after /\ pc' = ok /\ UNCHANGED faulted
    \/ Fault("refuse") /\ box' = box /\ pc' = refused
    \/ Fault("timeout") /\ box' \in {box, after} /\ pc' = timedOut

\* A call inside the try block: any exception leads to the except block.
TryCall(after, ok) == Call(after, ok, "undoRemove", "undoRemove")

fixed == <<attempt, outcome, managed, found>>

\* poll_task and execute: the container must exist; reload and the image checks.
Begin ==
    /\ pc = "idle" /\ attempt < MaxAttempts
    /\ attempt' = attempt + 1
    /\ me' = [orig |-> box[0].name, was |-> box[0].state, repl |-> 0,
              backup |-> "none"]
    /\ pc' = IF box[0].state # "gone" THEN "pull" ELSE "failed"
    /\ UNCHANGED <<box, compose, outcome, managed, found, passed, faulted>>

Pull ==
    /\ pc = "pull"
    /\ Call(box, IF managed THEN "compose" ELSE "stop", "failed", "failed")
    /\ UNCHANGED <<fixed, compose, me, passed>>

\* ComposeManager.update_image: the file must still name the expected image; a
\* failed write is undone from the backup before the exception is raised.
UpdateCompose ==
    /\ pc = "compose"
    /\ \/ /\ compose = "old"
          /\ compose' = "new" /\ me' = [me EXCEPT !.backup = compose]
          /\ pc' = "stop"
          /\ UNCHANGED faulted
       \/ /\ compose # "old" /\ pc' = "failed"
          /\ UNCHANGED <<compose, me, faulted>>
       \/ /\ Fault("refuse") /\ pc' = "failed"
          /\ UNCHANGED <<compose, me>>
    /\ UNCHANGED <<fixed, box, passed>>

\* Variant: the running container is not stopped first.
SkipStop == /\ pc = "stop" /\ pc' = "rename"
            /\ UNCHANGED <<fixed, box, compose, me, passed, faulted>>
Stop ==
    /\ pc = "stop"
    /\ IF was_running THEN TryCall([box EXCEPT ![0].state = "stopped"], "rename")
       ELSE pc' = "rename" /\ UNCHANGED <<box, faulted>>
    /\ UNCHANGED <<fixed, compose, me, passed>>

\* The backup name carries a clock value and is never taken.
Rename ==
    /\ pc = "rename"
    /\ TryCall([box EXCEPT ![0].name = attempt], "create")
    /\ UNCHANGED <<fixed, compose, me, passed>>

Create ==
    /\ pc = "create"
    /\ IF Taken(me.orig)
       THEN pc' = "undoRemove" /\ UNCHANGED <<box, faulted>>
       ELSE TryCall([box EXCEPT ![attempt] =
              [state |-> "stopped", name |-> me.orig, image |-> "new"]], "get")
    /\ UNCHANGED <<fixed, compose, me, passed>>

\* containers.get(created["Id"]) binds replacement.
Get ==
    /\ pc = "get"
    /\ TryCall(box, IF was_running THEN "start" ELSE "remove")
    /\ me' = IF pc' = "undoRemove" THEN me ELSE [me EXCEPT !.repl = attempt]
    /\ UNCHANGED <<fixed, compose, passed>>

Start ==
    /\ pc = "start"
    /\ TryCall([box EXCEPT ![me.repl].state = "running"], "health")
    /\ UNCHANGED <<fixed, compose, me, passed>>

\* The loop over reload ends: ready, exited, or unhealthy or too late.  In the
\* variant the loop only logs a failed check.
HealthLogged ==
    /\ pc = "health" /\ pc' = "remove"
    /\ \/ passed' = passed \cup {me.repl} /\ UNCHANGED faulted
       \/ Fault("startup") /\ UNCHANGED passed
    /\ UNCHANGED <<fixed, box, compose, me>>
Health ==
    /\ pc = "health"
    /\ \/ /\ pc' = "remove" /\ passed' = passed \cup {me.repl}
          /\ UNCHANGED <<box, faulted>>
       \/ /\ Fault("startup") /\ pc' = "undoRemove"
          /\ \E left \in {"stopped", "running"} :
               box' = [box EXCEPT ![me.repl].state = left]
          /\ UNCHANGED passed
    /\ UNCHANGED <<fixed, compose, me>>

-----------------------------------------------------------------------------
(* The except block.  A DockerException is swallowed, so the calls after it *)
(* in the same inner try are skipped; any other exception leaves the block. *)

UndoRemove ==
    /\ pc = "undoRemove"
    /\ IF me.repl # 0
       THEN Call([box EXCEPT ![me.repl] = Gone], "undoRename", "undoRename", "failed")
       ELSE pc' = "undoRename" /\ UNCHANGED <<box, faulted>>
    /\ UNCHANGED <<fixed, compose, me, passed>>

\* The daemon refuses a name that is taken, be it by the container itself.
UndoRename ==
    /\ pc = "undoRename"
    /\ IF Taken(me.orig)
       THEN pc' = "undoCompose" /\ UNCHANGED <<box, faulted>>
       ELSE Call([box EXCEPT ![0].name = me.orig],
                 IF was_running THEN "undoStart" ELSE "undoCompose",
                 "undoCompose", "failed")
    /\ UNCHANGED <<fixed, compose, me, passed>>

UndoStart ==
    /\ pc = "undoStart"
    /\ Call([box EXCEPT ![0].state = "running"], "undoCompose", "undoCompose", "failed")
    /\ UNCHANGED <<fixed, compose, me, passed>>

\* ComposeUpdate.rollback, then raise.  Variants: the file is left as it is; the
\* backup is empty.
NotRolledBack == compose
RolledBackEmpty == IF me.backup # "none" THEN "none" ELSE compose
RolledBack == IF me.backup # "none" THEN me.backup ELSE compose
UndoCompose ==
    /\ pc = "undoCompose"
    /\ pc' = "failed"
    /\ \/ compose' = RolledBack /\ UNCHANGED faulted
       \/ me.backup # "none" /\ Fault("refuse") /\ UNCHANGED compose
    /\ UNCHANGED <<fixed, box, me, passed>>

\* The old container is removed; a refusal only adds a warning to the message.
Remove ==
    /\ pc = "remove"
    /\ Call([box EXCEPT ![0] = Gone], "success", "success", "failed")
    /\ UNCHANGED <<fixed, compose, me, passed>>

-----------------------------------------------------------------------------
\* poll_task posts the result; without an answer the task is delivered again.  In
\* the variant it is not.
ReportOnce ==
    /\ pc \in {"success", "failed"} /\ pc' = "done"
    /\ \/ outcome' = pc /\ UNCHANGED faulted
       \/ Fault("lost") /\ UNCHANGED outcome
    /\ UNCHANGED <<box, compose, me, attempt, managed, found, passed>>
Report ==
    /\ pc \in {"success", "failed"}
    /\ \/ pc' = "done" /\ outcome' = pc /\ UNCHANGED <<faulted, me>>
       \/ Fault("lost") /\ pc' = "idle" /\ me' = NoLocals /\ UNCHANGED outcome
    /\ UNCHANGED <<box, compose, attempt, managed, found, passed>>

\* The Agent stops at any point; the daemon and the files are as it left them.
Crash ==
    /\ pc \notin {"idle", "done"}
    /\ Fault("crash")
    /\ pc' = "idle" /\ me' = NoLocals
    /\ UNCHANGED <<fixed, box, compose, passed>>

Work == \/ Begin \/ Pull \/ UpdateCompose \/ Stop \/ Rename \/ Create \/ Get
        \/ Start \/ Health \/ UndoRemove \/ UndoRename \/ UndoStart
        \/ UndoCompose \/ Remove \/ Report
Next == Work \/ Crash
Spec == Init /\ [][Next]_vars
FairSpec == Spec /\ WF_vars(Work)

-----------------------------------------------------------------------------
TypeOK ==
    /\ pc \in Pc /\ box \in [Box -> BoxRec] /\ compose \in {"old", "new"}
    /\ me \in Locals /\ attempt \in 0..MaxAttempts
    /\ outcome \in {"none", "success", "failed"}
    /\ managed \in BOOLEAN /\ found \in {"stopped", "running"}
    /\ passed \subseteq Attempt /\ faulted \subseteq (Pc \X Kinds)

\* Ports and GPUs are never shared: however calls fail, the Agent crashes and the
\* task is repeated, no two containers of the service run at the same time.
OneRunning ==
    \A b, c \in Box : box[b].state = "running" /\ box[c].state = "running" => b = c

\* Within one delivery, whichever calls fail, the old container is given up only
\* for a replacement that holds its name and, if it was running, that passed the
\* startup check.
OldKept ==
    attempt = 1 /\ box[0].state = "gone" =>
      /\ box[1].state # "gone" /\ box[1].image = "new" /\ box[1].name = 0
      /\ found = "running" => 1 \in passed

\* As it was before the task.
Before == /\ box[0] = [state |-> found, name |-> 0, image |-> "old"]
          /\ \A b \in Attempt : box[b].state = "gone"
          /\ compose = "old"

\* A task that fails because the image cannot be pulled, the Compose file cannot
\* be changed, the replacement cannot be created or started or does not become
\* healthy, leaves container, name, run state and Compose file as they were.
Recoverable == ({"pull", "compose", "create", "start"} \X {"refuse"})
               \cup ({"pull", "start"} \X {"timeout"})
               \cup {<<"health", "startup">>}
FailureRestores ==
    outcome = "failed" /\ faulted \subseteq Recoverable => Before

\* AtomicUpdate: an update whose faults the except block covers, or whose result is
\* lost, is to the server one atomic step, over all deliveries.  Between the first
\* call that changes something and the end of the try or except block the service is
\* still the old one; outside of it, what holds the name, the run state and the
\* Compose file say what it is.
Covered == faulted \subseteq Recoverable \cup {<<"success", "lost">>, <<"failed", "lost">>}

Exchanged == \E b \in Attempt :
    /\ \A c \in Box \ {b} : box[c].state = "gone"
    /\ box[b].name = 0 /\ box[b].image = "new"
    /\ box[b].state = found /\ (found = "running" => b \in passed)
    /\ managed => compose = "new"

Service == CASE ~Covered -> "unknown"
             [] Covered /\ pc \in TryPc \cup UndoPc \cup {"compose", "remove"} -> "old"
             [] OTHER -> IF Before THEN "old" ELSE IF Exchanged THEN "new" ELSE "neither"

Atomic == INSTANCE AtomicUpdate WITH service <- Service, resent <- attempt > 1

ImplementsAtomicUpdate == Atomic!Spec

\* A success reported by the first delivery means a container of the new image
\* holds the name, runs if the old one did after passing its startup check, and
\* the Compose file names the new image.
SuccessReplaces ==
    outcome = "success" /\ attempt = 1 =>
      /\ box[1].state # "gone" /\ box[1].name = 0 /\ box[1].image = "new"
      /\ found = "running" => box[1].state = "running" /\ 1 \in passed
      /\ managed => compose = "new"

\* Lost results and crashes do not leave the task without a recorded result.
EventuallyReported == <>(outcome # "none")

-----------------------------------------------------------------------------
(* What docs/ says of the update and the code does not do.                 *)

\* docs/module-image-releases.md: the new container is created in place of the
\* old one.  A delivery after a crash takes the backup name for the name.
SuccessInPlace ==
    outcome = "success" =>
      \E b \in Attempt : box[b].state # "gone" /\ box[b].name = 0 /\ box[b].image = "new"
=============================================================================
