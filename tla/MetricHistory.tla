--------------------------- MODULE MetricHistory ---------------------------
(***************************************************************************)
(* The samples heartbeats write and their cleanup.  Every server process   *)
(* has a monitor that starts a pass again and again; a pass deletes in     *)
(* batches, each in a transaction of its own, while an advisory lock of    *)
(* the database keeps the other processes out.  Heartbeats do not take it. *)
(***************************************************************************)
EXTENDS Integers, FiniteSets, FiniteSetsExt

CONSTANTS
  Node,
  SampleRows,   \* rows of a sample: one for the node, one for each container
  Process,
  BatchSize, MaxBatches,
  MaxRows,      \* metrics_history_max_rows, 0 for no limit
  MaxId,        \* bound: rows ever written
  MaxFailures,  \* bound: passes that an error ends
  None

ASSUME HistoryAssumption ==
  /\ SampleRows \in Nat \ {0} /\ BatchSize \in Nat \ {0} /\ MaxBatches \in Nat \ {0}
  /\ MaxRows \in Nat /\ MaxId \in Nat /\ MaxFailures \in Nat
  /\ None \notin Process

VARIABLES
  rows,      \* committed MetricSample rows, by id
  expired,   \* those older than metrics_history_retention_hours
  nextId,    \* the table's sequence
  due,       \* metrics_history_interval_seconds have passed for the node
  unsaved,   \* rows of each node's heartbeat that is not committed yet
  lock,      \* who holds the advisory lock
  pass,      \* cleanup_metric_history in each process
  failures   \* errors so far

vars == <<rows, expired, nextId, due, unsaved, lock, pass, failures>>

Id == 1..MaxId
Resting == [pc |-> "rest"]

(***************************************************************************)
(* Heartbeats                                                              *)
(***************************************************************************)

(* record_metric_history: the flush gives the rows their ids ... *)
RecordMetricHistory(n) ==
  /\ due[n] /\ unsaved[n] = {} /\ nextId + SampleRows <= MaxId + 1
  /\ unsaved' = [unsaved EXCEPT ![n] = nextId..(nextId + SampleRows - 1)]
  /\ nextId' = nextId + SampleRows
  /\ UNCHANGED <<rows, expired, due, lock, pass, failures>>

(* ... and the end of the heartbeat commits them, perhaps after rows with larger ids. *)
CommitHeartbeat(n) ==
  /\ unsaved[n] # {}
  /\ rows' = rows \cup unsaved[n]
  /\ unsaved' = [unsaved EXCEPT ![n] = {}]
  /\ due' = [due EXCEPT ![n] = FALSE]
  /\ UNCHANGED <<expired, nextId, lock, pass, failures>>

AbortHeartbeat(n) ==
  /\ unsaved[n] # {}
  /\ unsaved' = [unsaved EXCEPT ![n] = {}]
  /\ UNCHANGED <<rows, expired, nextId, due, lock, pass, failures>>

IntervalPasses(n) ==
  /\ ~due[n]
  /\ due' = [due EXCEPT ![n] = TRUE]
  /\ UNCHANGED <<rows, expired, nextId, unsaved, lock, pass, failures>>

(* Time passes.  Ids and times need not agree: a heartbeat takes the time before the ids. *)
Expire(i) ==
  /\ i \in rows \ expired
  /\ expired' = expired \cup {i}
  /\ UNCHANGED <<rows, nextId, due, unsaved, lock, pass, failures>>

(***************************************************************************)
(* A pass of cleanup_metric_history                                        *)
(***************************************************************************)
AnyLock == TRUE

LockFree == lock = None

(* The cutoff is fixed when the pass begins. *)
BeginPass(w) ==
  /\ pass[w].pc = "rest" /\ LockFree
  /\ lock' = w
  /\ pass' = [pass EXCEPT ![w] = [pc |-> "expired", old |-> expired \cap rows, batches |-> 0, excess |-> 0]]
  /\ UNCHANGED <<rows, expired, nextId, due, unsaved, failures>>

Smaller(m, n) == IF m < n THEN m ELSE n

DeleteExpired(w) ==
  /\ pass[w].pc = "expired" /\ pass[w].batches < MaxBatches
  /\ LET old == pass[w].old \cap rows
     IN /\ old # {}
        /\ \E batch \in kSubset(Smaller(BatchSize, Cardinality(old)), old) : rows' = rows \ batch
  /\ expired' = expired \cap rows'
  /\ pass' = [pass EXCEPT ![w].batches = @ + 1, ![w].old = @ \cap rows']
  /\ UNCHANGED <<nextId, due, unsaved, lock, failures>>

(* Once nothing is expired, and batches are left, the table is counted. *)
CountRows(w) ==
  /\ pass[w].pc = "expired" /\ pass[w].batches < MaxBatches /\ pass[w].old \cap rows = {}
  /\ MaxRows # 0
  /\ pass' = [pass EXCEPT ![w].pc = "excess",
                          ![w].excess = IF Cardinality(rows) > MaxRows THEN Cardinality(rows) - MaxRows ELSE 0]
  /\ UNCHANGED <<rows, expired, nextId, due, unsaved, lock, failures>>

Oldest(n) == {i \in rows : Cardinality({j \in rows : j < i}) < n}

Batch(excess) == Smaller(BatchSize, excess)

DeleteOldest(w) ==
  /\ pass[w].pc = "excess" /\ pass[w].excess > 0 /\ pass[w].batches < MaxBatches
  /\ rows # {}
  /\ LET oldest == Oldest(Batch(pass[w].excess))
     IN /\ rows' = rows \ oldest
        /\ pass' = [pass EXCEPT ![w].batches = @ + 1, ![w].excess = @ - Cardinality(oldest)]
  /\ expired' = expired \cap rows'
  /\ UNCHANGED <<nextId, due, unsaved, lock, failures>>

(* The pass returns, with a backlog or without one: the monitor sleeps 1 s or 300 s. *)
PassDone(p) ==
  \/ p.batches = MaxBatches
  \/ p.pc = "expired" /\ p.old \cap rows = {} /\ MaxRows = 0
  \/ p.pc = "excess" /\ (p.excess <= 0 \/ rows = {})

EndPass(w) ==
  /\ pass[w].pc \in {"expired", "excess"} /\ PassDone(pass[w])
  /\ pass' = [pass EXCEPT ![w] = Resting]
  /\ lock' = None
  /\ UNCHANGED <<rows, expired, nextId, due, unsaved, failures>>

(* An error, the loss of the connection or of the process: what was not committed is *)
(* undone, the lock is given back or falls with the connection, and the monitor tries *)
(* again. *)
LockKept == lock

LockAfterError == None

FailPass(w) ==
  /\ pass[w].pc \in {"expired", "excess"} /\ failures < MaxFailures
  /\ failures' = failures + 1
  /\ pass' = [pass EXCEPT ![w] = Resting]
  /\ lock' = LockAfterError
  /\ UNCHANGED <<rows, expired, nextId, due, unsaved>>

-----------------------------------------------------------------------------
Init ==
  /\ rows = {} /\ expired = {} /\ nextId = 1
  /\ due = [n \in Node |-> TRUE]
  /\ unsaved = [n \in Node |-> {}]
  /\ lock = None
  /\ pass = [w \in Process |-> Resting]
  /\ failures = 0

Monitor(w) == BeginPass(w) \/ DeleteExpired(w) \/ CountRows(w) \/ DeleteOldest(w) \/ EndPass(w)

Next ==
  \/ \E n \in Node : RecordMetricHistory(n) \/ CommitHeartbeat(n) \/ AbortHeartbeat(n) \/ IntervalPasses(n)
  \/ \E i \in Id : Expire(i)
  \/ \E w \in Process : Monitor(w) \/ FailPass(w)

Spec == Init /\ [][Next]_vars

FairSpec == Spec /\ \A w \in Process : WF_vars(Monitor(w))

-----------------------------------------------------------------------------
(* The limit on rows takes no more than it says: a row goes because it is past its age, *)
(* or because MaxRows rows with larger ids remain, although the table is counted once    *)
(* for many batches, heartbeats commit in between and several processes clean up. *)
DeletesWhatItMust ==
  [][\A i \in rows \ rows' :
       i \in expired \/ (MaxRows # 0 /\ Cardinality({j \in rows' : j > i}) >= MaxRows)]_vars

(* When no more is written, what is past its age and what is over the limit goes, *)
(* whatever errors end passes half-way and however large the backlog is. *)
EventuallyTidy ==
  <>[](\A n \in Node : unsaved[n] = {}) =>
    []<>(rows \cap expired = {} /\ (MaxRows # 0 => Cardinality(rows) <= MaxRows))
=============================================================================
