------------------------------- MODULE Alerts -------------------------------
(***************************************************************************)
(* Alert rules, their states and events, and the notifications about them. *)
(* Heartbeats evaluate rules in request threads; the monitors of main.py   *)
(* evaluate others on the event loop and send their notifications before   *)
(* the next round.  An evaluation is one transaction of many statements:   *)
(* it reads the rules, then the state of one target after the other, then  *)
(* writes; administrators edit rules in transactions of their own.         *)
(***************************************************************************)
EXTENDS Naturals, Sequences, FiniteSets

CONSTANTS
  Rule,        \* rules that may ever exist
  Default,     \* those that come with the program; a rule stands for one metric
  Target,      \* nodes, containers or services a rule may be about
  Definition,  \* what an administrator may write into a rule
  Evaluator,   \* the parts of the program that evaluate rules: "heartbeat" is a request
               \* handler, "offline" and "business" are monitors of main.py
  MaxRows,     \* alert_event_max_rows
  MaxCount,    \* consecutive_count is counted up to here
  MaxVersion,  \* bound: a rule is written at most this often
  MaxLives,    \* bound: a baseline is reset only while fewer states of it were forgotten
  MaxRestarts, \* bound: restarts of the server
  None

ASSUME AlertsAssumption ==
  /\ Default \subseteq Rule
  /\ Evaluator # {} /\ Evaluator \subseteq {"heartbeat", "offline", "business"}
  /\ IsFiniteSet(Rule) /\ IsFiniteSet(Target)
  /\ MaxRows \in Nat \ {0} /\ MaxCount \in Nat \ {0}
  /\ MaxVersion \in Nat \ {0} /\ MaxLives \in Nat /\ MaxRestarts \in Nat
  /\ Definition \subseteq
       [by : Evaluator, baseline : BOOLEAN, targets : SUBSET Target, enabled : BOOLEAN,
        notify : BOOLEAN, operator : {"gte", "lte", "above"}, threshold : Nat,
        required : 1..MaxCount]
  /\ None \notin Definition \cup Nat
  /\ None \notin [active : BOOLEAN, count : Nat, epoch : Nat, mixed : BOOLEAN]

VARIABLES
  rule,     \* the committed rule rows
  version,  \* how often the rule was written; 0 before it existed
  seeded,   \* AlertRuleSeed rows
  state,    \* AlertState rows
  events,   \* AlertEvent rows, oldest first
  tx,       \* the transaction of each evaluator
  sender,   \* whether somebody waits for the messaging service
  level,    \* what is measured at each target; None when nothing is reported of it
  restarts, \* restarts so far
  past,     \* history: what evaluations of the present definition committed to a state
  life      \* how often the state of a pair was forgotten

vars == <<rule, version, seeded, state, events, tx, sender, level, restarts, past, life>>

Loop == Evaluator \ {"heartbeat"}
Level == {0, 1, None}
Pair == Rule \X Target

(* What an evaluator makes of a measurement.  A metric nothing is reported of has no     *)
(* value; to the offline monitor a node that reports nothing is away for the longest time. *)
Value(e, v) == IF v = None /\ e = "offline" THEN 1 ELSE v

Idle == [pc |-> "idle"]
Dead == [pc |-> "dead"]
NoPast == [streak |-> 0, last |-> "recovered"]

(* The row _evaluate adds for a target it has not seen before. *)
NewState == [active |-> FALSE, count |-> 0, epoch |-> 0, mixed |-> FALSE]

Breached(def, v) ==
  CASE def.operator = "gte"   -> v >= def.threshold
    [] def.operator = "lte"   -> v <= def.threshold
    [] def.operator = "above" -> v > def.threshold

(***************************************************************************)
(* One evaluation of a target: the new row and the status of the event, if *)
(* there is one.                                                           *)
(***************************************************************************)
AfterBreachExact(def, row) ==
  LET count == IF row.count < MaxCount THEN row.count + 1 ELSE MaxCount
      triggers == ~row.active /\ count = def.required
  IN [row    |-> [row EXCEPT !.count = count, !.active = @ \/ triggers],
      status |-> IF triggers THEN "triggered" ELSE "none"]

AfterBreach(def, row) ==
  LET count == IF row.count < MaxCount THEN row.count + 1 ELSE MaxCount
      triggers == ~row.active /\ count >= def.required
  IN [row    |-> [row EXCEPT !.count = count, !.active = @ \/ triggers],
      status |-> IF triggers THEN "triggered" ELSE "none"]

AfterNormalStep(def, row) ==
  [row    |-> [row EXCEPT !.count = @ - 1, !.active = FALSE],
   status |-> IF row.active THEN "recovered" ELSE "none"]

AfterNormal(def, row) ==
  [row    |-> [row EXCEPT !.count = 0, !.active = FALSE],
   status |-> IF row.active THEN "recovered" ELSE "none"]

Evaluated(def, row, v) == IF Breached(def, v) THEN AfterBreach(def, row) ELSE AfterNormal(def, row)

(***************************************************************************)
(* Retention.  The boundary is the time of the MaxRows-th newest row; the  *)
(* rows that are strictly older go, so rows of the same time stay.         *)
(***************************************************************************)
Surplus(time) ==
  LET b == Len(time) - MaxRows + 1
  IN {k \in 1..(b - 1) : time[k] < time[b]}

(* The events of the model are made at different times. *)
Times(rows) == [i \in DOMAIN rows |-> i]

(* The first `old` rows are past their age. *)
GoneByAge(old, rows) == 1..old

Gone(old, rows) ==
  1..old \cup {old + k : k \in Surplus(Times(SubSeq(rows, old + 1, Len(rows))))}

(* The rows at the places `kept`, in their order.  It is the only member of this set, *)
(* which says so without recursion. *)
Subsequence(rows, kept) ==
  {[k \in DOMAIN f |-> rows[f[k]]] :
     f \in {g \in [1..Cardinality(kept) -> kept] : \A i, j \in DOMAIN g : i < j => g[i] < g[j]}}

(* A transaction marks what it deletes; the mark is taken back when it fails. *)
Marked(rows, e, gone) ==
  [i \in DOMAIN rows |-> IF i \in gone THEN [rows[i] EXCEPT !.doomed = @ \cup {e}] ELSE rows[i]]
Unmarked(rows, e) == [i \in DOMAIN rows |-> [rows[i] EXCEPT !.doomed = @ \ {e}]]

(***************************************************************************)
(* Evaluation                                                              *)
(***************************************************************************)
Applies(e, r) == rule[r] # None /\ rule[r].enabled /\ rule[r].by = e

Begin(e) ==
  /\ tx[e].pc = "idle"
  /\ e \in Loop => /\ \A i \in DOMAIN events : events[i].by = e => events[i].note \in {"quiet", "over"}
                  /\ sender[e] = "idle"
                  /\ \A f \in Loop : tx[f].pc \in {"idle", "dead"}
  /\ LET rules == {r \in Rule : Applies(e, r)}
     IN tx' = [tx EXCEPT ![e] =
                 [pc |-> "eval", def |-> [r \in rules |-> rule[r]],
                  version |-> [r \in rules |-> version[r]],
                  todo |-> {p \in rules \X Target : p[2] \in rule[p[1]].targets},
                  wrote |-> << >>, made |-> << >>]]
  /\ UNCHANGED <<rule, version, seeded, state, events, sender, level, restarts, past, life>>

(* The select in _evaluate and what it computes; the rows reach the database with the *)
(* transaction. *)
Evaluate(e) ==
  /\ tx[e].pc = "eval"
  /\ \E p \in tx[e].todo :
       LET def == tx[e].def[p[1]]
           base == IF state[p] = None THEN NewState ELSE state[p]
           v == Value(e, level[p[2]])
           result == Evaluated(def, base, v)
           row == [rule |-> p[1], target |-> p[2], status |-> result.status,
                   by |-> e, note |-> IF def.notify THEN "queued" ELSE "quiet",
                   sent |-> 0, doomed |-> {}]
           isNew == result.status # "none"
       IN /\ v # None
          /\ tx' = [tx EXCEPT
               ![e].todo = @ \ {p},
               ![e].wrote = [q \in DOMAIN @ \cup {p} |->
                               IF q = p THEN [old |-> base, new |-> result.row,
                                              breached |-> Breached(def, v),
                                              status |-> result.status]
                                        ELSE @[q]],
               ![e].made = IF isNew THEN Append(@, row) ELSE @]
  /\ UNCHANGED <<rule, version, seeded, state, events, sender, level, restarts, past, life>>

(* A target without a value is passed over: its state stays as it is. *)
PassOver(e) ==
  /\ tx[e].pc = "eval"
  /\ \E p \in tx[e].todo : /\ Value(e, level[p[2]]) = None
                           /\ tx' = [tx EXCEPT ![e].todo = @ \ {p}]
  /\ UNCHANGED <<rule, version, seeded, state, events, sender, level, restarts, past, life>>

(* The end of an evaluator: retention, in the same transaction, when it made events; *)
(* alert_monitor cleans up every hour even so. *)
Cleanup(e) ==
  /\ tx[e].pc = "eval" /\ tx[e].todo = {}
  /\ \E hourly \in BOOLEAN, old \in 0..Len(events) :
       /\ hourly => e = "offline"
       /\ (tx[e].made = << >> /\ ~hourly) => old = 0
       /\ LET rows == events \o tx[e].made
              gone == IF tx[e].made # << >> \/ hourly THEN Gone(old, rows) ELSE {}
              all == Marked(rows, e, gone)
          IN /\ events' = SubSeq(all, 1, Len(events))
             /\ tx' = [tx EXCEPT ![e].pc = "ready",
                                 ![e].made = SubSeq(all, Len(events) + 1, Len(all))]
  /\ UNCHANGED <<rule, version, seeded, state, sender, level, restarts, past, life>>

(* What the database accepts: a row that was read is still there, a new row is the *)
(* first of its target and its rule exists. *)
StorableUnchecked(e) ==
  \A p \in DOMAIN tx[e].wrote :
    LET base == tx[e].wrote[p].old
    IN IF base.epoch = 0 THEN state[p] = None
                         ELSE state[p] # None /\ state[p].epoch = base.epoch

Storable(e) ==
  \A p \in DOMAIN tx[e].wrote :
    LET base == tx[e].wrote[p].old
    IN IF base.epoch = 0 THEN state[p] = None /\ rule[p[1]] # None
                         ELSE state[p] # None /\ state[p].epoch = base.epoch

(* The columns that changed are written over the row that is there now; a new row gets an *)
(* identity (`epoch`) no earlier state of the pair had. *)
Stored(e, p) ==
  LET w == tx[e].wrote[p]
      now == IF state[p] = None THEN NewState ELSE state[p]
  IN [active |-> IF w.new.active # w.old.active THEN w.new.active ELSE now.active,
      count  |-> IF w.new.count # w.old.count THEN w.new.count ELSE now.count,
      epoch  |-> IF state[p] = None THEN life[p] + 1 ELSE now.epoch,
      mixed  |-> now.mixed \/ tx[e].version[p[1]] # version[p[1]]]

PastAfter(e, p) ==
  LET w == tx[e].wrote[p]
  IN [streak |-> IF ~w.breached THEN 0
                 ELSE IF past[p].streak < MaxCount THEN past[p].streak + 1 ELSE MaxCount,
      last   |-> IF w.status = "none" THEN past[p].last ELSE w.status]

Commit(e) ==
  /\ tx[e].pc = "ready" /\ Storable(e)
  /\ LET wrote == DOMAIN tx[e].wrote
     IN /\ state' = [p \in Pair |-> IF p \in wrote THEN Stored(e, p) ELSE state[p]]
        /\ past' = [p \in Pair |->
             IF p \in wrote /\ tx[e].version[p[1]] = version[p[1]] THEN PastAfter(e, p) ELSE past[p]]
  /\ LET rows == events \o tx[e].made
     IN events' \in Subsequence(rows, {i \in DOMAIN rows : e \notin rows[i].doomed})
  /\ tx' = [tx EXCEPT ![e] = Idle]
  /\ UNCHANGED <<rule, version, seeded, sender, level, restarts, life>>

(* The database refuses the transaction: a request answers 500 and the Agent reports *)
(* again; in a monitor the exception ends the task. *)
Refused(e) ==
  /\ tx[e].pc = "ready" /\ ~Storable(e)
  /\ tx' = [tx EXCEPT ![e] = IF e \in Loop THEN Dead ELSE Idle]
  /\ events' = Unmarked(events, e)
  /\ UNCHANGED <<rule, version, seeded, state, sender, level, restarts, past, life>>

(***************************************************************************)
(* Rules                                                                   *)
(***************************************************************************)
ForgetNothing(gone) ==
  /\ UNCHANGED <<state, life>>
  /\ past' = [p \in Pair |-> IF p \in gone THEN NoPast ELSE past[p]]

(* The delete of AlertState rows: what is counted of these pairs starts anew. *)
Forget(gone) ==
  /\ state' = [p \in Pair |-> IF p \in gone THEN None ELSE state[p]]
  /\ past' = [p \in Pair |-> IF p \in gone THEN NoPast ELSE past[p]]
  /\ life' = [p \in Pair |-> IF p \in gone THEN life[p] + 1 ELSE life[p]]

CreateRule(r) ==
  /\ version[r] = 0
  /\ \E d \in Definition : rule' = [rule EXCEPT ![r] = d]
  /\ version' = [version EXCEPT ![r] = 1]
  /\ UNCHANGED <<seeded, state, events, tx, sender, level, restarts, past, life>>

UpdateRule(r) ==
  /\ rule[r] # None /\ version[r] < MaxVersion
  /\ \E d \in Definition : rule' = [rule EXCEPT ![r] = d]
  /\ version' = [version EXCEPT ![r] = @ + 1]
  /\ Forget({r} \X Target)
  /\ UNCHANGED <<seeded, events, tx, sender, level, restarts>>

DeleteRule(r) ==
  /\ rule[r] # None
  /\ rule' = [rule EXCEPT ![r] = None]
  /\ events' \in Subsequence(events, {i \in DOMAIN events : events[i].rule # r})
  /\ Forget({r} \X Target)
  /\ UNCHANGED <<version, seeded, tx, sender, level, restarts>>

(* The number of GPUs a node should have is set to what it reported: the states of the    *)
(* rules about missing GPUs are deleted for this node, the rules and their events stay, *)
(* and none is missing until the next report says so. *)
Baselined(t) == {p \in Pair : p[2] = t /\ rule[p[1]] # None /\ rule[p[1]].baseline}

ResetBaseline(t) ==
  /\ \A p \in Baselined(t) : life[p] < MaxLives
  /\ Forget(Baselined(t))
  /\ \E v \in {0, level[t]} : level' = [level EXCEPT ![t] = v]
  /\ UNCHANGED <<rule, version, seeded, events, tx, sender, restarts>>

(***************************************************************************)
(* Notifications: the sender of an evaluator works through its queue        *)
(***************************************************************************)
First(e, note) ==
  {i \in DOMAIN events : /\ events[i].by = e /\ events[i].note = note
                         /\ \A j \in 1..(i - 1) : ~(events[j].by = e /\ events[j].note = note)}

(* Nobody subscribed may see the target, or notifications are switched off. *)
SkipNotification(e) ==
  /\ sender[e] = "idle"
  /\ \E i \in First(e, "queued") : events' = [events EXCEPT ![i].note = "over"]
  /\ UNCHANGED <<rule, version, seeded, state, tx, sender, level, restarts, past, life>>

StartSending(e) ==
  /\ sender[e] = "idle"
  /\ \E i \in First(e, "queued") : events' = [events EXCEPT ![i].note = "sending", ![i].sent = @ + 1]
  /\ sender' = [sender EXCEPT ![e] = "waits"]
  /\ UNCHANGED <<rule, version, seeded, state, tx, level, restarts, past, life>>

(* The commit after the answer, or after an error: an event is not tried again. *)
FinishAgain(e) ==
  /\ sender[e] = "waits"
  /\ \E i \in First(e, "sending"), n \in {"over", "queued"} : events' = [events EXCEPT ![i].note = n]
  /\ sender' = [sender EXCEPT ![e] = "idle"]
  /\ UNCHANGED <<rule, version, seeded, state, tx, level, restarts, past, life>>

FinishSending(e) ==
  /\ sender[e] = "waits"
  /\ \E i \in First(e, "sending") : events' = [events EXCEPT ![i].note = "over"]
  /\ sender' = [sender EXCEPT ![e] = "idle"]
  /\ UNCHANGED <<rule, version, seeded, state, tx, level, restarts, past, life>>

(* The row went while the message was on its way: the commit fails, nothing catches it, *)
(* and what is left of the queue is lost. *)
Dropped(e) == [i \in DOMAIN events |->
  IF events[i].by = e /\ events[i].note # "quiet" THEN [events[i] EXCEPT !.note = "over"] ELSE events[i]]

LoseSender(e) ==
  /\ sender[e] = "waits" /\ First(e, "sending") = {}
  /\ events' = Dropped(e)
  /\ sender' = [sender EXCEPT ![e] = "idle"]
  /\ tx' = [tx EXCEPT ![e] = IF e \in Loop THEN Dead ELSE @]
  /\ UNCHANGED <<rule, version, seeded, state, level, restarts, past, life>>

(***************************************************************************)
(* The server stops and starts; what waits in memory is gone.  A default   *)
(* without its AlertRuleSeed row is added, unless its metric has a rule.   *)
(***************************************************************************)
MissingRule == {r \in Default : rule[r] = None}

Missing == {r \in Default \ seeded : rule[r] = None}

Restart ==
  /\ restarts < MaxRestarts
  /\ restarts' = restarts + 1
  /\ tx' = [e \in Evaluator |-> Idle]
  /\ sender' = [e \in Evaluator |-> "idle"]
  /\ events' = [i \in DOMAIN events |->
       [events[i] EXCEPT !.doomed = {}, !.note = IF @ = "quiet" THEN @ ELSE "over"]]
  /\ \E d \in {x \in Definition : x.enabled} :
       /\ rule' = [r \in Rule |-> IF r \in Missing THEN d ELSE rule[r]]
       /\ version' = [r \in Rule |-> IF r \in Missing THEN version[r] + 1 ELSE version[r]]
  /\ seeded' = Default
  /\ UNCHANGED <<state, level, past, life>>

(* The world *)
Measure(t) ==
  /\ \E v \in Level \ {level[t]} : level' = [level EXCEPT ![t] = v]
  /\ UNCHANGED <<rule, version, seeded, state, events, tx, sender, restarts, past, life>>

-----------------------------------------------------------------------------
(* A database that has seen some of the defaults, or none. *)
Init ==
  /\ seeded \in SUBSET Default
  /\ \E d \in [seeded -> {x \in Definition : x.enabled}] :
       rule = [r \in Rule |-> IF r \in seeded THEN d[r] ELSE None]
  /\ version = [r \in Rule |-> IF r \in seeded THEN 1 ELSE 0]
  /\ state = [p \in Pair |-> None]
  /\ events = << >>
  /\ tx = [e \in Evaluator |-> Idle]
  /\ sender = [e \in Evaluator |-> "idle"]
  /\ level = [t \in Target |-> 0]
  /\ restarts = 0
  /\ past = [p \in Pair |-> NoPast]
  /\ life = [p \in Pair |-> 0]

Next ==
  \/ \E e \in Evaluator : \/ Begin(e) \/ Evaluate(e) \/ PassOver(e)
                          \/ Cleanup(e) \/ Commit(e) \/ Refused(e)
  \/ \E r \in Rule : CreateRule(r) \/ UpdateRule(r) \/ DeleteRule(r)
  \/ \E e \in Evaluator : \/ SkipNotification(e) \/ StartSending(e)
                           \/ FinishSending(e) \/ LoseSender(e)
  \/ \E t \in Target : Measure(t) \/ ResetBaseline(t)
  \/ Restart

Spec == Init /\ [][Next]_vars

FairSpec ==
  /\ Spec
  /\ \A e \in Evaluator : WF_vars(\/ Begin(e) \/ Evaluate(e) \/ PassOver(e)
                                  \/ Cleanup(e) \/ Commit(e) \/ Refused(e))
  /\ \A e \in Evaluator : WF_vars(SkipNotification(e) \/ FinishSending(e) \/ LoseSender(e))

-----------------------------------------------------------------------------
(* Types. *)
EventRow == [rule : Rule, target : Target, status : {"triggered", "recovered"},
             by : Evaluator, note : {"quiet", "queued", "sending", "over"}, sent : Nat,
             doomed : SUBSET Evaluator]

TypeOK ==
  /\ rule \in [Rule -> Definition \cup {None}]
  /\ version \in [Rule -> 0..(MaxVersion + 1)]
  /\ seeded \subseteq Default
  /\ state \in [Pair -> {None} \cup [active : BOOLEAN, count : 0..MaxCount,
                                    epoch : Nat \ {0}, mixed : BOOLEAN]]
  /\ events \in Seq(EventRow)
  /\ \A e \in Evaluator : tx[e].pc \in {"idle", "dead", "eval", "ready"}
  /\ sender \in [Evaluator -> {"idle", "waits"}]
  /\ level \in [Target -> Level]
  /\ restarts \in 0..MaxRestarts
  /\ past \in [Pair -> [streak : 0..MaxCount, last : {"triggered", "recovered"}]]
  /\ life \in [Pair -> Nat]

Committing(e) == tx[e].pc = "ready" /\ tx'[e].pc = "idle" /\ restarts' = restarts

(* An event says what happened.  A "triggered" event follows `required` breached        *)
(* evaluations in a row of the rule as it is now, and the target was not firing; a       *)
(* "recovered" event ends a firing of the rule as it is now.  Events of one target       *)
(* alternate, across heartbeats, refused transactions and restarts, as long as its state *)
(* is not forgotten: an edit of the rule or a reset of the baseline starts anew, also    *)
(* while an evaluation is under way.  Not promised where an evaluation that read the     *)
(* rule before an edit wrote a new row's columns after it (`mixed`). *)
EventsEarned ==
  [][\A e \in Evaluator : Committing(e) /\ Storable(e) =>
       \A i \in DOMAIN tx[e].made :
         LET x == tx[e].made[i]
             p == <<x.rule, x.target>>
         IN ~state'[p].mixed =>
              IF x.status = "triggered"
              THEN past[p].last = "recovered" /\ past'[p].streak >= rule[x.rule].required
              ELSE past[p].last = "triggered"]_vars

(* The table of events stays bounded although the transactions that clean up cannot see  *)
(* each other's rows: past the limit there is at most what the others add at once. *)
RowsBounded == Len(events) <= MaxRows + (Cardinality(Evaluator) - 1) * Cardinality(Pair)

(* No event and no state outlives its rule, whichever evaluation was under way when the  *)
(* rule was deleted. *)
NoOrphans ==
  /\ \A i \in DOMAIN events : rule[events[i].rule] # None
  /\ \A p \in Pair : state[p] # None => rule[p[1]] # None

(* Nobody is told twice: an event is sent at most once, whatever fails, and one of a     *)
(* rule without notifications never. *)
DeliveredOnce ==
  \A i \in DOMAIN events : events[i].sent <= IF events[i].note = "quiet" THEN 0 ELSE 1

(* A default rule an administrator deleted does not come back with a restart. *)
DeletedStaysDeleted ==
  [][\A r \in seeded : rule[r] = None /\ version[r] > 0 => rule'[r] = None]_vars

(* The rule stays as it is, its evaluator lives and the measurement stays as it is. *)
Firm(r, t, b) ==
  /\ rule[r] # None /\ rule[r].enabled /\ t \in rule[r].targets
  /\ tx[rule[r].by].pc # "dead"
  /\ Value(rule[r].by, level[t]) # None
  /\ Breached(rule[r], Value(rule[r].by, level[t])) = b

(* The alert tells the truth in the end: while a rule and what it measures stay the      *)
(* same and its evaluator lives, its state comes to say whether the rule is breached,    *)
(* also after a stale evaluation wrote into it. *)
Settles ==
  \A r \in Rule, t \in Target, b \in BOOLEAN :
    <>[]Firm(r, t, b) => <>[](state[<<r, t>>] # None /\ state[<<r, t>>].active = b)
=============================================================================
