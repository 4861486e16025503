---------------------------- MODULE Alerts_proofs ----------------------------
(***************************************************************************)
(* Theorems about alerts, for any rules, targets and definitions.          *)
(***************************************************************************)
EXTENDS Alerts, FiniteSetTheorems, SequenceTheorems, TLAPS

-----------------------------------------------------------------------------
(* Types.                                                                  *)

AnyState == [active : BOOLEAN, count : 0..MaxCount, epoch : Nat, mixed : BOOLEAN]

\* What an evaluation writes for one target, by the definition it read.
Written(def, w) ==
  /\ w.old \in AnyState /\ w.new \in AnyState /\ w.breached \in BOOLEAN
  /\ w.status \in {"none", "triggered", "recovered"}
  /\ w.breached =>
       /\ w.new.count = IF w.old.count < MaxCount THEN w.old.count + 1 ELSE MaxCount
       /\ w.status # "recovered"
       /\ w.new.active = (w.old.active \/ w.status = "triggered")
       /\ w.status = "triggered" => ~w.old.active /\ w.new.count >= def.required
  /\ ~w.breached =>
       /\ w.new.count = 0 /\ ~w.new.active
       /\ w.status = IF w.old.active THEN "recovered" ELSE "none"

Busy(t) ==
  /\ DOMAIN t = {"pc", "def", "version", "todo", "wrote", "made"}
  /\ t.pc \in {"eval", "ready"}
  /\ DOMAIN t.def \subseteq Rule /\ DOMAIN t.version = DOMAIN t.def
  /\ \A r \in DOMAIN t.def : t.def[r] \in Definition /\ t.version[r] \in Nat
  /\ \A p \in t.todo : p \in Pair /\ p[1] \in DOMAIN t.def
  /\ \A p \in DOMAIN t.wrote : /\ p \in Pair /\ p[1] \in DOMAIN t.def
                               /\ Written(t.def[p[1]], t.wrote[p])
  /\ t.made \in Seq(EventRow)

Base(p) == IF state[p] = None THEN NewState ELSE state[p]

TypeInv ==
  /\ rule \in [Rule -> Definition \cup {None}]
  /\ version \in [Rule -> 0..(MaxVersion + 1)]
  /\ seeded \subseteq Default
  /\ state \in [Pair -> {None} \cup [active : BOOLEAN, count : 0..MaxCount,
                                    epoch : Nat \ {0}, mixed : BOOLEAN]]
  /\ events \in Seq(EventRow)
  /\ DOMAIN tx = Evaluator /\ \A e \in Evaluator : tx[e] = Idle \/ tx[e] = Dead \/ Busy(tx[e])
  /\ sender \in [Evaluator -> {"idle", "waits"}]
  /\ level \in [Target -> Level]
  /\ restarts \in 0..MaxRestarts
  /\ past \in [Pair -> [streak : 0..MaxCount, last : {"triggered", "recovered"}]]
  /\ life \in [Pair -> Nat]
  /\ \A r \in Rule : /\ rule[r] # None => version[r] >= 1
                     /\ r \notin seeded => version[r] <= MaxVersion
  /\ \A p \in Pair : state[p] # None => version[p[1]] >= 1

LEMMA EvaluatedWritten ==
  ASSUME NEW def \in Definition, NEW row \in AnyState, NEW v \in 0..1
  PROVE  Written(def, [old |-> row, new |-> Evaluated(def, row, v).row,
                       breached |-> Breached(def, v), status |-> Evaluated(def, row, v).status])
<1>1. /\ def.operator \in {"gte", "lte", "above"} /\ def.threshold \in Nat
      /\ def.required \in 1..MaxCount
  <2>1. def \in [by : Evaluator, baseline : BOOLEAN, targets : SUBSET Target, enabled : BOOLEAN,
                 notify : BOOLEAN, operator : {"gte", "lte", "above"}, threshold : Nat,
                 required : 1..MaxCount]
    BY AlertsAssumption
  <2>. QED
    BY <2>1
<1>2. Breached(def, v) \in BOOLEAN
  <2>1. CASE def.operator = "gte"
    BY <2>1 DEF Breached
  <2>2. CASE def.operator = "lte"
    BY <2>2 DEF Breached
  <2>3. CASE def.operator = "above"
    BY <2>3 DEF Breached
  <2>. QED
    BY <1>1, <2>1, <2>2, <2>3
<1>3. row.active \in BOOLEAN /\ row.count \in 0..MaxCount /\ MaxCount \in Nat \ {0}
  BY AlertsAssumption DEF AnyState
<1>4. CASE Breached(def, v)
  <2> DEFINE count == IF row.count < MaxCount THEN row.count + 1 ELSE MaxCount
             triggers == ~row.active /\ count >= def.required
             new == [row EXCEPT !.count = count, !.active = @ \/ triggers]
  <2>1. Evaluated(def, row, v) = [row |-> new, status |-> IF triggers THEN "triggered" ELSE "none"]
    BY <1>4 DEF Evaluated, AfterBreach
  <2>2. count \in 0..MaxCount
    BY <1>3, SMT
  <2>3. triggers \in BOOLEAN
    OBVIOUS
  <2>4. new.count = count /\ new.active = (row.active \/ triggers)
    BY DEF AnyState
  <2>5. new \in AnyState
    BY <1>3, <2>2, <2>3 DEF AnyState
  <2>. HIDE DEF count, new
  <2>6. Evaluated(def, row, v).row = new
        /\ Evaluated(def, row, v).status = IF triggers THEN "triggered" ELSE "none"
    BY <2>1
  <2>. QED
    BY <1>2, <1>4, <2>2, <2>4, <2>5, <2>6 DEF Written, count
<1>5. CASE ~Breached(def, v)
  <2> DEFINE new == [row EXCEPT !.count = 0, !.active = FALSE]
  <2>1. Evaluated(def, row, v) = [row |-> new, status |-> IF row.active THEN "recovered" ELSE "none"]
    BY <1>5 DEF Evaluated, AfterNormal
  <2>2. new \in AnyState /\ new.count = 0 /\ new.active = FALSE
    <3>1. 0 \in 0..MaxCount
      BY <1>3, SMT
    <3>. QED
      BY <3>1 DEF AnyState
  <2>. HIDE DEF new
  <2>3. Evaluated(def, row, v).row = new
        /\ Evaluated(def, row, v).status = IF row.active THEN "recovered" ELSE "none"
    BY <2>1
  <2>. QED
    BY <1>2, <1>5, <2>2, <2>3 DEF Written
<1>. QED
  BY <1>4, <1>5

-----------------------------------------------------------------------------
(* Sequences of event rows.                                                *)

LEMMA FromFunction ==
  ASSUME NEW S, NEW n \in Nat, NEW f \in [1..n -> S]
  PROVE  f \in Seq(S) /\ Len(f) = n /\ DOMAIN f = 1..n
<1>1. f \in Seq(S)
  BY SeqDef
<1>2. Len(f) \in Nat /\ DOMAIN f = 1..Len(f) /\ DOMAIN f = 1..n
  BY <1>1, LenProperties
<1>3. n <= Len(f)
  BY <1>2, SMT
<1>4. Len(f) <= n
  BY <1>2, SMT
<1>. QED
  BY <1>1, <1>2, <1>3, <1>4, SMT

LEMMA RowsOf ==
  ASSUME NEW S, NEW rows \in Seq(S)
  PROVE  /\ Len(rows) \in Nat /\ DOMAIN rows = 1..Len(rows)
         /\ \A i \in DOMAIN rows : rows[i] \in S
<1>1. Len(rows) \in Nat /\ DOMAIN rows = 1..Len(rows)
  BY LenProperties
<1>. QED
  BY <1>1, ElementOfSeq

\* The same row but for what is marked.
Alike(r, s) ==
  /\ s \in EventRow /\ s.rule = r.rule /\ s.target = r.target /\ s.status = r.status
  /\ s.by = r.by /\ s.note = r.note /\ s.sent = r.sent

\* The row at place i after the transaction of e marked what is in gone.
MarkedAt(i, gone, e, r, s) ==
  Alike(r, s) /\ s.doomed = IF i \in gone THEN r.doomed \cup {e} ELSE r.doomed

LEMMA MarkRow ==
  ASSUME NEW r \in EventRow, NEW D \in SUBSET Evaluator
  PROVE  Alike(r, [r EXCEPT !.doomed = D]) /\ [r EXCEPT !.doomed = D].doomed = D
BY Zenon DEF Alike, EventRow

LEMMA NoteRow ==
  ASSUME NEW r \in EventRow, NEW n \in {"quiet", "queued", "sending", "over"}
  PROVE  /\ [r EXCEPT !.note = n] \in EventRow
         /\ [r EXCEPT !.note = n].note = n /\ [r EXCEPT !.note = n].rule = r.rule
         /\ [r EXCEPT !.note = n].sent = r.sent /\ [r EXCEPT !.note = n].doomed = r.doomed
BY Zenon DEF EventRow

LEMMA SendRow ==
  ASSUME NEW r \in EventRow
  PROVE  LET s == [r EXCEPT !.note = "sending", !.sent = @ + 1]
         IN /\ s \in EventRow /\ s.note = "sending" /\ s.rule = r.rule
            /\ s.sent = r.sent + 1 /\ s.doomed = r.doomed
<1>1. r.sent + 1 \in Nat
  BY SMT DEF EventRow
<1>. QED
  BY <1>1, Zenon DEF EventRow

LEMMA MarkedRows ==
  ASSUME NEW rows \in Seq(EventRow), NEW e \in Evaluator, NEW gone
  PROVE  /\ Marked(rows, e, gone) \in Seq(EventRow)
         /\ Len(Marked(rows, e, gone)) = Len(rows)
         /\ DOMAIN Marked(rows, e, gone) = DOMAIN rows
         /\ \A i \in DOMAIN rows : MarkedAt(i, gone, e, rows[i], Marked(rows, e, gone)[i])
<1>1. ASSUME NEW i \in DOMAIN rows
      PROVE  /\ Marked(rows, e, gone)[i] \in EventRow
             /\ MarkedAt(i, gone, e, rows[i], Marked(rows, e, gone)[i])
  <2>0. rows[i] \in EventRow
    BY RowsOf
  <2>1. rows[i] \in EventRow /\ rows[i].doomed \cup {e} \in SUBSET Evaluator
    BY <2>0 DEF EventRow
  <2>2. CASE i \in gone
    <3>1. Marked(rows, e, gone)[i] = [rows[i] EXCEPT !.doomed = rows[i].doomed \cup {e}]
      BY <2>2 DEF Marked
    <3>. QED
      <4> DEFINE D == rows[i].doomed \cup {e}
      <4>1. Alike(rows[i], [rows[i] EXCEPT !.doomed = D]) /\ [rows[i] EXCEPT !.doomed = D].doomed = D
        BY <2>1, MarkRow
      <4>2. Alike(rows[i], Marked(rows, e, gone)[i]) /\ Marked(rows, e, gone)[i].doomed = D
        BY <3>1, <4>1
      <4>. QED
        BY <2>2, <4>2 DEF Alike, MarkedAt
  <2>3. CASE i \notin gone
    <3>1. Marked(rows, e, gone)[i] = rows[i]
      BY <2>3 DEF Marked
    <3>. QED
      BY <2>1, <2>3, <3>1 DEF Alike, MarkedAt
  <2>. QED
    BY <2>2, <2>3
<1>2. Marked(rows, e, gone) \in [1..Len(rows) -> EventRow] /\ Len(rows) \in Nat
      /\ DOMAIN rows = 1..Len(rows)
  BY <1>1, RowsOf DEF Marked
<1>. QED
  BY <1>1, <1>2, FromFunction

LEMMA UnmarkedRows ==
  ASSUME NEW rows \in Seq(EventRow), NEW e
  PROVE  /\ Unmarked(rows, e) \in Seq(EventRow)
         /\ Len(Unmarked(rows, e)) = Len(rows)
         /\ DOMAIN Unmarked(rows, e) = DOMAIN rows
         /\ \A i \in DOMAIN rows :
              /\ Alike(rows[i], Unmarked(rows, e)[i])
              /\ Unmarked(rows, e)[i].doomed = rows[i].doomed \ {e}
<1>1. ASSUME NEW i \in DOMAIN rows
      PROVE  /\ Unmarked(rows, e)[i] \in EventRow
             /\ Alike(rows[i], Unmarked(rows, e)[i])
             /\ Unmarked(rows, e)[i].doomed = rows[i].doomed \ {e}
  <2>0. rows[i] \in EventRow
    BY RowsOf
  <2>1. rows[i] \in EventRow /\ rows[i].doomed \ {e} \in SUBSET Evaluator
    BY <2>0 DEF EventRow
  <2>2. Unmarked(rows, e)[i] = [rows[i] EXCEPT !.doomed = rows[i].doomed \ {e}]
    BY DEF Unmarked
  <2> DEFINE D == rows[i].doomed \ {e}
  <2>3. Alike(rows[i], [rows[i] EXCEPT !.doomed = D]) /\ [rows[i] EXCEPT !.doomed = D].doomed = D
    BY <2>1, MarkRow
  <2>4. Alike(rows[i], Unmarked(rows, e)[i]) /\ Unmarked(rows, e)[i].doomed = D
    BY <2>2, <2>3
  <2>. QED
    BY <2>4 DEF Alike
<1>2. Unmarked(rows, e) \in [1..Len(rows) -> EventRow] /\ Len(rows) \in Nat
      /\ DOMAIN rows = 1..Len(rows)
  BY <1>1, RowsOf DEF Unmarked
<1>. QED
  BY <1>1, <1>2, FromFunction

\* What is left of a table is a table, of rows it had, in the order it had.
LEMMA SubsequenceRows ==
  ASSUME NEW S, NEW rows \in Seq(S), NEW kept \in SUBSET (DOMAIN rows),
         NEW out \in Subsequence(rows, kept)
  PROVE  /\ out \in Seq(S) /\ IsFiniteSet(kept) /\ Len(out) = Cardinality(kept)
         /\ \E f \in [DOMAIN out -> kept] :
              /\ \A k \in DOMAIN out : out[k] = rows[f[k]]
              /\ \A i, j \in DOMAIN out : i < j => f[i] < f[j]
<1>1. Len(rows) \in Nat /\ DOMAIN rows = 1..Len(rows)
  BY RowsOf
<1>2. IsFiniteSet(kept)
  <2>1. IsFiniteSet(1..Len(rows))
    BY <1>1, FS_Interval, SMT
  <2>. QED
    BY <1>1, <2>1, FS_Subset
<1>3. Cardinality(kept) \in Nat
  BY <1>2, FS_CardinalityType
<1>4. PICK f \in [1..Cardinality(kept) -> kept] :
        /\ \A i, j \in DOMAIN f : i < j => f[i] < f[j]
        /\ out = [k \in DOMAIN f |-> rows[f[k]]]
  BY DEF Subsequence
<1>5. out \in [1..Cardinality(kept) -> S]
  BY <1>4, RowsOf
<1>6. out \in Seq(S) /\ Len(out) = Cardinality(kept) /\ DOMAIN out = 1..Cardinality(kept)
  BY <1>3, <1>5, FromFunction
<1>. QED
  BY <1>2, <1>4, <1>6

-----------------------------------------------------------------------------
(* What the steps of an evaluation do.                                     *)

Others(e) == /\ DOMAIN tx' = DOMAIN tx
             /\ \A f \in Evaluator : f # e => tx'[f] = tx[f]

LEMMA IsBusy ==
  ASSUME TypeInv, NEW e \in Evaluator, tx[e].pc \in {"eval", "ready"}
  PROVE  Busy(tx[e])
<1>1. tx[e] = Idle \/ tx[e] = Dead \/ Busy(tx[e])
  BY DEF TypeInv
<1>2. Idle.pc = "idle" /\ Dead.pc = "dead"
  BY DEF Idle, Dead
<1>. QED
  BY <1>1, <1>2

LEMMA NotBusy == ~(Idle.pc \in {"eval", "ready"}) /\ ~(Dead.pc \in {"eval", "ready"}) /\ Idle.pc = "idle"
BY DEF Idle, Dead

LEMMA NoElements == DOMAIN << >> = {} /\ \A S : << >> \in Seq(S)
<1>1. DOMAIN << >> = 1..0
  BY EmptySeq, LenProperties
<1>2. 1..0 = {}
  BY SMT
<1>. QED
  BY <1>1, <1>2, EmptySeq

LEMMA BeginEffect ==
  ASSUME TypeInv, NEW e \in Evaluator, Begin(e)
  PROVE  /\ Others(e) /\ Busy(tx'[e]) /\ tx'[e].pc = "eval"
         /\ \A r \in DOMAIN tx'[e].def : /\ r \in Rule /\ Applies(e, r)
                                         /\ tx'[e].def[r] = rule[r] /\ tx'[e].version[r] = version[r]
         /\ DOMAIN tx'[e].wrote = {} /\ tx'[e].made = << >>
         /\ UNCHANGED <<rule, version, seeded, state, events, sender, level, restarts, past, life>>
<1> DEFINE rules == {r \in Rule : Applies(e, r)}
           t == [pc |-> "eval", def |-> [r \in rules |-> rule[r]],
                 version |-> [r \in rules |-> version[r]],
                 todo |-> {p \in rules \X Target : p[2] \in rule[p[1]].targets},
                 wrote |-> << >>, made |-> << >>]
<1>1. tx' = [tx EXCEPT ![e] = t]
  BY DEF Begin
<1>2. tx'[e] = t /\ Others(e)
  BY <1>1 DEF TypeInv, Others
<1>3. \A r \in rules : rule[r] \in Definition /\ version[r] \in Nat
  <2>1. \A r \in Rule : version[r] \in Nat
    BY AlertsAssumption, SMT DEF TypeInv
  <2>. QED
    BY <2>1 DEF TypeInv, Applies
<1>4. \A p \in t.todo : p \in Pair /\ p[1] \in rules
  BY DEF Pair
<1>5. DOMAIN t.wrote = {} /\ t.made = << >> /\ t.made \in Seq(EventRow)
  BY NoElements
<1>6. DOMAIN t = {"pc", "def", "version", "todo", "wrote", "made"} /\ t.pc = "eval"
  OBVIOUS
<1>7. DOMAIN t.def = rules /\ DOMAIN t.version = rules
      /\ \A r \in rules : t.def[r] = rule[r] /\ t.version[r] = version[r]
  OBVIOUS
<1>8. rules \subseteq Rule /\ \A r \in rules : Applies(e, r)
  OBVIOUS
<1>. HIDE DEF t, rules
<1>9. Busy(t)
  BY <1>3, <1>4, <1>5, <1>6, <1>7, <1>8 DEF Busy
<1>. QED
  BY <1>2, <1>5, <1>6, <1>7, <1>8, <1>9 DEF Begin

LEMMA BaseType ==
  ASSUME TypeInv, NEW p \in Pair
  PROVE  Base(p) \in AnyState
<1>1. NewState \in AnyState
  BY AlertsAssumption, SMT DEF NewState, AnyState
<1>2. state[p] # None => state[p] \in AnyState
  BY DEF TypeInv, AnyState
<1>. QED
  BY <1>1, <1>2 DEF Base

\* One target is evaluated; the event, if there is one, is about it.
LEMMA EvaluateEffect ==
  ASSUME TypeInv, NEW e \in Evaluator, Evaluate(e)
  PROVE  \E p \in tx[e].todo :
           /\ Others(e) /\ Busy(tx[e]) /\ Busy(tx'[e]) /\ tx[e].pc = "eval" /\ tx'[e].pc = "eval"
           /\ p \in Pair /\ p[1] \in DOMAIN tx[e].def
           /\ tx'[e].def = tx[e].def /\ tx'[e].version = tx[e].version
           /\ tx'[e].todo = tx[e].todo \ {p}
           /\ DOMAIN tx'[e].wrote = DOMAIN tx[e].wrote \cup {p}
           /\ tx'[e].wrote[p].old = Base(p)
           /\ \A q \in DOMAIN tx[e].wrote : q # p => tx'[e].wrote[q] = tx[e].wrote[q]
           /\ \/ tx'[e].made = tx[e].made
              \/ \E row \in EventRow :
                   /\ tx'[e].made = Append(tx[e].made, row)
                   /\ <<row.rule, row.target>> = p /\ row.status = tx'[e].wrote[p].status
                   /\ row.sent = 0 /\ row.note \in {"queued", "quiet"} /\ row.doomed = {}
           /\ UNCHANGED <<rule, version, seeded, state, events, sender, level, restarts, past, life>>
<1>1. Busy(tx[e]) /\ tx[e].pc = "eval"
  BY IsBusy DEF Evaluate
<1>2. PICK p \in tx[e].todo :
       LET def == tx[e].def[p[1]]
           base == IF state[p] = None THEN NewState ELSE state[p]
           v == Value(e, level[p[2]])
           result == Evaluated(def, base, v)
           row == [rule |-> p[1], target |-> p[2], status |-> result.status,
                   by |-> e, note |-> IF def.notify THEN "queued" ELSE "quiet",
                   sent |-> 0, doomed |-> {}]
           isNew == result.status # "none"
       IN /\ v # None
          /\ tx' = [tx EXCEPT
               ![e].todo = @ \ {p},
               ![e].wrote = [q \in DOMAIN @ \cup {p} |->
                               IF q = p THEN [old |-> base, new |-> result.row,
                                              breached |-> Breached(def, v),
                                              status |-> result.status]
                                        ELSE @[q]],
               ![e].made = IF isNew THEN Append(@, row) ELSE @]
  BY DEF Evaluate
<1>3. p \in Pair /\ p[1] \in DOMAIN tx[e].def /\ p = <<p[1], p[2]>> /\ p[1] \in Rule /\ p[2] \in Target
  BY <1>1 DEF Busy, Pair
<1> DEFINE def == tx[e].def[p[1]]
           v == Value(e, level[p[2]])
           result == Evaluated(def, Base(p), v)
           w == [old |-> Base(p), new |-> result.row, breached |-> Breached(def, v),
                 status |-> result.status]
           row == [rule |-> p[1], target |-> p[2], status |-> result.status,
                   by |-> e, note |-> IF def.notify THEN "queued" ELSE "quiet",
                   sent |-> 0, doomed |-> {}]
           wrote == [q \in DOMAIN tx[e].wrote \cup {p} |-> IF q = p THEN w ELSE tx[e].wrote[q]]
           made == IF result.status # "none" THEN Append(tx[e].made, row) ELSE tx[e].made
<1>4. Others(e) /\ DOMAIN tx'[e] = DOMAIN tx[e]
      /\ tx'[e].pc = tx[e].pc /\ tx'[e].def = tx[e].def /\ tx'[e].version = tx[e].version
      /\ tx'[e].todo = tx[e].todo \ {p} /\ tx'[e].wrote = wrote /\ tx'[e].made = made
  BY <1>1, <1>2 DEF TypeInv, Busy, Others, Base
<1>5. def \in Definition /\ v \in 0..1 /\ Base(p) \in AnyState
  <2>1. v # None
    BY <1>2
  <2>2. level[p[2]] \in Level
    BY <1>3 DEF TypeInv
  <2>3. v \in 0..1
    <3>1. v \in {0, 1}
      BY <2>1, <2>2 DEF Value, Level
    <3>. QED
      BY <3>1, SMT
  <2>. QED
    BY <1>1, <1>3, <2>3, BaseType DEF Busy
<1>6. Written(def, w)
  BY <1>5, EvaluatedWritten
<1>7. w.old = Base(p) /\ w.status = result.status
  OBVIOUS
<1>8. result.status \in {"none", "triggered", "recovered"}
  BY <1>6, <1>7 DEF Written
<1>9. result.status # "none" =>
        /\ row \in EventRow /\ <<row.rule, row.target>> = p /\ row.status = w.status
        /\ row.sent = 0 /\ row.note \in {"queued", "quiet"} /\ row.doomed = {}
  BY <1>3, <1>7, <1>8, Zenon DEF EventRow
<1>. HIDE DEF w, row, result, v, def
<1>10. tx[e].made \in Seq(EventRow)
  BY <1>1 DEF Busy
<1>11. made \in Seq(EventRow)
  BY <1>9, <1>10, AppendProperties
<1>12. DOMAIN wrote = DOMAIN tx[e].wrote \cup {p} /\ wrote[p] = w
       /\ \A q \in DOMAIN tx[e].wrote : q # p => wrote[q] = tx[e].wrote[q]
  OBVIOUS
<1>13. made = tx[e].made \/ (made = Append(tx[e].made, row) /\ result.status # "none")
  OBVIOUS
<1>. HIDE DEF wrote, made
<1>14. \A q \in DOMAIN wrote : /\ q \in Pair /\ q[1] \in DOMAIN tx[e].def
                               /\ Written(tx[e].def[q[1]], wrote[q])
  BY <1>1, <1>3, <1>6, <1>12 DEF Busy, def
<1>15. Busy(tx'[e])
  BY <1>1, <1>4, <1>11, <1>14 DEF Busy
<1>16. made = tx[e].made \/ \E r \in EventRow :
         /\ made = Append(tx[e].made, r)
         /\ <<r.rule, r.target>> = p /\ r.status = w.status
         /\ r.sent = 0 /\ r.note \in {"queued", "quiet"} /\ r.doomed = {}
  BY <1>9, <1>13
<1>. QED
  BY <1>1, <1>3, <1>4, <1>7, <1>12, <1>15, <1>16 DEF Evaluate

\* A target without a value is passed over.
LEMMA PassOverEffect ==
  ASSUME TypeInv, NEW e \in Evaluator, PassOver(e)
  PROVE  /\ Others(e) /\ Busy(tx[e]) /\ Busy(tx'[e]) /\ tx[e].pc = "eval" /\ tx'[e].pc = "eval"
         /\ tx'[e].def = tx[e].def /\ tx'[e].version = tx[e].version
         /\ tx'[e].todo \subseteq tx[e].todo
         /\ tx'[e].wrote = tx[e].wrote /\ tx'[e].made = tx[e].made
         /\ UNCHANGED <<rule, version, seeded, state, events, sender, level, restarts, past, life>>
<1>1. Busy(tx[e]) /\ tx[e].pc = "eval"
  BY IsBusy DEF PassOver
<1>2. PICK p \in tx[e].todo : tx' = [tx EXCEPT ![e].todo = @ \ {p}]
  BY DEF PassOver
<1>3. Others(e) /\ DOMAIN tx'[e] = DOMAIN tx[e]
      /\ tx'[e].pc = tx[e].pc /\ tx'[e].def = tx[e].def /\ tx'[e].version = tx[e].version
      /\ tx'[e].todo = tx[e].todo \ {p} /\ tx'[e].wrote = tx[e].wrote /\ tx'[e].made = tx[e].made
  BY <1>1, <1>2 DEF TypeInv, Busy, Others
<1>4. Busy(tx'[e])
  BY <1>1, <1>3 DEF Busy
<1>. QED
  BY <1>1, <1>3, <1>4 DEF PassOver

LEMMA BothTables ==
  ASSUME TypeInv, NEW e \in Evaluator, Busy(tx[e])
  PROVE  LET rows == events \o tx[e].made
         IN /\ rows \in Seq(EventRow) /\ Len(rows) = Len(events) + Len(tx[e].made)
            /\ Len(events) \in Nat /\ Len(tx[e].made) \in Nat
            /\ DOMAIN rows = 1..Len(rows)
            /\ DOMAIN events = 1..Len(events) /\ DOMAIN tx[e].made = 1..Len(tx[e].made)
            /\ \A i \in DOMAIN events : i \in DOMAIN rows /\ rows[i] = events[i]
            /\ \A i \in DOMAIN tx[e].made : /\ Len(events) + i \in DOMAIN rows
                                            /\ rows[Len(events) + i] = tx[e].made[i]
            /\ \A i \in DOMAIN rows : i \in DOMAIN events \/ i - Len(events) \in DOMAIN tx[e].made
<1> DEFINE made == tx[e].made
           rows == events \o made
<1>1. events \in Seq(EventRow) /\ made \in Seq(EventRow)
  BY DEF TypeInv, Busy
<1>. HIDE DEF made
<1>2. /\ rows \in Seq(EventRow) /\ Len(rows) = Len(events) + Len(made)
      /\ \A i \in 1..Len(events) + Len(made) : rows[i] = IF i <= Len(events) THEN events[i]
                                                         ELSE made[i - Len(events)]
  BY <1>1, ConcatProperties
<1>3. /\ Len(events) \in Nat /\ Len(made) \in Nat
      /\ DOMAIN events = 1..Len(events) /\ DOMAIN made = 1..Len(made)
  BY <1>1, RowsOf
<1>4. DOMAIN rows = 1..Len(rows)
  BY <1>2, RowsOf
<1>. HIDE DEF rows
<1>5. ASSUME NEW i \in DOMAIN events PROVE i \in DOMAIN rows /\ rows[i] = events[i]
  <2>1. i \in 1..Len(events) + Len(made) /\ i <= Len(events)
    BY <1>3, <1>5, SMT
  <2>. QED
    BY <1>2, <1>4, <2>1
<1>6. ASSUME NEW i \in DOMAIN made
      PROVE  Len(events) + i \in DOMAIN rows /\ rows[Len(events) + i] = made[i]
  <2>1. Len(events) + i \in 1..Len(events) + Len(made) /\ ~(Len(events) + i <= Len(events))
        /\ (Len(events) + i) - Len(events) = i
    BY <1>3, <1>6, SMT
  <2>. QED
    BY <1>2, <1>4, <2>1
<1>7. ASSUME NEW i \in DOMAIN rows PROVE i \in DOMAIN events \/ i - Len(events) \in DOMAIN made
  BY <1>2, <1>3, <1>4, <1>7, SMT
<1>. QED
  BY <1>2, <1>3, <1>4, <1>5, <1>6, <1>7 DEF rows, made

\* A clean-up marks rows and changes nothing else of them.
LEMMA CleanupEffect ==
  ASSUME TypeInv, NEW e \in Evaluator, Cleanup(e)
  PROVE  /\ Others(e) /\ Busy(tx[e]) /\ Busy(tx'[e]) /\ tx'[e].pc = "ready"
         /\ tx'[e].def = tx[e].def /\ tx'[e].version = tx[e].version
         /\ tx'[e].todo = tx[e].todo /\ tx'[e].wrote = tx[e].wrote
         /\ events' \in Seq(EventRow) /\ Len(events') = Len(events)
         /\ DOMAIN events' = DOMAIN events /\ DOMAIN tx'[e].made = DOMAIN tx[e].made
         /\ Len(tx'[e].made) = Len(tx[e].made)
         /\ \E old \in 0..Len(events), hourly \in BOOLEAN : \E gone :
              /\ gone = IF tx[e].made # << >> \/ hourly THEN Gone(old, events \o tx[e].made) ELSE {}
              /\ \A i \in DOMAIN events : MarkedAt(i, gone, e, events[i], events'[i])
              /\ \A i \in DOMAIN tx[e].made :
                   MarkedAt(Len(events) + i, gone, e, tx[e].made[i], tx'[e].made[i])
         /\ UNCHANGED <<rule, version, seeded, state, sender, level, restarts, past, life>>
<1>1. Busy(tx[e]) /\ tx[e].pc = "eval"
  BY IsBusy DEF Cleanup
<1> DEFINE made == tx[e].made
           rows == events \o made
           gone(old, hourly) == IF made # << >> \/ hourly THEN Gone(old, rows) ELSE {}
<1>2. PICK hourly \in BOOLEAN, old \in 0..Len(events) :
        LET all == Marked(rows, e, gone(old, hourly))
        IN /\ events' = SubSeq(all, 1, Len(events))
           /\ tx' = [tx EXCEPT ![e].pc = "ready", ![e].made = SubSeq(all, Len(events) + 1, Len(all))]
  BY DEF Cleanup
<1> DEFINE g == gone(old, hourly)
           all == Marked(rows, e, g)
           last == SubSeq(all, Len(events) + 1, Len(all))
<1>3. /\ rows \in Seq(EventRow) /\ Len(rows) = Len(events) + Len(made)
      /\ Len(events) \in Nat /\ Len(made) \in Nat
      /\ DOMAIN rows = 1..Len(rows)
      /\ DOMAIN events = 1..Len(events) /\ DOMAIN made = 1..Len(made)
      /\ \A i \in DOMAIN events : i \in DOMAIN rows /\ rows[i] = events[i]
      /\ \A i \in DOMAIN made : Len(events) + i \in DOMAIN rows /\ rows[Len(events) + i] = made[i]
  BY <1>1, BothTables
<1>. events' = SubSeq(all, 1, Len(events)) /\ tx' = [tx EXCEPT ![e].pc = "ready", ![e].made = last]
  BY <1>2
<1>4. Others(e) /\ DOMAIN tx'[e] = DOMAIN tx[e] /\ tx'[e].pc = "ready"
      /\ tx'[e].def = tx[e].def /\ tx'[e].version = tx[e].version
      /\ tx'[e].todo = tx[e].todo /\ tx'[e].wrote = tx[e].wrote /\ tx'[e].made = last
  BY <1>1 DEF TypeInv, Busy, Others
<1>. HIDE DEF g, gone, made, rows
<1>5. /\ all \in Seq(EventRow) /\ Len(all) = Len(rows)
      /\ \A i \in DOMAIN rows : MarkedAt(i, g, e, rows[i], all[i])
  BY <1>3, MarkedRows
<1>6. \A i \in DOMAIN rows : all[i] \in EventRow
  BY <1>5 DEF Alike, MarkedAt
<1>. HIDE DEF all
<1>7. /\ events' \in Seq(EventRow) /\ Len(events') = Len(events)
      /\ \A i \in DOMAIN events : events'[i] = all[i]
  <2>1. 1 \in Int /\ Len(events) \in Int /\ \A i \in 1..Len(events) : all[i] \in EventRow
    BY <1>3, <1>6, SMT
  <2>2. /\ SubSeq(all, 1, Len(events)) \in Seq(EventRow)
        /\ Len(SubSeq(all, 1, Len(events))) = IF 1 <= Len(events) THEN Len(events) - 1 + 1 ELSE 0
        /\ \A i \in 1..(Len(events) - 1 + 1) : SubSeq(all, 1, Len(events))[i] = all[1 + i - 1]
    BY <2>1, SubSeqProperties
  <2>3. (IF 1 <= Len(events) THEN Len(events) - 1 + 1 ELSE 0) = Len(events)
        /\ Len(events) - 1 + 1 = Len(events)
    BY <1>3, SMT
  <2>4. \A i \in 1..Len(events) : 1 + i - 1 = i
    BY <1>3, SMT
  <2>. QED
    BY <1>3, <2>2, <2>3, <2>4
<1>8. /\ last \in Seq(EventRow) /\ Len(last) = Len(made)
      /\ \A i \in DOMAIN made : last[i] = all[Len(events) + i]
  <2>1. Len(events) + 1 \in Int /\ Len(all) \in Int /\ Len(all) = Len(events) + Len(made)
    BY <1>3, <1>5, SMT
  <2>2. \A i \in (Len(events) + 1)..Len(all) : all[i] \in EventRow
    BY <1>3, <1>6, <2>1, SMT
  <2>3. /\ last \in Seq(EventRow)
        /\ Len(last) = IF Len(events) + 1 <= Len(all) THEN Len(all) - (Len(events) + 1) + 1 ELSE 0
        /\ \A i \in 1..(Len(all) - (Len(events) + 1) + 1) : last[i] = all[(Len(events) + 1) + i - 1]
    BY <2>1, <2>2, SubSeqProperties
  <2>4. /\ (IF Len(events) + 1 <= Len(all) THEN Len(all) - (Len(events) + 1) + 1 ELSE 0) = Len(made)
        /\ Len(all) - (Len(events) + 1) + 1 = Len(made)
    BY <1>3, <2>1, SMT
  <2>5. \A i \in 1..Len(made) : (Len(events) + 1) + i - 1 = Len(events) + i
    BY <1>3, SMT
  <2>. QED
    BY <1>3, <2>3, <2>4, <2>5
<1>. HIDE DEF last
<1>9. DOMAIN events' = DOMAIN events /\ DOMAIN last = DOMAIN made
  BY <1>3, <1>7, <1>8, RowsOf
<1>10. Busy(tx'[e])
  BY <1>1, <1>4, <1>8 DEF Busy
<1>11. \A i \in DOMAIN events : MarkedAt(i, g, e, events[i], events'[i])
  BY <1>3, <1>5, <1>7
<1>12. \A i \in DOMAIN made : MarkedAt(Len(events) + i, g, e, made[i], tx'[e].made[i])
  BY <1>3, <1>4, <1>5, <1>8
<1>13. UNCHANGED <<rule, version, seeded, state, sender, level, restarts, past, life>>
  BY DEF Cleanup
<1>14. g = IF made # << >> \/ hourly THEN Gone(old, rows) ELSE {}
  BY DEF g, gone
<1>. QED
  BY <1>1, <1>4, <1>7, <1>8, <1>9, <1>10, <1>11, <1>12, <1>13, <1>14 DEF made, rows

\* What is committed was in the table or was made, and the rest of the transaction.
LEMMA CommitEffect ==
  ASSUME TypeInv, NEW e \in Evaluator, Commit(e)
  PROVE  /\ Others(e) /\ Busy(tx[e]) /\ tx'[e] = Idle /\ tx[e].pc = "ready" /\ Storable(e)
         /\ events' \in Seq(EventRow)
         /\ \A k \in DOMAIN events' : \/ \E i \in DOMAIN events : events'[k] = events[i]
                                      \/ \E i \in DOMAIN tx[e].made : events'[k] = tx[e].made[i]
         /\ DOMAIN tx[e].wrote \subseteq Pair
         /\ \A p \in Pair : /\ p \in DOMAIN tx[e].wrote => state'[p] = Stored(e, p)
                            /\ p \notin DOMAIN tx[e].wrote => state'[p] = state[p]
         /\ \A p \in Pair :
              past'[p] = IF p \in DOMAIN tx[e].wrote /\ tx[e].version[p[1]] = version[p[1]]
                           THEN PastAfter(e, p) ELSE past[p]
         /\ DOMAIN state' = Pair /\ DOMAIN past' = Pair
         /\ UNCHANGED <<rule, version, seeded, sender, level, restarts, life>>
<1>1. Busy(tx[e]) /\ tx[e].pc = "ready"
  BY IsBusy DEF Commit
<1> DEFINE rows == events \o tx[e].made
           kept == {i \in DOMAIN rows : e \notin rows[i].doomed}
<1>2. /\ rows \in Seq(EventRow)
      /\ \A i \in DOMAIN events : i \in DOMAIN rows /\ rows[i] = events[i]
      /\ \A i \in DOMAIN tx[e].made : rows[Len(events) + i] = tx[e].made[i]
      /\ \A i \in DOMAIN rows : i \in DOMAIN events \/ i - Len(events) \in DOMAIN tx[e].made
      /\ Len(events) \in Nat /\ DOMAIN rows = 1..Len(rows) /\ Len(rows) \in Nat
  BY <1>1, BothTables, RowsOf
<1>3. events' \in Subsequence(rows, kept) /\ kept \in SUBSET (DOMAIN rows)
  BY DEF Commit
<1>. HIDE DEF rows, kept
<1>4. events' \in Seq(EventRow)
      /\ \E f \in [DOMAIN events' -> kept] : \A k \in DOMAIN events' : events'[k] = rows[f[k]]
  <2>1. rows \in Seq(EventRow)
    BY <1>2
  <2>2. events' \in Seq(EventRow)
    BY <2>1, <1>3, SubsequenceRows
  <2>3. \E f \in [DOMAIN events' -> kept] : 
              /\ \A k \in DOMAIN events' : events'[k] = rows[f[k]]
              /\ \A i, j \in DOMAIN events' : i < j => f[i] < f[j]
    BY <2>1, <1>3, SubsequenceRows
  <2>. QED
    BY <2>2, <2>3
<1>5. ASSUME NEW i \in DOMAIN rows
      PROVE  \/ \E j \in DOMAIN events : rows[i] = events[j]
             \/ \E j \in DOMAIN tx[e].made : rows[i] = tx[e].made[j]
  <2>1. i = Len(events) + (i - Len(events))
    BY <1>2, <1>5, SMT
  <2>. QED
    BY <1>2, <1>5, <2>1
<1>6. DOMAIN tx[e].wrote \subseteq Pair
  BY <1>1 DEF Busy
<1>7. Others(e) /\ tx'[e] = Idle
  BY DEF Commit, Others, TypeInv
<1>. HIDE DEF rows
<1>8. \A k \in DOMAIN events' : \/ \E i \in DOMAIN events : events'[k] = events[i]
                                \/ \E i \in DOMAIN tx[e].made : events'[k] = tx[e].made[i]
  <2>1. \A k \in DOMAIN events' : \E i \in DOMAIN rows : events'[k] = rows[i]
    BY <1>3, <1>4
  <2>. QED
    BY <1>5, <2>1
<1>9. /\ \A p \in Pair : /\ p \in DOMAIN tx[e].wrote => state'[p] = Stored(e, p)
                         /\ p \notin DOMAIN tx[e].wrote => state'[p] = state[p]
      /\ \A p \in Pair :
           past'[p] = IF p \in DOMAIN tx[e].wrote /\ tx[e].version[p[1]] = version[p[1]]
                        THEN PastAfter(e, p) ELSE past[p]
      /\ DOMAIN state' = Pair /\ DOMAIN past' = Pair
  BY DEF Commit
<1>. QED
  BY <1>1, <1>4, <1>6, <1>7, <1>8, <1>9 DEF Commit

LEMMA RefusedEffect ==
  ASSUME TypeInv, NEW e \in Evaluator, Refused(e)
  PROVE  /\ Others(e) /\ tx'[e] \in {Idle, Dead} /\ ~Storable(e)
         /\ events' \in Seq(EventRow) /\ Len(events') = Len(events)
         /\ DOMAIN events' = DOMAIN events
         /\ \A i \in DOMAIN events : /\ Alike(events[i], events'[i])
                                     /\ events'[i].doomed = events[i].doomed \ {e}
         /\ UNCHANGED <<rule, version, seeded, state, sender, level, restarts, past, life>>
<1>1. Others(e) /\ tx'[e] \in {Idle, Dead}
  BY DEF Refused, Others, TypeInv
<1>2. events \in Seq(EventRow) /\ events' = Unmarked(events, e)
  BY DEF Refused, TypeInv
<1>. QED
  BY <1>1, <1>2, UnmarkedRows DEF Refused

\* The messages of an evaluator: one event's note changes, or with a lost row all of its.
NoteStep ==
  /\ events' \in Seq(EventRow) /\ Len(events') = Len(events) /\ DOMAIN events' = DOMAIN events
  /\ \A i \in DOMAIN events :
       /\ events'[i].rule = events[i].rule /\ events'[i].doomed = events[i].doomed
       /\ \/ events'[i].note = events[i].note /\ events'[i].sent = events[i].sent
          \/ events'[i].note = "over" /\ events'[i].sent = events[i].sent /\ events[i].note # "quiet"
          \/ events[i].note = "queued" /\ events'[i].note = "sending"
             /\ events'[i].sent = events[i].sent + 1
  /\ UNCHANGED <<rule, version, seeded, state, level, restarts, past, life>>
  /\ sender' \in [Evaluator -> {"idle", "waits"}]

LEMMA OneNoted ==
  ASSUME TypeInv, NEW i \in DOMAIN events, NEW r \in EventRow, events' = [events EXCEPT ![i] = r]
  PROVE  /\ events' \in Seq(EventRow) /\ Len(events') = Len(events) /\ DOMAIN events' = DOMAIN events
         /\ events'[i] = r /\ \A j \in DOMAIN events : j # i => events'[j] = events[j]
<1>1. events \in Seq(EventRow)
  BY DEF TypeInv
<1>2. i \in 1..Len(events) /\ DOMAIN events = 1..Len(events)
  BY <1>1, RowsOf
<1>3. /\ events' \in Seq(EventRow) /\ Len(events') = Len(events)
      /\ \A j \in 1..Len(events) : events'[j] = IF j = i THEN r ELSE events[j]
  BY <1>1, <1>2, ExceptSeq
<1>4. DOMAIN events' = 1..Len(events')
  BY <1>3, RowsOf
<1>. QED
  BY <1>2, <1>3, <1>4

LEMMA SenderEffect ==
  ASSUME TypeInv, NEW e \in Evaluator,
         SkipNotification(e) \/ StartSending(e) \/ FinishSending(e) \/ LoseSender(e)
  PROVE  NoteStep /\ DOMAIN tx' = Evaluator /\ \A f \in Evaluator : tx'[f] = tx[f] \/ tx'[f] = Dead
<1>1. events \in Seq(EventRow) /\ Len(events) \in Nat /\ DOMAIN events = 1..Len(events)
      /\ \A i \in DOMAIN events : events[i] \in EventRow
  <2>1. events \in Seq(EventRow)
    BY DEF TypeInv
  <2>. QED
    BY <2>1, RowsOf
<1>2. sender' \in [Evaluator -> {"idle", "waits"}]
  BY DEF SkipNotification, StartSending, FinishSending, LoseSender, TypeInv
<1>3. UNCHANGED <<rule, version, seeded, state, level, restarts, past, life>>
  BY DEF SkipNotification, StartSending, FinishSending, LoseSender
<1>4. DOMAIN tx' = Evaluator /\ \A f \in Evaluator : tx'[f] = tx[f] \/ tx'[f] = Dead
  BY DEF SkipNotification, StartSending, FinishSending, LoseSender, TypeInv
<1>5. ASSUME NEW i \in DOMAIN events, events[i].note \in {"queued", "sending"},
             events' = [events EXCEPT ![i].note = "over"]
      PROVE  NoteStep
  <2> DEFINE r == [events[i] EXCEPT !.note = "over"]
  <2>1. /\ r \in EventRow /\ r.note = "over" /\ r.rule = events[i].rule
        /\ r.sent = events[i].sent /\ r.doomed = events[i].doomed
    BY <1>1, NoteRow
  <2>2. events' = [events EXCEPT ![i] = r]
    BY <1>5
  <2>. HIDE DEF r
  <2>3. /\ events' \in Seq(EventRow) /\ Len(events') = Len(events) /\ DOMAIN events' = DOMAIN events
        /\ events'[i] = r /\ \A j \in DOMAIN events : j # i => events'[j] = events[j]
    BY <2>1, <2>2, OneNoted
  <2>. QED
    BY <1>2, <1>3, <1>5, <2>1, <2>3 DEF NoteStep
<1>6. CASE SkipNotification(e)
  <2>1. PICK i \in First(e, "queued") : events' = [events EXCEPT ![i].note = "over"]
    BY <1>6 DEF SkipNotification
  <2>. QED
    BY <1>4, <1>5, <2>1 DEF First
<1>7. CASE FinishSending(e)
  <2>1. PICK i \in First(e, "sending") : events' = [events EXCEPT ![i].note = "over"]
    BY <1>7 DEF FinishSending
  <2>. QED
    BY <1>4, <1>5, <2>1 DEF First
<1>8. CASE StartSending(e)
  <2>1. PICK i \in First(e, "queued") :
          events' = [events EXCEPT ![i].note = "sending", ![i].sent = @ + 1]
    BY <1>8 DEF StartSending
  <2>2. i \in DOMAIN events /\ events[i].note = "queued"
    BY DEF First
  <2> DEFINE r == [events[i] EXCEPT !.note = "sending", !.sent = @ + 1]
  <2>3. /\ r \in EventRow /\ r.note = "sending" /\ r.rule = events[i].rule
        /\ r.sent = events[i].sent + 1 /\ r.doomed = events[i].doomed
    BY <1>1, <2>2, SendRow
  <2>4. events' = [events EXCEPT ![i] = r]
    BY <1>1, <2>1, <2>2 DEF EventRow
  <2>. HIDE DEF r
  <2>5. /\ events' \in Seq(EventRow) /\ Len(events') = Len(events) /\ DOMAIN events' = DOMAIN events
        /\ events'[i] = r /\ \A j \in DOMAIN events : j # i => events'[j] = events[j]
    BY <2>2, <2>3, <2>4, OneNoted
  <2>. QED
    BY <1>2, <1>3, <1>4, <2>2, <2>3, <2>5 DEF NoteStep
<1>9. CASE LoseSender(e)
  <2>1. events' = Dropped(e)
    BY <1>9 DEF LoseSender
  <2>2. ASSUME NEW i \in DOMAIN events
        PROVE  /\ events'[i] \in EventRow
               /\ events'[i].rule = events[i].rule /\ events'[i].doomed = events[i].doomed
               /\ events'[i].sent = events[i].sent
               /\ events'[i].note = events[i].note \/ (events'[i].note = "over" /\ events[i].note # "quiet")
    <3>1. CASE events[i].by = e /\ events[i].note # "quiet"
      <4> DEFINE r == [events[i] EXCEPT !.note = "over"]
      <4>1. events'[i] = r
        BY <2>1, <3>1 DEF Dropped
      <4>2. /\ r \in EventRow /\ r.note = "over" /\ r.rule = events[i].rule
            /\ r.sent = events[i].sent /\ r.doomed = events[i].doomed
        BY <1>1, NoteRow
      <4>. QED
        BY <3>1, <4>1, <4>2
    <3>2. CASE ~(events[i].by = e /\ events[i].note # "quiet")
      <4>1. events'[i] = events[i]
        BY <2>1, <3>2 DEF Dropped
      <4>. QED
        BY <1>1, <4>1
    <3>. QED
      BY <3>1, <3>2
  <2>3. events' \in [1..Len(events) -> EventRow]
    BY <1>1, <2>1, <2>2 DEF Dropped
  <2>4. events' \in Seq(EventRow) /\ Len(events') = Len(events) /\ DOMAIN events' = DOMAIN events
    BY <1>1, <2>3, FromFunction
  <2>. QED
    BY <1>2, <1>3, <1>4, <2>2, <2>4 DEF NoteStep
<1>. QED
  BY <1>6, <1>7, <1>8, <1>9

LEMMA DeleteEffect ==
  ASSUME TypeInv, NEW r \in Rule, DeleteRule(r)
  PROVE  /\ events' \in Seq(EventRow)
         /\ \A k \in DOMAIN events' : \E i \in DOMAIN events : events'[k] = events[i] /\ events[i].rule # r
         /\ rule' = [rule EXCEPT ![r] = None] /\ rule[r] # None
         /\ UNCHANGED <<version, seeded, tx, sender, level, restarts>>
<1> DEFINE kept == {i \in DOMAIN events : events[i].rule # r}
<1>1. events \in Seq(EventRow) /\ kept \in SUBSET (DOMAIN events) /\ events' \in Subsequence(events, kept)
  BY DEF TypeInv, DeleteRule
<1>2. \A i \in kept : i \in DOMAIN events /\ events[i].rule # r
  OBVIOUS
<1>. HIDE DEF kept
<1>3. events' \in Seq(EventRow)
  BY <1>1, SubsequenceRows
<1>4. \E f \in [DOMAIN events' -> kept] :
         /\ \A k \in DOMAIN events' : events'[k] = events[f[k]]
         /\ \A i, j \in DOMAIN events' : i < j => f[i] < f[j]
  BY <1>1, SubsequenceRows
<1>5. \A k \in DOMAIN events' : \E i \in kept : events'[k] = events[i]
  BY <1>4
<1>. QED
  BY <1>2, <1>3, <1>5 DEF DeleteRule

\* A restart: nobody evaluates or sends, and events keep what they say.
LEMMA RestartEffect ==
  ASSUME TypeInv, Restart
  PROVE  /\ DOMAIN tx' = Evaluator /\ \A e \in Evaluator : tx'[e] = Idle
         /\ events' \in Seq(EventRow) /\ Len(events') = Len(events) /\ DOMAIN events' = DOMAIN events
         /\ \A i \in DOMAIN events :
              /\ events'[i].rule = events[i].rule /\ events'[i].sent = events[i].sent
              /\ IF events[i].note = "quiet" THEN events'[i].note = "quiet" ELSE events'[i].note = "over"
<1>1. events \in Seq(EventRow) /\ Len(events) \in Nat /\ DOMAIN events = 1..Len(events)
      /\ \A i \in DOMAIN events : events[i] \in EventRow
  <2>1. events \in Seq(EventRow)
    BY DEF TypeInv
  <2>. QED
    BY <2>1, RowsOf
<1>2. ASSUME NEW i \in DOMAIN events
      PROVE  /\ events'[i] \in EventRow
             /\ events'[i].rule = events[i].rule /\ events'[i].sent = events[i].sent
             /\ IF events[i].note = "quiet" THEN events'[i].note = "quiet" ELSE events'[i].note = "over"
  <2> DEFINE n == IF events[i].note = "quiet" THEN events[i].note ELSE "over"
             r == [events[i] EXCEPT !.doomed = {}, !.note = n]
  <2>1. events'[i] = r
    BY <1>1 DEF Restart, EventRow
  <2>2. n \in {"quiet", "queued", "sending", "over"}
    BY <1>1 DEF EventRow
  <2>3. r \in EventRow /\ r.rule = events[i].rule /\ r.sent = events[i].sent /\ r.note = n
    BY <1>1, <2>2, Zenon DEF EventRow
  <2>. QED
    BY <2>1, <2>3
<1>3. events' \in [1..Len(events) -> EventRow]
  BY <1>1, <1>2 DEF Restart
<1>4. events' \in Seq(EventRow) /\ Len(events') = Len(events) /\ DOMAIN events' = DOMAIN events
  BY <1>1, <1>3, FromFunction
<1>. QED
  BY <1>2, <1>4 DEF Restart

-----------------------------------------------------------------------------
(* Types hold.                                                             *)

LEMMA TypeInvImplies == TypeInv => TypeOK
<1> SUFFICES ASSUME TypeInv PROVE TypeOK
  OBVIOUS
<1>1. \A e \in Evaluator : tx[e].pc \in {"idle", "dead", "eval", "ready"}
  BY DEF TypeInv, Idle, Dead, Busy
<1>. QED
  BY <1>1 DEF TypeInv, TypeOK

LEMMA TypeInit == Init => TypeInv
<1> SUFFICES ASSUME Init PROVE TypeInv
  OBVIOUS
<1>1. PICK d \in [seeded -> {x \in Definition : x.enabled}] :
        rule = [r \in Rule |-> IF r \in seeded THEN d[r] ELSE None]
  BY DEF Init
<1>2. rule \in [Rule -> Definition \cup {None}] /\ seeded \subseteq Default
  BY <1>1 DEF Init
<1>3. version \in [Rule -> 0..(MaxVersion + 1)] /\ 1 <= MaxVersion /\ 0 <= MaxVersion
  BY AlertsAssumption, SMT DEF Init
<1>4. \A r \in Rule : /\ rule[r] # None => version[r] >= 1
                      /\ r \notin seeded => version[r] <= MaxVersion
  BY <1>1, <1>3, SMT DEF Init
<1>5. events \in Seq(EventRow)
  BY NoElements DEF Init
<1>6. past \in [Pair -> [streak : 0..MaxCount, last : {"triggered", "recovered"}]]
  <2>1. 0 \in 0..MaxCount
    BY AlertsAssumption, SMT
  <2>2. NoPast \in [streak : 0..MaxCount, last : {"triggered", "recovered"}]
    BY <2>1 DEF NoPast
  <2>. QED
    BY <2>2 DEF Init
<1>7. level \in [Target -> Level] /\ restarts \in 0..MaxRestarts /\ life \in [Pair -> Nat]
  BY AlertsAssumption, SMT DEF Init, Level
<1>8. DOMAIN tx = Evaluator /\ \A e \in Evaluator : tx[e] = Idle
  BY DEF Init
<1>9. state \in [Pair -> {None}] /\ \A p \in Pair : state[p] = None
  BY DEF Init
<1>10. sender \in [Evaluator -> {"idle", "waits"}]
  BY DEF Init
<1>. QED
  BY <1>2, <1>3, <1>4, <1>5, <1>6, <1>7, <1>8, <1>9, <1>10 DEF TypeInv

StateRow == [active : BOOLEAN, count : 0..MaxCount, epoch : Nat \ {0}, mixed : BOOLEAN]
PastRow == [streak : 0..MaxCount, last : {"triggered", "recovered"}]

\* What a committed evaluation leaves of a target.
LEMMA StoredType ==
  ASSUME TypeInv, NEW e \in Evaluator, Busy(tx[e]), Storable(e), NEW p \in DOMAIN tx[e].wrote
  PROVE  /\ Stored(e, p) \in StateRow /\ PastAfter(e, p) \in PastRow
         /\ version[p[1]] >= 1 /\ (rule[p[1]] # None \/ state[p] # None)
<1>1. p \in Pair /\ p[1] \in DOMAIN tx[e].def /\ Written(tx[e].def[p[1]], tx[e].wrote[p])
  BY DEF Busy
<1>2. p[1] \in Rule
  BY <1>1 DEF Pair
<1> DEFINE w == tx[e].wrote[p]
           now == IF state[p] = None THEN NewState ELSE state[p]
<1>3. w.old \in AnyState /\ w.new \in AnyState /\ w.status \in {"none", "triggered", "recovered"}
  BY <1>1 DEF Written
<1>4. now \in AnyState
  BY <1>1, BaseType DEF Base
<1>5. version[p[1]] >= 1 /\ (rule[p[1]] # None \/ state[p] # None)
  BY <1>1, <1>2 DEF Storable, TypeInv
<1>6. /\ state[p] # None => state[p].epoch \in Nat \ {0}
      /\ life[p] + 1 \in Nat \ {0}
  <2>1. life[p] \in Nat
    BY <1>1 DEF TypeInv
  <2>2. life[p] + 1 \in Nat \ {0}
    BY <2>1, SMT
  <2>3. state[p] # None => state[p] \in [active : BOOLEAN, count : 0..MaxCount,
                                         epoch : Nat \ {0}, mixed : BOOLEAN]
    BY <1>1 DEF TypeInv
  <2>. QED
    BY <2>2, <2>3
<1>7. past[p] \in PastRow
  BY <1>1 DEF TypeInv, PastRow
<1>. HIDE DEF w, now
<1>8. Stored(e, p) \in StateRow
  <2> DEFINE a == IF w.new.active # w.old.active THEN w.new.active ELSE now.active
             c == IF w.new.count # w.old.count THEN w.new.count ELSE now.count
             k == IF state[p] = None THEN life[p] + 1 ELSE now.epoch
             m == now.mixed \/ tx[e].version[p[1]] # version[p[1]]
  <2>1. a \in BOOLEAN /\ c \in 0..MaxCount /\ m \in BOOLEAN
    BY <1>3, <1>4 DEF AnyState
  <2>2. Stored(e, p) = [active |-> a, count |-> c, epoch |-> k, mixed |-> m]
    BY DEF Stored, w, now
  <2>3. k \in Nat \ {0}
    BY <1>6 DEF now
  <2>. HIDE DEF a, c, k, m
  <2>. QED
    BY <2>1, <2>2, <2>3 DEF StateRow
<1>9. PastAfter(e, p) \in PastRow
  <2> DEFINE k == IF ~w.breached THEN 0
                  ELSE IF past[p].streak < MaxCount THEN past[p].streak + 1 ELSE MaxCount
             l == IF w.status = "none" THEN past[p].last ELSE w.status
  <2>1. l \in {"triggered", "recovered"}
    BY <1>3, <1>7 DEF PastRow
  <2>2. past[p].streak \in 0..MaxCount /\ MaxCount \in Nat
    BY <1>7, AlertsAssumption DEF PastRow
  <2>3. w.breached \in BOOLEAN
    BY <1>1 DEF Written, w
  <2>4. k \in 0..MaxCount
    <3>1. CASE ~w.breached
      BY <2>2, <3>1, SMT
    <3>2. CASE w.breached /\ past[p].streak < MaxCount
      <4>1. k = past[p].streak + 1
        BY <3>2
      <4>. QED
        BY <2>2, <3>2, <4>1, SMT
    <3>3. CASE w.breached /\ ~(past[p].streak < MaxCount)
      <4>1. k = MaxCount
        BY <3>3
      <4>. QED
        BY <2>2, <4>1, SMT
    <3>. QED
      BY <2>3, <3>1, <3>2, <3>3
  <2>5. PastAfter(e, p) = [streak |-> k, last |-> l]
    BY DEF PastAfter, w
  <2>. HIDE DEF k, l
  <2>. QED
    BY <2>1, <2>4, <2>5 DEF PastRow
<1>. QED
  BY <1>5, <1>8, <1>9

\* Rules and versions after an edit.
LEMMA RuleTypes ==
  ASSUME TypeInv, NEW r \in Rule, CreateRule(r) \/ UpdateRule(r) \/ DeleteRule(r)
  PROVE  /\ rule' \in [Rule -> Definition \cup {None}]
         /\ version' \in [Rule -> 0..(MaxVersion + 1)]
         /\ \A q \in Rule : /\ rule'[q] # None => version'[q] >= 1
                            /\ q \notin seeded => version'[q] <= MaxVersion
                            /\ version'[q] >= version[q]
         /\ \A q \in Rule : q # r => rule'[q] = rule[q] /\ version'[q] = version[q]
         /\ version'[r] = version[r] + 1 \/ (version' = version /\ rule'[r] = None /\ DeleteRule(r))
         /\ DeleteRule(r) \/ rule'[r] # None
<1>1. /\ version[r] \in Nat /\ MaxVersion \in Nat \ {0} /\ \A q \in Rule : version[q] \in Nat
      /\ version[r] \in 0..(MaxVersion + 1)
  BY AlertsAssumption, SMT DEF TypeInv
<1>2. CASE CreateRule(r)
  <2>1. PICK d \in Definition : rule' = [rule EXCEPT ![r] = d]
    BY <1>2 DEF CreateRule
  <2>2. version' = [version EXCEPT ![r] = 1] /\ version[r] = 0
    BY <1>2 DEF CreateRule
  <2>3. d # None
    BY AlertsAssumption
  <2>4. rule' \in [Rule -> Definition \cup {None}] /\ rule'[r] = d /\ \A q \in Rule : q # r => rule'[q] = rule[q]
    BY <2>1 DEF TypeInv
  <2>5. version'[r] = 1 /\ \A q \in Rule : q # r => version'[q] = version[q]
    BY <2>2 DEF TypeInv
  <2>6. version' \in [Rule -> 0..(MaxVersion + 1)]
    BY <1>1, <2>2, SMT DEF TypeInv
  <2>7. \A q \in Rule : /\ rule'[q] # None => version'[q] >= 1
                        /\ q \notin seeded => version'[q] <= MaxVersion
                        /\ version'[q] >= version[q]
    BY <1>1, <2>2, <2>4, <2>5, SMT DEF TypeInv
  <2>. QED
    BY <2>2, <2>3, <2>4, <2>5, <2>6, <2>7, SMT
<1>3. CASE UpdateRule(r)
  <2>1. PICK d \in Definition : rule' = [rule EXCEPT ![r] = d]
    BY <1>3 DEF UpdateRule
  <2>2. version' = [version EXCEPT ![r] = version[r] + 1] /\ version[r] < MaxVersion
    BY <1>3 DEF UpdateRule
  <2>3. d # None
    BY AlertsAssumption
  <2>4. rule' \in [Rule -> Definition \cup {None}] /\ rule'[r] = d /\ \A q \in Rule : q # r => rule'[q] = rule[q]
    BY <2>1 DEF TypeInv
  <2>5. version'[r] = version[r] + 1 /\ \A q \in Rule : q # r => version'[q] = version[q]
    BY <2>2 DEF TypeInv
  <2>6. version' \in [Rule -> 0..(MaxVersion + 1)]
    <3>1. version[r] + 1 \in 0..(MaxVersion + 1)
      BY <1>1, <2>2, SMT
    <3>. QED
      BY <2>2, <3>1 DEF TypeInv
  <2>7. \A q \in Rule : /\ rule'[q] # None => version'[q] >= 1
                        /\ q \notin seeded => version'[q] <= MaxVersion
                        /\ version'[q] >= version[q]
    BY <1>1, <2>2, <2>4, <2>5, SMT DEF TypeInv
  <2>. QED
    BY <2>3, <2>4, <2>5, <2>6, <2>7
<1>4. CASE DeleteRule(r)
  <2>1. rule' = [rule EXCEPT ![r] = None] /\ version' = version
    BY <1>4 DEF DeleteRule
  <2>2. rule' \in [Rule -> Definition \cup {None}] /\ rule'[r] = None /\ \A q \in Rule : q # r => rule'[q] = rule[q]
    BY <2>1 DEF TypeInv
  <2>3. \A q \in Rule : /\ rule'[q] # None => version'[q] >= 1
                        /\ q \notin seeded => version'[q] <= MaxVersion
                        /\ version'[q] >= version[q]
    BY <1>1, <2>1, <2>2, SMT DEF TypeInv
  <2>. QED
    BY <1>4, <2>1, <2>2, <2>3 DEF TypeInv
<1>. QED
  BY <1>2, <1>3, <1>4

LEMMA RestartRules ==
  ASSUME TypeInv, Restart
  PROVE  /\ rule' \in [Rule -> Definition \cup {None}]
         /\ version' \in [Rule -> 0..(MaxVersion + 1)] /\ seeded' = Default
         /\ \A q \in Rule : /\ rule'[q] # None => version'[q] >= 1
                            /\ q \notin seeded' => version'[q] <= MaxVersion
                            /\ q \in Missing => rule'[q] # None
                            /\ q \notin Missing => rule'[q] = rule[q] /\ version'[q] = version[q]
                            /\ version'[q] >= version[q]
         /\ \A q \in Missing : rule[q] = None
<1>1. /\ MaxVersion \in Nat \ {0} /\ \A q \in Rule : version[q] \in Nat /\ version[q] <= MaxVersion + 1
  BY AlertsAssumption, SMT DEF TypeInv
<1>2. PICK d \in Definition :
        /\ rule' = [r \in Rule |-> IF r \in Missing THEN d ELSE rule[r]]
        /\ version' = [r \in Rule |-> IF r \in Missing THEN version[r] + 1 ELSE version[r]]
  BY DEF Restart
<1>3. d # None /\ seeded' = Default
  BY AlertsAssumption DEF Restart
<1>4. \A q \in Rule : q \in Missing => q \notin seeded /\ q \in Default /\ rule[q] = None
  BY DEF Missing
<1>5. ASSUME NEW q \in Rule
      PROVE  /\ rule'[q] \in Definition \cup {None} /\ version'[q] \in 0..(MaxVersion + 1)
             /\ rule'[q] # None => version'[q] >= 1
             /\ q \notin seeded' => version'[q] <= MaxVersion
             /\ q \in Missing => rule'[q] # None
             /\ q \notin Missing => rule'[q] = rule[q] /\ version'[q] = version[q]
             /\ version'[q] >= version[q]
  <2>1. CASE q \in Missing
    <3>1. rule'[q] = d /\ version'[q] = version[q] + 1
      BY <1>2, <2>1
    <3>2. version[q] <= MaxVersion /\ q \in Default
      BY <1>4, <2>1 DEF TypeInv
    <3>. QED
      BY <1>1, <1>3, <2>1, <3>1, <3>2, SMT
  <2>2. CASE q \notin Missing
    <3>1. rule'[q] = rule[q] /\ version'[q] = version[q]
      BY <1>2, <2>2
    <3>2. rule[q] \in Definition \cup {None} /\ version[q] \in 0..(MaxVersion + 1)
          /\ (rule[q] # None => version[q] >= 1)
      BY DEF TypeInv
    <3>3. q \notin seeded' => version[q] <= MaxVersion
      BY <1>3 DEF TypeInv
    <3>. QED
      BY <1>1, <2>2, <3>1, <3>2, <3>3, SMT
  <2>. QED
    BY <2>1, <2>2
<1>6. rule' \in [Rule -> Definition \cup {None}] /\ version' \in [Rule -> 0..(MaxVersion + 1)]
  BY <1>2, <1>5
<1>7. \A q \in Missing : rule[q] = None
  BY DEF Missing
<1>. QED
  BY <1>3, <1>5, <1>6, <1>7

\* What is known of a target is forgotten with its rule, or when its baseline is reset.
LEMMA ForgetEffect ==
  ASSUME NEW gone, Forget(gone)
  PROVE  /\ \A p \in Pair :
              /\ p \in gone => state'[p] = None /\ past'[p] = NoPast /\ life'[p] = life[p] + 1
              /\ p \notin gone => state'[p] = state[p] /\ past'[p] = past[p] /\ life'[p] = life[p]
         /\ DOMAIN state' = Pair /\ DOMAIN past' = Pair
         /\ state' = [p \in Pair |-> state'[p]] /\ past' = [p \in Pair |-> past'[p]]
BY DEF Forget

LEMMA NoPastType == NoPast \in PastRow
<1>1. 0 \in 0..MaxCount
  BY AlertsAssumption, SMT
<1>. QED
  BY <1>1, Zenon DEF NoPast, PastRow

LEMMA ForgetType ==
  ASSUME TypeInv, NEW gone, Forget(gone)
  PROVE  /\ state' \in [Pair -> {None} \cup StateRow] /\ past' \in [Pair -> PastRow]
         /\ life' \in [Pair -> Nat] /\ \A p \in Pair : life'[p] \in Nat /\ life[p] <= life'[p]
         /\ \A p \in Pair : state'[p] # None => state[p] # None
<1>1. state \in [Pair -> {None} \cup StateRow] /\ past \in [Pair -> PastRow] /\ life \in [Pair -> Nat]
  BY DEF TypeInv, StateRow, PastRow
<1>2. \A p \in Pair : life'[p] \in Nat /\ life[p] <= life'[p]
  BY <1>1, SMT DEF Forget
<1>3. life' \in [Pair -> Nat]
  BY <1>2 DEF Forget
<1>4. state' \in [Pair -> {None} \cup StateRow] /\ past' \in [Pair -> PastRow]
  BY <1>1, NoPastType DEF Forget
<1>. QED
  BY <1>2, <1>3, <1>4, ForgetEffect

\* The states of one rule.
LEMMA OfRule ==
  ASSUME NEW r \in Rule, NEW p \in Pair
  PROVE  p \in {r} \X Target <=> p[1] = r
BY DEF Pair

\* A reset baseline leaves rules, events and transactions alone.
LEMMA ResetEffect ==
  ASSUME TypeInv, NEW t \in Target, ResetBaseline(t)
  PROVE  /\ Forget(Baselined(t)) /\ level' \in [Target -> Level]
         /\ UNCHANGED <<rule, version, seeded, events, tx, sender, restarts>>
<1>1. PICK v \in {0, level[t]} : level' = [level EXCEPT ![t] = v]
  BY DEF ResetBaseline
<1>2. v \in Level
  BY DEF TypeInv, Level
<1>. QED
  BY <1>1, <1>2 DEF ResetBaseline, TypeInv

LEMMA TypeStep == TypeInv /\ [Next]_vars => TypeInv'
<1> SUFFICES ASSUME TypeInv, [Next]_vars PROVE TypeInv'
  OBVIOUS
<1>0. /\ rule \in [Rule -> Definition \cup {None}]
      /\ version \in [Rule -> 0..(MaxVersion + 1)] /\ \A q \in Rule : version[q] \in Nat
      /\ state \in [Pair -> {None} \cup StateRow] /\ past \in [Pair -> PastRow]
      /\ \A p \in Pair : p[1] \in Rule
      /\ \A r \in Rule : /\ rule[r] # None => version[r] >= 1
                         /\ r \notin seeded => version[r] <= MaxVersion
      /\ \A p \in Pair : state[p] # None => version[p[1]] >= 1
  BY AlertsAssumption, SMT DEF TypeInv, StateRow, PastRow, Pair
<1>1. ASSUME NEW e \in Evaluator, Begin(e) \/ Evaluate(e) \/ PassOver(e) \/ Cleanup(e)
      PROVE  TypeInv'
  <2>1. Others(e) /\ Busy(tx'[e]) /\ events' \in Seq(EventRow)
        /\ UNCHANGED <<rule, version, seeded, state, sender, level, restarts, past, life>>
    <3>1. CASE Begin(e)
      BY <3>1, BeginEffect DEF TypeInv
    <3>2. CASE Evaluate(e)
      BY <3>2, EvaluateEffect DEF TypeInv
    <3>3. CASE Cleanup(e)
      BY <3>3, CleanupEffect
    <3>4. CASE PassOver(e)
      BY <3>4, PassOverEffect DEF TypeInv
    <3>. QED
      BY <1>1, <3>1, <3>2, <3>3, <3>4
  <2>2. DOMAIN tx' = Evaluator /\ \A f \in Evaluator : tx'[f] = Idle \/ tx'[f] = Dead \/ Busy(tx'[f])
    BY <2>1 DEF Others, TypeInv
  <2>3. \A f \in Evaluator : (tx[f] = Idle \/ tx[f] = Dead \/ Busy(tx[f]))'
    BY <2>2 DEF Busy, Idle, Dead
  <2>. QED
    BY <2>1, <2>2, <2>3 DEF TypeInv
<1>2. ASSUME NEW e \in Evaluator, Commit(e) PROVE TypeInv'
  <2>1. /\ Others(e) /\ Busy(tx[e]) /\ tx'[e] = Idle /\ Storable(e)
        /\ events' \in Seq(EventRow)
        /\ DOMAIN tx[e].wrote \subseteq Pair
        /\ \A p \in Pair : /\ p \in DOMAIN tx[e].wrote => state'[p] = Stored(e, p)
                           /\ p \notin DOMAIN tx[e].wrote => state'[p] = state[p]
        /\ \A p \in Pair :
             past'[p] = IF p \in DOMAIN tx[e].wrote /\ tx[e].version[p[1]] = version[p[1]]
                          THEN PastAfter(e, p) ELSE past[p]
        /\ UNCHANGED <<rule, version, seeded, sender, level, restarts, life>>
    BY <1>2, CommitEffect
  <2>2. state' = [p \in Pair |-> state'[p]] /\ past' = [p \in Pair |-> past'[p]]
    BY <1>2 DEF Commit
  <2>3. \A p \in Pair : /\ state'[p] \in {None} \cup StateRow /\ past'[p] \in PastRow
                        /\ state'[p] # None => version'[p[1]] >= 1
    <3> SUFFICES ASSUME NEW p \in Pair
                 PROVE  /\ state'[p] \in {None} \cup StateRow /\ past'[p] \in PastRow
                        /\ state'[p] # None => version'[p[1]] >= 1
      OBVIOUS
    <3>1. CASE p \in DOMAIN tx[e].wrote
      <4>1. /\ Stored(e, p) \in StateRow /\ PastAfter(e, p) \in PastRow /\ version[p[1]] >= 1
        BY <2>1, <3>1, StoredType
      <4>. QED
        BY <1>0, <2>1, <3>1, <4>1
    <3>2. CASE p \notin DOMAIN tx[e].wrote
      BY <1>0, <2>1, <3>2
    <3>. QED
      BY <3>1, <3>2
  <2>4. state' \in [Pair -> {None} \cup StateRow] /\ past' \in [Pair -> PastRow]
    BY <2>2, <2>3
  <2>5. DOMAIN tx' = Evaluator /\ \A f \in Evaluator : tx'[f] = Idle \/ tx'[f] = Dead \/ Busy(tx'[f])
    BY <2>1 DEF Others, TypeInv
  <2>6. \A f \in Evaluator : (tx[f] = Idle \/ tx[f] = Dead \/ Busy(tx[f]))'
    BY <2>5 DEF Busy, Idle, Dead
  <2>. QED
    BY <2>1, <2>3, <2>4, <2>5, <2>6 DEF TypeInv, StateRow, PastRow
<1>3. ASSUME NEW e \in Evaluator, Refused(e) PROVE TypeInv'
  <2>1. /\ Others(e) /\ tx'[e] \in {Idle, Dead} /\ events' \in Seq(EventRow)
        /\ UNCHANGED <<rule, version, seeded, state, sender, level, restarts, past, life>>
    BY <1>3, RefusedEffect
  <2>2. DOMAIN tx' = Evaluator /\ \A f \in Evaluator : tx'[f] = Idle \/ tx'[f] = Dead \/ Busy(tx'[f])
    BY <2>1 DEF Others, TypeInv
  <2>3. \A f \in Evaluator : (tx[f] = Idle \/ tx[f] = Dead \/ Busy(tx[f]))'
    BY <2>2 DEF Busy, Idle, Dead
  <2>. QED
    BY <2>1, <2>2, <2>3 DEF TypeInv
<1>4. ASSUME NEW e \in Evaluator,
             SkipNotification(e) \/ StartSending(e) \/ FinishSending(e) \/ LoseSender(e)
      PROVE  TypeInv'
  <2>1. NoteStep /\ DOMAIN tx' = Evaluator /\ \A f \in Evaluator : tx'[f] = tx[f] \/ tx'[f] = Dead
    BY <1>4, SenderEffect
  <2>2. \A f \in Evaluator : tx'[f] = Idle \/ tx'[f] = Dead \/ Busy(tx'[f])
    BY <2>1 DEF TypeInv
  <2>3. \A f \in Evaluator : (tx[f] = Idle \/ tx[f] = Dead \/ Busy(tx[f]))'
    BY <2>2 DEF Busy, Idle, Dead
  <2>. QED
    BY <2>1, <2>3 DEF TypeInv, NoteStep
<1>5. ASSUME NEW r \in Rule, CreateRule(r) \/ UpdateRule(r) \/ DeleteRule(r) PROVE TypeInv'
  <2>1. /\ rule' \in [Rule -> Definition \cup {None}]
        /\ version' \in [Rule -> 0..(MaxVersion + 1)]
        /\ \A q \in Rule : /\ rule'[q] # None => version'[q] >= 1
                           /\ q \notin seeded => version'[q] <= MaxVersion
                           /\ version'[q] >= version[q]
        /\ \A q \in Rule : version'[q] \in Nat
    BY <1>5, RuleTypes, AlertsAssumption, SMT
  <2>2. events' \in Seq(EventRow) /\ UNCHANGED <<seeded, tx, sender, level, restarts>>
    <3>1. CASE DeleteRule(r)
      BY <3>1, DeleteEffect
    <3>2. CASE CreateRule(r) \/ UpdateRule(r)
      BY <3>2 DEF CreateRule, UpdateRule, TypeInv
    <3>. QED
      BY <1>5, <3>1, <3>2
  <2>3. state' \in [Pair -> {None} \cup StateRow] /\ past' \in [Pair -> PastRow]
        /\ life' \in [Pair -> Nat]
        /\ \A p \in Pair : state'[p] # None => state[p] # None
    <3>1. CASE CreateRule(r)
      BY <1>0, <3>1 DEF CreateRule, TypeInv
    <3>2. CASE UpdateRule(r) \/ DeleteRule(r)
      <4>1. Forget({r} \X Target)
        BY <3>2 DEF UpdateRule, DeleteRule
      <4>. QED
        BY <4>1, ForgetType
    <3>. QED
      BY <1>5, <3>1, <3>2
  <2>4. \A p \in Pair : state'[p] # None => version'[p[1]] >= 1
    BY <1>0, <2>1, <2>3, SMT
  <2>5. \A f \in Evaluator : (tx[f] = Idle \/ tx[f] = Dead \/ Busy(tx[f]))'
    BY <2>2 DEF TypeInv, Busy, Idle, Dead
  <2>. QED
    BY <2>1, <2>2, <2>3, <2>4, <2>5 DEF TypeInv, StateRow, PastRow
<1>6. ASSUME NEW t \in Target, Measure(t) PROVE TypeInv'
  <2>3. level' \in [Target -> Level]
    BY <1>6 DEF Measure, TypeInv
  <2>4. UNCHANGED <<rule, version, seeded, state, events, tx, sender, restarts, past, life>>
    BY <1>6 DEF Measure
  <2>5. \A f \in Evaluator : (tx[f] = Idle \/ tx[f] = Dead \/ Busy(tx[f]))'
    BY <2>4 DEF TypeInv, Busy, Idle, Dead
  <2>. QED
    BY <2>3, <2>4, <2>5 DEF TypeInv
<1>7. ASSUME NEW t \in Target, ResetBaseline(t) PROVE TypeInv'
  <2>1. /\ Forget(Baselined(t)) /\ level' \in [Target -> Level]
        /\ UNCHANGED <<rule, version, seeded, events, tx, sender, restarts>>
    BY <1>7, ResetEffect
  <2>2. /\ state' \in [Pair -> {None} \cup StateRow] /\ past' \in [Pair -> PastRow]
        /\ life' \in [Pair -> Nat] /\ \A p \in Pair : state'[p] # None => state[p] # None
    BY <2>1, ForgetType
  <2>3. \A f \in Evaluator : (tx[f] = Idle \/ tx[f] = Dead \/ Busy(tx[f]))'
    BY <2>1 DEF TypeInv, Busy, Idle, Dead
  <2>. QED
    BY <2>1, <2>2, <2>3 DEF TypeInv, StateRow, PastRow
<1>8. CASE Restart
  <2>1. /\ rule' \in [Rule -> Definition \cup {None}]
        /\ version' \in [Rule -> 0..(MaxVersion + 1)] /\ seeded' = Default
        /\ \A q \in Rule : /\ rule'[q] # None => version'[q] >= 1
                           /\ q \notin seeded' => version'[q] <= MaxVersion
                           /\ version'[q] >= version[q] /\ version'[q] \in Nat
    BY <1>8, RestartRules, AlertsAssumption, SMT
  <2>2. DOMAIN tx' = Evaluator /\ (\A e \in Evaluator : tx'[e] = Idle) /\ events' \in Seq(EventRow)
    BY <1>8, RestartEffect
  <2>3. restarts' \in 0..MaxRestarts /\ sender' \in [Evaluator -> {"idle", "waits"}]
        /\ UNCHANGED <<state, level, past, life>>
    <3>1. restarts \in 0..MaxRestarts /\ restarts < MaxRestarts /\ restarts' = restarts + 1
      BY <1>8 DEF Restart, TypeInv
    <3>2. restarts' \in 0..MaxRestarts
      BY <3>1, AlertsAssumption, SMT
    <3>. QED
      BY <1>8, <3>2 DEF Restart
  <2>4. \A p \in Pair : state'[p] # None => version'[p[1]] >= 1
    BY <1>0, <2>1, <2>3, SMT
  <2>5. \A f \in Evaluator : (tx[f] = Idle \/ tx[f] = Dead \/ Busy(tx[f]))'
    BY <2>2 DEF Idle
  <2>. QED
    BY <2>1, <2>2, <2>3, <2>4, <2>5 DEF TypeInv
<1>9. CASE UNCHANGED vars
  <2>1. \A f \in Evaluator : (tx[f] = Idle \/ tx[f] = Dead \/ Busy(tx[f]))'
    BY <1>9 DEF vars, TypeInv, Busy, Idle, Dead
  <2>. QED
    BY <1>9, <2>1 DEF vars, TypeInv
<1>. QED
  BY <1>1, <1>2, <1>3, <1>4, <1>5, <1>6, <1>8, <1>9, <1>7 DEF Next

(* The rows of rules, states and events, and what the evaluations hold, stay well-formed,  *)
(* whatever the requests, monitors, administrators and restarts do to each other.           *)
THEOREM AlertsTypeCorrect == Spec => []TypeOK
BY TypeInit, TypeStep, TypeInvImplies, PTL DEF Spec

-----------------------------------------------------------------------------
(* A default rule that was deleted.                                        *)

(* A default rule an administrator deleted does not come back: a restart adds the defaults *)
(* that never had an AlertRuleSeed row, and create_alert_rule makes rules of its own.       *)
THEOREM AlertsDeletedStaysDeleted == Spec => DeletedStaysDeleted
<1>1. TypeInv /\ [Next]_vars
        => [\A r \in seeded : rule[r] = None /\ version[r] > 0 => rule'[r] = None]_vars
  <2> SUFFICES ASSUME TypeInv, Next, NEW r \in seeded, rule[r] = None, version[r] > 0
               PROVE  rule'[r] = None
    OBVIOUS
  <2>1. r \in Rule /\ r \notin Missing
    BY AlertsAssumption DEF TypeInv, Missing
  <2>2. CASE rule' = rule
    BY <2>2
  <2>3. CASE Restart
    BY <2>1, <2>3, RestartRules
  <2>4. ASSUME NEW q \in Rule, CreateRule(q) \/ UpdateRule(q) \/ DeleteRule(q) PROVE rule'[r] = None
    <3>1. CASE q = r
      <4>1. ~CreateRule(r) /\ ~UpdateRule(r)
        BY SMT DEF CreateRule, UpdateRule
      <4>. QED
        BY <2>1, <2>4, <3>1, <4>1 DEF DeleteRule, TypeInv
    <3>2. CASE q # r
      BY <2>1, <2>4, <3>2, RuleTypes
    <3>. QED
      BY <3>1, <3>2
  <2>. QED
    BY <2>2, <2>3, <2>4
    DEF Next, Begin, Evaluate, PassOver, Cleanup, Commit, Refused, SkipNotification,
        StartSending, FinishSending, LoseSender, Measure, ResetBaseline
<1>. QED
  BY <1>1, TypeInit, TypeStep, PTL DEF Spec, DeletedStaysDeleted

-----------------------------------------------------------------------------
(* Events that evaluations have made.                                      *)

Working(e) == tx[e].pc \in {"eval", "ready"}

\* An event that waits for its commit is about a target its evaluation wrote, says what it
\* wrote, and was not sent.
MadeFine(e) ==
  /\ tx[e].todo \cap DOMAIN tx[e].wrote = {}
  /\ \A i \in DOMAIN tx[e].made :
       LET row == tx[e].made[i]
           p == <<row.rule, row.target>>
       IN /\ p \in DOMAIN tx[e].wrote /\ tx[e].wrote[p].status = row.status
          /\ row.sent = 0 /\ row.note \in {"queued", "quiet"}

MadeInv == \A e \in Evaluator : Working(e) => MadeFine(e)

LEMMA MadeInit == Init => MadeInv
BY DEF Init, MadeInv, Working, Idle

\* Steps of others leave a transaction as it is, or end it.
LEMMA OtherTx ==
  ASSUME TypeInv, Next
  PROVE  \/ \E e \in Evaluator : Begin(e)
         \/ \E e \in Evaluator : Evaluate(e)
         \/ \E e \in Evaluator : PassOver(e)
         \/ \E e \in Evaluator : Cleanup(e)
         \/ \A e \in Evaluator : Working(e)' => tx'[e] = tx[e] /\ Working(e)
<1>1. ASSUME NEW e \in Evaluator, Commit(e) \/ Refused(e)
      PROVE  \A f \in Evaluator : Working(f)' => tx'[f] = tx[f] /\ Working(f)
  <2>1. Others(e) /\ tx'[e] \in {Idle, Dead}
    BY <1>1, CommitEffect, RefusedEffect
  <2>. QED
    BY <2>1, NotBusy DEF Others, Working
<1>2. ASSUME NEW e \in Evaluator,
             SkipNotification(e) \/ StartSending(e) \/ FinishSending(e) \/ LoseSender(e)
      PROVE  \A f \in Evaluator : Working(f)' => tx'[f] = tx[f] /\ Working(f)
  <2>1. \A f \in Evaluator : tx'[f] = tx[f] \/ tx'[f] = Dead
    BY <1>2, SenderEffect
  <2>. QED
    BY <2>1, NotBusy DEF Working
<1>3. ASSUME Restart PROVE \A f \in Evaluator : Working(f)' => tx'[f] = tx[f] /\ Working(f)
  BY <1>3, RestartEffect, NotBusy DEF Working
<1>4. ASSUME tx' = tx PROVE \A f \in Evaluator : Working(f)' => tx'[f] = tx[f] /\ Working(f)
  BY <1>4 DEF Working
<1>5. \A r \in Rule : CreateRule(r) \/ UpdateRule(r) \/ DeleteRule(r) => tx' = tx
  BY DEF CreateRule, UpdateRule, DeleteRule
<1>6. \A t \in Target : Measure(t) \/ ResetBaseline(t) => tx' = tx
  BY DEF Measure, ResetBaseline
<1>. QED
  BY <1>1, <1>2, <1>3, <1>4, <1>5, <1>6 DEF Next

LEMMA OnlyThis ==
  ASSUME MadeInv, NEW e \in Evaluator, Others(e), MadeFine(e)'
  PROVE  MadeInv'
<1>1. ASSUME NEW f \in Evaluator, Working(f)' PROVE MadeFine(f)'
  <2>1. CASE f = e
    BY <2>1
  <2>2. CASE f # e
    <3>1. tx'[f] = tx[f] /\ Working(f)
      BY <1>1, <2>2 DEF Others, Working
    <3>2. MadeFine(f)
      BY <3>1 DEF MadeInv
    <3>. QED
      BY <3>1, <3>2 DEF MadeFine
  <2>. QED
    BY <2>1, <2>2
<1>. QED
  BY <1>1 DEF MadeInv

LEMMA MadeStep == TypeInv /\ MadeInv /\ [Next]_vars => MadeInv'
<1> SUFFICES ASSUME TypeInv, MadeInv, [Next]_vars PROVE MadeInv'
  OBVIOUS
<1>1. ASSUME NEW e \in Evaluator, Begin(e) PROVE MadeInv'
  <2>1. Others(e) /\ DOMAIN tx'[e].wrote = {} /\ tx'[e].made = << >>
    BY <1>1, BeginEffect
  <2>2. MadeFine(e)'
    BY <2>1, NoElements DEF MadeFine
  <2>. QED
    BY <2>1, <2>2, OnlyThis
<1>2. ASSUME NEW e \in Evaluator, Evaluate(e) PROVE MadeInv'
  <2>1. PICK p \in tx[e].todo :
           /\ Others(e) /\ Busy(tx[e]) /\ tx[e].pc = "eval"
           /\ tx'[e].todo = tx[e].todo \ {p}
           /\ DOMAIN tx'[e].wrote = DOMAIN tx[e].wrote \cup {p}
           /\ \A q \in DOMAIN tx[e].wrote : q # p => tx'[e].wrote[q] = tx[e].wrote[q]
           /\ \/ tx'[e].made = tx[e].made
              \/ \E row \in EventRow :
                   /\ tx'[e].made = Append(tx[e].made, row)
                   /\ <<row.rule, row.target>> = p /\ row.status = tx'[e].wrote[p].status
                   /\ row.sent = 0 /\ row.note \in {"queued", "quiet"} /\ row.doomed = {}
    BY <1>2, EvaluateEffect
  <2>2. MadeFine(e) /\ p \notin DOMAIN tx[e].wrote
    BY <2>1 DEF MadeInv, MadeFine, Working
  <2>3. (tx[e].todo \cap DOMAIN tx[e].wrote = {})'
    BY <2>1, <2>2 DEF MadeFine
  <2> DEFINE Good(row) == LET q == <<row.rule, row.target>>
                          IN /\ q \in DOMAIN tx'[e].wrote /\ tx'[e].wrote[q].status = row.status
                             /\ row.sent = 0 /\ row.note \in {"queued", "quiet"}
  <2>4. \A i \in DOMAIN tx[e].made : Good(tx[e].made[i])
    BY <2>1, <2>2 DEF MadeFine
  <2>5. \A i \in DOMAIN tx'[e].made : Good(tx'[e].made[i])
    <3>1. CASE tx'[e].made = tx[e].made
      BY <2>4, <3>1
    <3>2. ASSUME NEW row \in EventRow, tx'[e].made = Append(tx[e].made, row), Good(row)
          PROVE  \A i \in DOMAIN tx'[e].made : Good(tx'[e].made[i])
      <4>1. tx[e].made \in Seq(EventRow)
        BY <2>1 DEF Busy
      <4>2. Len(tx[e].made) \in Nat /\ DOMAIN tx[e].made = 1..Len(tx[e].made)
        BY <4>1, RowsOf
      <4>3. /\ DOMAIN tx'[e].made = 1..(Len(tx[e].made) + 1)
            /\ \A i \in 1..Len(tx[e].made) : tx'[e].made[i] = tx[e].made[i]
            /\ tx'[e].made[Len(tx[e].made) + 1] = row
        <5>1. /\ Append(tx[e].made, row) \in Seq(EventRow)
              /\ Len(Append(tx[e].made, row)) = Len(tx[e].made) + 1
              /\ \A i \in 1..Len(tx[e].made) : Append(tx[e].made, row)[i] = tx[e].made[i]
              /\ Append(tx[e].made, row)[Len(tx[e].made) + 1] = row
          BY <4>1, AppendProperties
        <5>. QED
          BY <3>2, <5>1, RowsOf
      <4>4. \A i \in DOMAIN tx'[e].made : i \in DOMAIN tx[e].made \/ i = Len(tx[e].made) + 1
        BY <4>2, <4>3, SMT
      <4>. HIDE DEF Good
      <4>. QED
        BY <2>4, <3>2, <4>2, <4>3, <4>4
    <3>. QED
      BY <2>1, <3>1, <3>2
  <2>6. MadeFine(e)'
    BY <2>3, <2>5 DEF MadeFine
  <2>. QED
    BY <2>1, <2>6, OnlyThis
<1>3. ASSUME NEW e \in Evaluator, Cleanup(e) PROVE MadeInv'
  <2>1. /\ Others(e) /\ Busy(tx[e])
        /\ tx'[e].todo = tx[e].todo /\ tx'[e].wrote = tx[e].wrote
        /\ DOMAIN tx'[e].made = DOMAIN tx[e].made
        /\ \A i \in DOMAIN tx[e].made : Alike(tx[e].made[i], tx'[e].made[i])
    BY <1>3, CleanupEffect DEF MarkedAt
  <2>2. MadeFine(e)
    BY <2>1 DEF MadeInv, Working, Busy
  <2>3. MadeFine(e)'
    <3>1. (tx[e].todo \cap DOMAIN tx[e].wrote = {})'
      BY <2>1, <2>2 DEF MadeFine
    <3>2. ASSUME NEW i \in DOMAIN tx'[e].made
          PROVE  LET row == tx'[e].made[i]
                     p == <<row.rule, row.target>>
                 IN /\ p \in DOMAIN tx'[e].wrote /\ tx'[e].wrote[p].status = row.status
                    /\ row.sent = 0 /\ row.note \in {"queued", "quiet"}
      <4>1. i \in DOMAIN tx[e].made /\ Alike(tx[e].made[i], tx'[e].made[i])
        BY <2>1
      <4>. QED
        BY <2>1, <2>2, <4>1 DEF MadeFine, Alike
    <3>. QED
      BY <3>1, <3>2 DEF MadeFine
  <2>. QED
    BY <2>1, <2>3, OnlyThis
<1>4. ASSUME NEW e \in Evaluator, PassOver(e) PROVE MadeInv'
  <2>1. /\ Others(e) /\ tx[e].pc = "eval" /\ tx'[e].todo \subseteq tx[e].todo
        /\ tx'[e].wrote = tx[e].wrote /\ tx'[e].made = tx[e].made
    BY <1>4, PassOverEffect
  <2>2. MadeFine(e)
    BY <2>1 DEF MadeInv, Working
  <2>3. MadeFine(e)'
    BY <2>1, <2>2 DEF MadeFine
  <2>. QED
    BY <2>1, <2>3, OnlyThis
<1>5. CASE \A e \in Evaluator : Working(e)' => tx'[e] = tx[e] /\ Working(e)
  <2>1. ASSUME NEW e \in Evaluator, Working(e)' PROVE MadeFine(e)'
    <3>1. tx'[e] = tx[e] /\ MadeFine(e)
      BY <1>5, <2>1 DEF MadeInv
    <3>. QED
      BY <3>1 DEF MadeFine
  <2>. QED
    BY <2>1 DEF MadeInv
<1>6. CASE UNCHANGED vars
  BY <1>6 DEF MadeInv, MadeFine, Working, vars
<1>. QED
  <2>1. CASE Next
    BY <1>1, <1>2, <1>3, <1>5, <1>4, <2>1, OtherTx
  <2>. QED
    BY <1>6, <2>1

-----------------------------------------------------------------------------
(* Messages.                                                               *)

\* An event that waits for its message was not sent yet.
NoteInv ==
  \A i \in DOMAIN events :
    /\ events[i].note \in {"quiet", "queued"} => events[i].sent = 0
    /\ events[i].sent \in {0, 1}

LEMMA NoteStays == TypeInv /\ MadeInv /\ NoteInv /\ [Next]_vars => NoteInv'
<1> SUFFICES ASSUME TypeInv, MadeInv, NoteInv, [Next]_vars PROVE NoteInv'
  OBVIOUS
<1> DEFINE Fine(row) == /\ row.note \in {"quiet", "queued"} => row.sent = 0
                        /\ row.sent \in {0, 1}
<1>0. \A i \in DOMAIN events : Fine(events[i])
  BY DEF NoteInv
<1>1. ASSUME NEW e \in Evaluator, Cleanup(e) \/ Refused(e) PROVE NoteInv'
  <2>1. DOMAIN events' = DOMAIN events /\ \A i \in DOMAIN events : Alike(events[i], events'[i])
    <3>1. CASE Cleanup(e)
      BY <3>1, CleanupEffect DEF MarkedAt
    <3>2. CASE Refused(e)
      BY <3>2, RefusedEffect
    <3>. QED
      BY <1>1, <3>1, <3>2
  <2>. QED
    BY <1>0, <2>1 DEF NoteInv, Alike
<1>2. ASSUME NEW e \in Evaluator, Commit(e) PROVE NoteInv'
  <2>1. /\ Busy(tx[e])
        /\ \A k \in DOMAIN events' : \/ \E i \in DOMAIN events : events'[k] = events[i]
                                     \/ \E i \in DOMAIN tx[e].made : events'[k] = tx[e].made[i]
    BY <1>2, CommitEffect
  <2>2. \A i \in DOMAIN tx[e].made : Fine(tx[e].made[i])
    BY <2>1 DEF MadeInv, MadeFine, Working, Busy
  <2>. HIDE DEF Fine
  <2>3. \A k \in DOMAIN events' : Fine(events'[k])
    BY <1>0, <2>1, <2>2
  <2>. QED
    BY <2>3 DEF NoteInv, Fine
<1>3. ASSUME NEW r \in Rule, DeleteRule(r) PROVE NoteInv'
  <2>1. \A k \in DOMAIN events' : \E i \in DOMAIN events : events'[k] = events[i]
    BY <1>3, DeleteEffect
  <2>. HIDE DEF Fine
  <2>2. \A k \in DOMAIN events' : Fine(events'[k])
    BY <1>0, <2>1
  <2>. QED
    BY <2>2 DEF NoteInv, Fine
<1>4. ASSUME NEW e \in Evaluator,
             SkipNotification(e) \/ StartSending(e) \/ FinishSending(e) \/ LoseSender(e)
      PROVE  NoteInv'
  <2>1. NoteStep
    BY <1>4, SenderEffect
  <2>2. \A i \in DOMAIN events : Fine(events'[i])
    BY <1>0, <2>1, SMT DEF NoteStep
  <2>. QED
    BY <2>1, <2>2 DEF NoteInv, NoteStep
<1>5. CASE Restart
  <2>1. /\ DOMAIN events' = DOMAIN events
        /\ \A i \in DOMAIN events :
             /\ events'[i].sent = events[i].sent
             /\ IF events[i].note = "quiet" THEN events'[i].note = "quiet" ELSE events'[i].note = "over"
    BY <1>5, RestartEffect
  <2>. QED
    BY <1>0, <2>1 DEF NoteInv
<1>6. CASE events' = events
  BY <1>6 DEF NoteInv
<1>. QED
  BY <1>1, <1>2, <1>3, <1>4, <1>5, <1>6
  DEF Next, vars, Begin, Evaluate, PassOver, CreateRule, UpdateRule, Measure, ResetBaseline

(* Nobody is told twice: one event is sent at most once, whatever fails, and one of a rule  *)
(* without notifications never; send_alert_notification commits what became of it and no    *)
(* restart puts a message back into a queue.                                                 *)
THEOREM AlertsDeliveredOnce == Spec => []DeliveredOnce
<1>1. TypeInv /\ MadeInv /\ NoteInv /\ [Next]_vars => (TypeInv /\ MadeInv /\ NoteInv)'
  BY TypeStep, MadeStep, NoteStays
<1>2. Init => NoteInv
  BY NoElements DEF Init, NoteInv
<1>3. NoteInv => DeliveredOnce
  BY SMT DEF NoteInv, DeliveredOnce
<1>. QED
  BY <1>1, <1>2, <1>3, TypeInit, MadeInit, PTL DEF Spec

-----------------------------------------------------------------------------
(* Nothing outlives its rule.                                              *)

\* A state row is the one of the present life of its pair.
OrphanInv ==
  /\ NoOrphans
  /\ \A p \in Pair : state[p] # None => state[p].epoch = life[p] + 1

LEMMA StoredIsRow == \A x \in StateRow : x # None
<1> SUFFICES ASSUME NEW x \in StateRow PROVE x # None
  OBVIOUS
<1>1. 0..MaxCount \subseteq Nat /\ Nat \ {0} \subseteq Nat
  BY AlertsAssumption, SMT
<1>2. x \in [active : BOOLEAN, count : Nat, epoch : Nat, mixed : BOOLEAN]
  BY <1>1 DEF StateRow
<1>. QED
  BY <1>2, AlertsAssumption

\* The database takes a row only while its rule exists.
LEMMA StorableRule ==
  ASSUME TypeInv, OrphanInv, NEW e \in Evaluator, Busy(tx[e]), Storable(e), NEW p \in DOMAIN tx[e].wrote
  PROVE  p \in Pair /\ p[1] \in Rule /\ rule[p[1]] # None
<1>1. p \in Pair
  BY DEF Busy
<1>2. rule[p[1]] # None \/ state[p] # None
  BY StoredType
<1>. QED
  BY <1>1, <1>2 DEF OrphanInv, NoOrphans, Pair

LEMMA OrphanStep == TypeInv /\ MadeInv /\ OrphanInv /\ [Next]_vars => OrphanInv'
<1> SUFFICES ASSUME TypeInv, MadeInv, OrphanInv, [Next]_vars PROVE OrphanInv'
  OBVIOUS
<1>0. /\ \A i \in DOMAIN events : events[i].rule \in Rule /\ rule[events[i].rule] # None
      /\ \A p \in Pair : /\ p[1] \in Rule
                         /\ state[p] # None => rule[p[1]] # None /\ state[p].epoch = life[p] + 1
      /\ \A q \in Rule : version[q] \in Nat
  <2>1. \A i \in DOMAIN events : events[i] \in EventRow
    BY RowsOf DEF TypeInv
  <2>2. \A i \in DOMAIN events : events[i].rule \in Rule
    BY <2>1 DEF EventRow
  <2>3. \A q \in Rule : version[q] \in Nat
    BY AlertsAssumption, SMT DEF TypeInv
  <2>. QED
    BY <2>2, <2>3 DEF OrphanInv, NoOrphans, Pair
<1>1. ASSUME NEW e \in Evaluator, Cleanup(e) \/ Refused(e) PROVE OrphanInv'
  <2>1. /\ DOMAIN events' = DOMAIN events /\ \A i \in DOMAIN events : Alike(events[i], events'[i])
        /\ UNCHANGED <<rule, version, state, life>>
    <3>1. CASE Cleanup(e)
      BY <3>1, CleanupEffect DEF MarkedAt
    <3>2. CASE Refused(e)
      BY <3>2, RefusedEffect
    <3>. QED
      BY <1>1, <3>1, <3>2
  <2>. QED
    BY <1>0, <2>1 DEF OrphanInv, NoOrphans, Alike
<1>2. ASSUME NEW e \in Evaluator, Commit(e) PROVE OrphanInv'
  <2>1. /\ Busy(tx[e]) /\ tx[e].pc = "ready" /\ Storable(e)
        /\ \A k \in DOMAIN events' : \/ \E i \in DOMAIN events : events'[k] = events[i]
                                     \/ \E i \in DOMAIN tx[e].made : events'[k] = tx[e].made[i]
        /\ \A p \in Pair : /\ p \in DOMAIN tx[e].wrote => state'[p] = Stored(e, p)
                           /\ p \notin DOMAIN tx[e].wrote => state'[p] = state[p]
        /\ UNCHANGED <<rule, version, life>>
    BY <1>2, CommitEffect
  <2>2. \A p \in DOMAIN tx[e].wrote : rule[p[1]] # None
    BY <2>1, StorableRule
  <2>3. ASSUME NEW i \in DOMAIN tx[e].made PROVE rule[tx[e].made[i].rule] # None
    <3>1. <<tx[e].made[i].rule, tx[e].made[i].target>> \in DOMAIN tx[e].wrote
      BY <2>1 DEF MadeInv, MadeFine, Working
    <3>. QED
      BY <2>2, <3>1
  <2>4. \A k \in DOMAIN events' : rule'[events'[k].rule] # None
    BY <1>0, <2>1, <2>3
  <2>5. ASSUME NEW p \in Pair, state'[p] # None
        PROVE  rule'[p[1]] # None /\ state'[p].epoch = life'[p] + 1
    <3>1. CASE p \in DOMAIN tx[e].wrote
      <4>1. state'[p].epoch = life[p] + 1
        <5>1. Stored(e, p).epoch = life[p] + 1
          BY <1>0 DEF Stored
        <5>. QED
          BY <2>1, <3>1, <5>1
      <4>. QED
        BY <2>1, <2>2, <3>1, <4>1
    <3>2. CASE p \notin DOMAIN tx[e].wrote
      BY <1>0, <2>1, <2>5, <3>2
    <3>. QED
      BY <3>1, <3>2
  <2>. QED
    BY <2>4, <2>5 DEF OrphanInv, NoOrphans
<1>3. ASSUME NEW r \in Rule, CreateRule(r) \/ UpdateRule(r) PROVE OrphanInv'
  <2>1. events' = events /\ \A q \in Rule : q # r => rule'[q] = rule[q] /\ version'[q] = version[q]
    BY <1>3, RuleTypes DEF CreateRule, UpdateRule
  <2>2. rule'[r] # None
    <3>1. ~(DeleteRule(r))
      BY <1>3, AlertsAssumption DEF CreateRule, UpdateRule, DeleteRule, TypeInv
    <3>. QED
      BY <1>3, <3>1, RuleTypes
  <2>3. \A q \in Rule : rule[q] # None => rule'[q] # None
    BY <2>1, <2>2
  <2>4. ASSUME NEW p \in Pair, state'[p] # None
        PROVE  p[1] # r /\ state'[p] = state[p] /\ life'[p] = life[p]
    <3>1. CASE CreateRule(r)
      <4>1. version[r] = 0 /\ state' = state /\ life' = life
        BY <3>1 DEF CreateRule
      <4>2. version[p[1]] >= 1
        BY <2>4, <4>1 DEF TypeInv
      <4>. QED
        BY <4>1, <4>2, SMT
    <3>2. CASE UpdateRule(r)
      BY <2>4, <3>2, ForgetEffect, OfRule DEF UpdateRule
    <3>. QED
      BY <1>3, <3>1, <3>2
  <2>. QED
    BY <1>0, <2>1, <2>3, <2>4 DEF OrphanInv, NoOrphans
<1>4. ASSUME NEW r \in Rule, DeleteRule(r) PROVE OrphanInv'
  <2>1. /\ \A k \in DOMAIN events' : \E i \in DOMAIN events : events'[k] = events[i] /\ events[i].rule # r
        /\ version' = version /\ \A q \in Rule : q # r => rule'[q] = rule[q]
    BY <1>4, DeleteEffect, RuleTypes
  <2>2. \A p \in Pair : state'[p] # None => p[1] # r /\ state'[p] = state[p] /\ life'[p] = life[p]
    BY <1>4, ForgetEffect, OfRule DEF DeleteRule
  <2>. QED
    BY <1>0, <2>1, <2>2 DEF OrphanInv, NoOrphans
<1>5. CASE Restart
  <2>1. \A q \in Rule : rule[q] # None => rule'[q] # None /\ version'[q] = version[q]
    BY <1>5, RestartRules
  <2>2. DOMAIN events' = DOMAIN events /\ \A i \in DOMAIN events : events'[i].rule = events[i].rule
    BY <1>5, RestartEffect
  <2>3. state' = state /\ life' = life
    BY <1>5 DEF Restart
  <2>. QED
    BY <1>0, <2>1, <2>2, <2>3 DEF OrphanInv, NoOrphans
<1>6. ASSUME NEW e \in Evaluator,
             SkipNotification(e) \/ StartSending(e) \/ FinishSending(e) \/ LoseSender(e)
      PROVE  OrphanInv'
  <2>1. NoteStep
    BY <1>6, SenderEffect
  <2>. QED
    BY <1>0, <2>1 DEF OrphanInv, NoOrphans, NoteStep
<1>7. CASE UNCHANGED <<rule, state, events, life>>
  BY <1>7 DEF OrphanInv, NoOrphans
<1>8. ASSUME NEW t \in Target, ResetBaseline(t) PROVE OrphanInv'
  <2>1. Forget(Baselined(t)) /\ rule' = rule /\ events' = events
    BY <1>8, ResetEffect
  <2>2. \A p \in Pair : state'[p] # None => state'[p] = state[p] /\ life'[p] = life[p]
    BY <2>1, ForgetEffect
  <2>. QED
    BY <1>0, <2>1, <2>2 DEF OrphanInv, NoOrphans
<1>. QED
  BY <1>1, <1>2, <1>3, <1>4, <1>5, <1>6, <1>7, <1>8
  DEF Next, vars, Begin, Evaluate, PassOver, Measure

LEMMA OrphanInit == Init => OrphanInv
<1>1. Init => events = << >> /\ \A p \in Pair : state[p] = None
  BY DEF Init
<1>. QED
  BY <1>1, NoElements DEF OrphanInv, NoOrphans

(* No event and no state outlives its rule: an evaluation that read the rule before         *)
(* delete_alert_rule deleted it, with its events and states, can commit neither.             *)
THEOREM AlertsNoOrphans == Spec => []NoOrphans
<1>1. TypeInv /\ MadeInv /\ OrphanInv /\ [Next]_vars => (TypeInv /\ MadeInv /\ OrphanInv)'
  BY TypeStep, MadeStep, OrphanStep
<1>2. OrphanInv => NoOrphans
  BY DEF OrphanInv
<1>. QED
  BY <1>1, <1>2, TypeInit, MadeInit, OrphanInit, PTL DEF Spec

-----------------------------------------------------------------------------
(* Events say what happened.                                               *)

\* What the history of a target says agrees with its row, unless a stale write went into it.
PastFine(p) ==
  /\ state[p] = None => past[p] = NoPast
  /\ state[p] # None /\ ~state[p].mixed =>
       past[p].streak = state[p].count /\ (past[p].last = "triggered" <=> state[p].active)

PastInv == \A p \in Pair : PastFine(p)

\* An evaluation has read rules of its own; one that nobody wrote since is the rule as it is.
RuleLink(e, r) ==
  /\ tx[e].def[r].by = e /\ tx[e].version[r] <= version[r]
  /\ tx[e].version[r] = version[r] /\ rule[r] # None => tx[e].def[r] = rule[r]

\* The row it read was deleted since: no later row is the same, and the database will refuse.
Outlived(e, p) == tx[e].wrote[p].old.epoch # 0 /\ tx[e].wrote[p].old.epoch <= life[p]

\* The state it read of a target is one of some life up to now; that of a rule nobody wrote
\* since is the state as it is, unless a baseline was reset.
PairLink(e, p) ==
  /\ tx[e].wrote[p].old.epoch <= life[p] + 1
  /\ tx[e].wrote[p].old.epoch = 0 => tx[e].wrote[p].old = NewState
  /\ tx[e].version[p[1]] = version[p[1]] /\ rule[p[1]] # None =>
       \/ tx[e].wrote[p].old = Base(p)
       \/ state[p] # None /\ state[p].mixed
       \/ Outlived(e, p)

LinkFine(e) ==
  /\ \A r \in DOMAIN tx[e].def : RuleLink(e, r)
  /\ \A p \in DOMAIN tx[e].wrote : PairLink(e, p)

LinkInv == \A e \in Evaluator : Working(e) => LinkFine(e)

LEMMA StoredFields ==
  ASSUME NEW e, NEW p
  PROVE  LET w == tx[e].wrote[p]
         IN /\ Stored(e, p).active = IF w.new.active # w.old.active THEN w.new.active
                                                                    ELSE Base(p).active
            /\ Stored(e, p).count = IF w.new.count # w.old.count THEN w.new.count ELSE Base(p).count
            /\ Stored(e, p).mixed = (Base(p).mixed \/ tx[e].version[p[1]] # version[p[1]])
BY DEF Stored, Base

LEMMA PastAfterFields ==
  ASSUME NEW e, NEW p
  PROVE  LET w == tx[e].wrote[p]
         IN /\ PastAfter(e, p).streak =
                 IF ~w.breached THEN 0
                 ELSE IF past[p].streak < MaxCount THEN past[p].streak + 1 ELSE MaxCount
            /\ PastAfter(e, p).last = IF w.status = "none" THEN past[p].last ELSE w.status
BY DEF PastAfter

\* A write that leaves a row unmixed is by the rule as it is, upon the state as it is, and
\* what its history says before and after agrees with it.
LEMMA CommitUnmixed ==
  ASSUME TypeInv, OrphanInv, PastInv, LinkInv, NEW e \in Evaluator, Commit(e),
         NEW p \in DOMAIN tx[e].wrote, ~state'[p].mixed
  PROVE  /\ Written(rule[p[1]], tx[e].wrote[p])
         /\ past[p].last = "triggered" <=> tx[e].wrote[p].old.active
         /\ state'[p].count = tx[e].wrote[p].new.count
         /\ state'[p].active = tx[e].wrote[p].new.active
         /\ past'[p].streak = tx[e].wrote[p].new.count
         /\ past'[p].last = "triggered" <=> tx[e].wrote[p].new.active
<1> DEFINE w == tx[e].wrote[p]
<1>1. /\ Busy(tx[e]) /\ Storable(e) /\ Working(e) /\ p \in Pair
      /\ state'[p] = Stored(e, p)
      /\ tx[e].version[p[1]] = version[p[1]] => past'[p] = PastAfter(e, p)
  BY CommitEffect DEF Working
<1>2. rule[p[1]] # None
  BY <1>1, StorableRule
<1>3. tx[e].version[p[1]] = version[p[1]] /\ ~Base(p).mixed
  <2>1. Stored(e, p).mixed = (Base(p).mixed \/ tx[e].version[p[1]] # version[p[1]])
    BY StoredFields
  <2>2. ~Stored(e, p).mixed
    BY <1>1
  <2>. QED
    BY <2>1, <2>2, Zenon
<1>4. p[1] \in DOMAIN tx[e].def /\ Written(tx[e].def[p[1]], w)
  BY <1>1 DEF Busy
<1>5. RuleLink(e, p[1]) /\ PairLink(e, p)
  BY <1>1, <1>4 DEF LinkInv, LinkFine
<1>6. tx[e].def[p[1]] = rule[p[1]] /\ w.old = Base(p)
  <2>1. ~Outlived(e, p)
    <3>1. w.old.epoch # 0 => state[p] # None /\ state[p].epoch = w.old.epoch
      BY <1>1 DEF Storable
    <3>2. state[p] # None => state[p].epoch = life[p] + 1
      BY <1>1 DEF OrphanInv
    <3>3. life[p] \in Nat
      BY <1>1 DEF TypeInv
    <3>4. ~(life[p] + 1 <= life[p])
      BY <3>3, SMT
    <3>. QED
      BY <3>1, <3>2, <3>4 DEF Outlived
  <2>. QED
    BY <1>2, <1>3, <1>5, <2>1 DEF RuleLink, PairLink, Base
<1>7. past[p].streak = w.old.count /\ (past[p].last = "triggered" <=> w.old.active)
  <2>1. PastFine(p)
    BY <1>1 DEF PastInv
  <2>2. CASE state[p] = None
    BY <1>6, <2>1, <2>2 DEF PastFine, NoPast, NewState, Base
  <2>3. CASE state[p] # None
    BY <1>3, <1>6, <2>1, <2>3 DEF PastFine, Base
  <2>. QED
    BY <2>2, <2>3
<1>8. state'[p].count = w.new.count /\ state'[p].active = w.new.active
  BY <1>1, <1>6, StoredFields
<1>9. /\ past'[p].streak = IF ~w.breached THEN 0
                            ELSE IF w.old.count < MaxCount THEN w.old.count + 1 ELSE MaxCount
      /\ past'[p].last = IF w.status = "none" THEN past[p].last ELSE w.status
  BY <1>1, <1>3, <1>7, PastAfterFields
<1>10. Written(rule[p[1]], w)
  BY <1>4, <1>6
<1>11. w.breached \in BOOLEAN /\ w.old.active \in BOOLEAN /\ w.new.active \in BOOLEAN
  BY <1>10 DEF Written, AnyState
<1>. HIDE DEF w
<1>12. past'[p].streak = w.new.count
  <2>1. CASE ~w.breached
    BY <1>9, <1>10, <2>1 DEF Written
  <2>2. CASE w.breached /\ w.old.count < MaxCount
    BY <1>9, <1>10, <2>2 DEF Written
  <2>3. CASE w.breached /\ ~(w.old.count < MaxCount)
    BY <1>9, <1>10, <2>3 DEF Written
  <2>. QED
    BY <1>11, <2>1, <2>2, <2>3
<1>13. past'[p].last = "triggered" <=> w.new.active
  <2>1. CASE w.status = "none"
    BY <1>7, <1>9, <1>10, <1>11, <2>1 DEF Written
  <2>2. CASE w.status = "triggered"
    BY <1>9, <1>10, <1>11, <2>2 DEF Written
  <2>3. CASE w.status = "recovered"
    BY <1>9, <1>10, <1>11, <2>3 DEF Written
  <2>. QED
    BY <1>10, <2>1, <2>2, <2>3 DEF Written
<1>. QED
  BY <1>7, <1>8, <1>10, <1>12, <1>13 DEF w

LEMMA PastStep ==
  TypeInv /\ OrphanInv /\ PastInv /\ LinkInv /\ [Next]_vars => PastInv'
<1> SUFFICES ASSUME TypeInv, OrphanInv, PastInv, LinkInv, [Next]_vars PROVE PastInv'
  OBVIOUS
<1>1. ASSUME NEW e \in Evaluator, Commit(e) PROVE PastInv'
  <2>1. ASSUME NEW p \in Pair PROVE PastFine(p)'
    <3>1. CASE p \in DOMAIN tx[e].wrote
      <4>1. state'[p] = Stored(e, p) /\ Stored(e, p) \in StateRow
        BY <1>1, <3>1, CommitEffect, StoredType
      <4>2. state'[p] # None
        BY <4>1, StoredIsRow
      <4>3. CASE state'[p].mixed
        BY <4>2, <4>3 DEF PastFine
      <4>4. CASE ~state'[p].mixed
        BY <1>1, <3>1, <4>2, <4>4, CommitUnmixed DEF PastFine
      <4>. QED
        BY <4>3, <4>4
    <3>2. CASE p \notin DOMAIN tx[e].wrote
      <4>1. state'[p] = state[p] /\ past'[p] = past[p]
        BY <1>1, <3>2, CommitEffect
      <4>. QED
        BY <4>1 DEF PastInv, PastFine
    <3>. QED
      BY <3>1, <3>2
  <2>. QED
    BY <2>1 DEF PastInv
<1>2. ASSUME NEW gone, Forget(gone) PROVE PastInv'
  <2>1. ASSUME NEW p \in Pair PROVE PastFine(p)'
    <3>1. CASE p \in gone
      BY <1>2, <3>1, ForgetEffect DEF PastFine
    <3>2. CASE p \notin gone
      <4>1. state'[p] = state[p] /\ past'[p] = past[p]
        BY <1>2, <3>2, ForgetEffect
      <4>. QED
        BY <4>1 DEF PastInv, PastFine
    <3>. QED
      BY <3>1, <3>2
  <2>. QED
    BY <2>1 DEF PastInv
<1>3. CASE UNCHANGED <<state, past>>
  BY <1>3 DEF PastInv, PastFine
<1>. QED
  BY <1>1, <1>2, <1>3
  DEF Next, vars, Begin, Evaluate, PassOver, Cleanup, Refused, CreateRule, UpdateRule, DeleteRule,
      SkipNotification, StartSending, FinishSending, LoseSender, Measure, ResetBaseline, Restart

\* A step that leaves rules and states alone, and the transaction of e, keeps its links.
LEMMA LinkKept ==
  ASSUME LinkInv, NEW e \in Evaluator, Working(e)', tx'[e] = tx[e], UNCHANGED <<rule, version, state, life>>
  PROVE  LinkFine(e)'
<1>1. LinkFine(e)
  BY DEF LinkInv, Working
<1>. QED
  BY <1>1 DEF LinkFine, RuleLink, PairLink, Outlived, Base

LEMMA LinkBegin ==
  ASSUME TypeInv, LinkInv, NEW e \in Evaluator, Begin(e)
  PROVE  LinkInv'
<1>1. /\ Others(e) /\ DOMAIN tx'[e].wrote = {}
      /\ \A r \in DOMAIN tx'[e].def : /\ r \in Rule /\ Applies(e, r)
                                      /\ tx'[e].def[r] = rule[r] /\ tx'[e].version[r] = version[r]
      /\ UNCHANGED <<rule, version, state, life>>
  BY BeginEffect
<1>2. \A r \in Rule : version[r] \in Nat
  BY AlertsAssumption, SMT DEF TypeInv
<1>3. LinkFine(e)'
  <2>1. ASSUME NEW r \in DOMAIN tx'[e].def PROVE RuleLink(e, r)'
    BY <1>1, <1>2, <2>1, SMT DEF RuleLink, Applies
  <2>. QED
    BY <1>1, <2>1 DEF LinkFine
<1>. QED
  BY <1>1, <1>3, LinkKept DEF LinkInv, Others

LEMMA LinkEvaluate ==
  ASSUME TypeInv, OrphanInv, LinkInv, NEW e \in Evaluator, Evaluate(e)
  PROVE  LinkInv'
<1>1. PICK p \in tx[e].todo :
        /\ Others(e) /\ tx[e].pc = "eval" /\ p \in Pair
        /\ tx'[e].def = tx[e].def /\ tx'[e].version = tx[e].version
        /\ DOMAIN tx'[e].wrote = DOMAIN tx[e].wrote \cup {p}
        /\ tx'[e].wrote[p].old = Base(p)
        /\ \A q \in DOMAIN tx[e].wrote : q # p => tx'[e].wrote[q] = tx[e].wrote[q]
        /\ UNCHANGED <<rule, version, state, life>>
  BY EvaluateEffect
<1>2. LinkFine(e)
  BY <1>1 DEF LinkInv, Working
<1>3. LinkFine(e)'
  <2>1. ASSUME NEW r \in DOMAIN tx'[e].def PROVE RuleLink(e, r)'
    BY <1>1, <1>2, <2>1 DEF LinkFine, RuleLink
  <2>2. ASSUME NEW q \in DOMAIN tx'[e].wrote PROVE PairLink(e, q)'
    <3>1. Base(q)' = Base(q)
      BY <1>1 DEF Base
    <3>2. CASE q = p
      <4>1. life[p] \in Nat
        BY <1>1 DEF TypeInv
      <4>2. /\ Base(p).epoch <= life[p] + 1
            /\ Base(p).epoch = 0 => Base(p) = NewState
        <5>1. CASE state[p] = None
          <6>1. Base(p) = NewState /\ NewState.epoch = 0
            BY <5>1 DEF Base, NewState
          <6>. QED
            BY <4>1, <6>1, SMT
        <5>2. CASE state[p] # None
          <6>1. Base(p).epoch = life[p] + 1
            BY <1>1, <5>2 DEF Base, OrphanInv
          <6>. QED
            BY <4>1, <6>1, SMT
        <5>. QED
          BY <5>1, <5>2
      <4>. QED
        BY <1>1, <3>1, <3>2, <4>2 DEF PairLink
    <3>3. CASE q # p
      <4>1. q \in DOMAIN tx[e].wrote /\ tx'[e].wrote[q] = tx[e].wrote[q]
        BY <1>1, <3>3
      <4>. QED
        BY <1>1, <1>2, <3>1, <4>1 DEF PairLink, Outlived, LinkFine
    <3>. QED
      BY <3>2, <3>3
  <2>. QED
    BY <2>1, <2>2 DEF LinkFine
<1>. QED
  BY <1>1, <1>3, LinkKept DEF LinkInv, Others

LEMMA LinkCleanup ==
  ASSUME TypeInv, LinkInv, NEW e \in Evaluator, Cleanup(e) \/ PassOver(e)
  PROVE  LinkInv'
<1>1. /\ Others(e) /\ tx'[e].def = tx[e].def /\ tx'[e].version = tx[e].version
      /\ tx'[e].wrote = tx[e].wrote /\ UNCHANGED <<rule, version, state, life>>
  BY CleanupEffect, PassOverEffect
<1>2. LinkFine(e)
  BY DEF LinkInv, Working, Cleanup, PassOver
<1>3. LinkFine(e)'
  BY <1>1, <1>2 DEF LinkFine, RuleLink, PairLink, Outlived, Base
<1>. QED
  BY <1>1, <1>3, LinkKept DEF LinkInv, Others

\* Evaluators have rules of their own: what another of them commits upon a target that is
\* evaluated here was read before the rule changed hands, and leaves a mixed row.
LEMMA LinkCommit ==
  ASSUME TypeInv, OrphanInv, LinkInv, NEW e \in Evaluator, Commit(e)
  PROVE  LinkInv'
<1>1. /\ Others(e) /\ Busy(tx[e]) /\ tx'[e] = Idle /\ Storable(e) /\ Working(e)
      /\ \A p \in Pair : /\ p \in DOMAIN tx[e].wrote => state'[p] = Stored(e, p)
                         /\ p \notin DOMAIN tx[e].wrote => state'[p] = state[p]
      /\ UNCHANGED <<rule, version, life>>
  BY CommitEffect DEF Working
<1>2. ASSUME NEW f \in Evaluator, Working(f)' PROVE LinkFine(f)'
  <2>1. f # e /\ tx'[f] = tx[f] /\ Working(f)
    BY <1>1, <1>2, NotBusy DEF Others, Working
  <2>2. LinkFine(f) /\ Busy(tx[f])
    BY <2>1, IsBusy DEF LinkInv, Working
  <2>3. ASSUME NEW r \in DOMAIN tx'[f].def PROVE RuleLink(f, r)'
    BY <1>1, <2>1, <2>2, <2>3 DEF LinkFine, RuleLink
  <2>4. ASSUME NEW p \in DOMAIN tx'[f].wrote PROVE PairLink(f, p)'
    <3>1. PairLink(f, p) /\ p \in Pair /\ p[1] \in DOMAIN tx[f].def /\ RuleLink(f, p[1])
      BY <2>1, <2>2, <2>4 DEF LinkFine, Busy
    <3>2. CASE p \notin DOMAIN tx[e].wrote
      BY <1>1, <2>1, <3>1, <3>2 DEF PairLink, Outlived, Base
    <3>3. CASE p \in DOMAIN tx[e].wrote /\ tx[f].version[p[1]] = version[p[1]] /\ rule[p[1]] # None
      <4>1. p[1] \in DOMAIN tx[e].def /\ RuleLink(e, p[1])
        BY <1>1, <3>3 DEF Busy, LinkInv, LinkFine
      <4>2. rule[p[1]].by = f
        BY <3>1, <3>3 DEF RuleLink
      <4>3. tx[e].version[p[1]] # version[p[1]]
        BY <2>1, <3>3, <4>1, <4>2 DEF RuleLink
      <4>4. Stored(e, p).mixed = (Base(p).mixed \/ tx[e].version[p[1]] # version[p[1]])
        BY StoredFields
      <4>5. state'[p] = Stored(e, p) /\ Stored(e, p) # None
        BY <1>1, <3>1, <3>3, StoredType, StoredIsRow
      <4>6. state'[p].mixed
        BY <4>3, <4>4, <4>5, Zenon
      <4>. QED
        BY <1>1, <2>1, <3>1, <4>5, <4>6 DEF PairLink
    <3>4. CASE tx[f].version[p[1]] # version[p[1]] \/ rule[p[1]] = None
      BY <1>1, <2>1, <3>1, <3>4 DEF PairLink
    <3>. QED
      BY <3>2, <3>3, <3>4
  <2>. QED
    BY <2>3, <2>4 DEF LinkFine
<1>. QED
  BY <1>2 DEF LinkInv

\* An edit of a rule makes what was read of it old.
LEMMA LinkEdit ==
  ASSUME TypeInv, LinkInv, NEW r \in Rule, CreateRule(r) \/ UpdateRule(r) \/ DeleteRule(r)
  PROVE  LinkInv'
<1>1. /\ tx' = tx
      /\ \A p \in Pair : p[1] # r => state'[p] = state[p] /\ life'[p] = life[p]
      /\ \A p \in Pair : life[p] \in Nat /\ life'[p] \in Nat /\ life[p] <= life'[p]
  <2>1. \A p \in Pair : life[p] \in Nat /\ life[p] <= life[p]
    BY SMT DEF TypeInv
  <2>2. CASE CreateRule(r)
    BY <2>1, <2>2 DEF CreateRule
  <2>3. CASE UpdateRule(r) \/ DeleteRule(r)
    <3>1. tx' = tx /\ Forget({r} \X Target)
      BY <2>3 DEF UpdateRule, DeleteRule
    <3>. QED
      BY <2>1, <3>1, ForgetEffect, ForgetType, OfRule
  <2>. QED
    BY <2>2, <2>3
<1>2. \A q \in Rule : q # r => rule'[q] = rule[q] /\ version'[q] = version[q]
  BY RuleTypes
<1>3. version'[r] = version[r] + 1 \/ (version' = version /\ rule'[r] = None)
  BY RuleTypes
<1>4. \A q \in Rule : version[q] \in Nat
  BY AlertsAssumption, SMT DEF TypeInv
<1>5. ASSUME NEW e \in Evaluator, Working(e)' PROVE LinkFine(e)'
  <2>1. LinkFine(e) /\ Busy(tx[e])
    BY <1>1, <1>5, IsBusy DEF LinkInv, Working
  <2>2. \A q \in DOMAIN tx[e].def : q \in Rule /\ tx[e].version[q] \in Nat
    BY <2>1 DEF Busy
  <2>3. r \in DOMAIN tx[e].def => /\ tx[e].def[r].by = e /\ tx[e].version[r] <= version'[r]
                                  /\ tx[e].version[r] = version'[r] => rule'[r] = None
    <3>1. r \in DOMAIN tx[e].def => tx[e].def[r].by = e /\ tx[e].version[r] <= version[r]
      BY <2>1 DEF LinkFine, RuleLink
    <3>2. r \in DOMAIN tx[e].def => tx[e].version[r] \in Nat /\ version[r] \in Nat
      BY <1>4, <2>2
    <3>. QED
      BY <1>3, <3>1, <3>2, SMT
  <2>4. ASSUME NEW q \in DOMAIN tx'[e].def PROVE RuleLink(e, q)'
    <3>1. CASE q = r
      BY <1>1, <2>3, <2>4, <3>1 DEF RuleLink
    <3>2. CASE q # r
      BY <1>1, <1>2, <2>1, <2>2, <2>4, <3>2 DEF RuleLink, LinkFine
    <3>. QED
      BY <3>1, <3>2
  <2>5. ASSUME NEW p \in DOMAIN tx'[e].wrote PROVE PairLink(e, p)'
    <3>1. PairLink(e, p) /\ p \in Pair /\ p[1] \in DOMAIN tx[e].def
      BY <1>1, <2>1, <2>5 DEF LinkFine, Busy
    <3>2. CASE p[1] = r
      <4>1. tx[e].wrote[p].old.epoch \in Nat
        BY <1>1, <2>1, <2>5 DEF Busy, Written, AnyState
      <4>2. tx[e].wrote[p].old.epoch <= life'[p] + 1
        BY <1>1, <3>1, <4>1, SMT DEF PairLink
      <4>. QED
        BY <1>1, <2>3, <3>1, <3>2, <4>2 DEF PairLink
    <3>3. CASE p[1] # r
      BY <1>1, <1>2, <2>2, <3>1, <3>3 DEF PairLink, Outlived, Base
    <3>. QED
      BY <3>2, <3>3
  <2>. QED
    BY <2>4, <2>5 DEF LinkFine
<1>. QED
  BY <1>5 DEF LinkInv

\* After a reset, what was read of the states it deleted belongs to a life that is over.
LEMMA LinkReset ==
  ASSUME TypeInv, LinkInv, NEW t \in Target, ResetBaseline(t)
  PROVE  LinkInv'
<1>1. Forget(Baselined(t)) /\ UNCHANGED <<rule, version, tx>>
  BY ResetEffect
<1>2. ASSUME NEW e \in Evaluator, Working(e)' PROVE LinkFine(e)'
  <2>1. LinkFine(e) /\ Busy(tx[e])
    BY <1>1, <1>2, IsBusy DEF LinkInv, Working
  <2>2. ASSUME NEW r \in DOMAIN tx'[e].def PROVE RuleLink(e, r)'
    BY <1>1, <2>1, <2>2 DEF RuleLink, LinkFine
  <2>3. ASSUME NEW p \in DOMAIN tx'[e].wrote PROVE PairLink(e, p)'
    <3>1. PairLink(e, p) /\ p \in Pair /\ tx[e].wrote[p].old \in AnyState
      BY <1>1, <2>1, <2>3 DEF LinkFine, Busy, Written
    <3>2. CASE p \in Baselined(t)
      <4> DEFINE old == tx[e].wrote[p].old
      <4>1. state'[p] = None /\ life'[p] = life[p] + 1 /\ life[p] \in Nat
        BY <1>1, <3>1, <3>2, ForgetEffect DEF TypeInv
      <4>2. /\ old.epoch <= life[p] + 1 /\ old.epoch \in Nat
            /\ old.epoch = 0 => old = NewState
        BY <3>1 DEF PairLink, AnyState
      <4>3. old.epoch <= life'[p] /\ old.epoch <= life'[p] + 1
        BY <4>1, <4>2, SMT
      <4>4. old.epoch = 0 => old = Base(p)'
        BY <4>1, <4>2 DEF Base, NewState
      <4>. QED
        BY <1>1, <4>2, <4>3, <4>4 DEF PairLink, Outlived
    <3>3. CASE p \notin Baselined(t)
      <4>1. state'[p] = state[p] /\ life'[p] = life[p]
        BY <1>1, <3>1, <3>3, ForgetEffect
      <4>. QED
        BY <1>1, <3>1, <4>1 DEF PairLink, Outlived, Base
    <3>. QED
      BY <3>2, <3>3
  <2>. QED
    BY <2>2, <2>3 DEF LinkFine
<1>. QED
  BY <1>2 DEF LinkInv

LEMMA LinkStep ==
  TypeInv /\ OrphanInv /\ LinkInv /\ [Next]_vars => LinkInv'
<1> SUFFICES ASSUME TypeInv, OrphanInv, LinkInv, [Next]_vars PROVE LinkInv'
  OBVIOUS
<1>1. ASSUME NEW e \in Evaluator, Refused(e) PROVE LinkInv'
  <2>1. Others(e) /\ tx'[e] \in {Idle, Dead} /\ UNCHANGED <<rule, version, state, life>>
    BY <1>1, RefusedEffect
  <2>2. ~Working(e)'
    BY <2>1, NotBusy DEF Working
  <2>. QED
    BY <2>1, <2>2, LinkKept DEF LinkInv, Others
<1>2. ASSUME NEW e \in Evaluator,
             SkipNotification(e) \/ StartSending(e) \/ FinishSending(e) \/ LoseSender(e)
      PROVE  LinkInv'
  <2>1. \A f \in Evaluator : tx'[f] = tx[f] \/ tx'[f] = Dead
    BY <1>2, SenderEffect
  <2>2. UNCHANGED <<rule, version, state, life>>
    BY <1>2 DEF SkipNotification, StartSending, FinishSending, LoseSender
  <2>3. \A f \in Evaluator : Working(f)' => tx'[f] = tx[f]
    BY <2>1, NotBusy DEF Working
  <2>. QED
    BY <2>2, <2>3, LinkKept DEF LinkInv
<1>3. CASE Restart
  BY <1>3, RestartEffect, NotBusy DEF LinkInv, Working
<1>4. CASE UNCHANGED <<rule, version, state, life, tx>>
  BY <1>4, LinkKept DEF LinkInv
<1>. QED
  BY <1>1, <1>2, <1>3, <1>4, LinkBegin, LinkEvaluate, LinkCleanup, LinkCommit, LinkEdit,
     LinkReset
  DEF Next, vars, Measure

\* Only its own commit ends a transaction that the database would take.
LEMMA IsCommit ==
  ASSUME TypeInv, Next, NEW e \in Evaluator, Committing(e), Storable(e)
  PROVE  Commit(e)
<1>1. tx[e].pc = "ready" /\ tx'[e].pc = "idle" /\ restarts' = restarts
  BY DEF Committing
<1>2. ASSUME NEW f \in Evaluator, Begin(f) PROVE FALSE
  <2>1. tx[f].pc = "idle" /\ Others(f)
    BY <1>2, BeginEffect DEF Begin
  <2>. QED
    BY <1>1, <2>1 DEF Others
<1>3. ASSUME NEW f \in Evaluator, Evaluate(f) PROVE FALSE
  <2>1. tx[f].pc = "eval" /\ Others(f)
    BY <1>3, EvaluateEffect
  <2>. QED
    BY <1>1, <2>1 DEF Others
<1>4. ASSUME NEW f \in Evaluator, Cleanup(f) PROVE FALSE
  <2>1. tx[f].pc = "eval" /\ Others(f)
    BY <1>4, CleanupEffect DEF Cleanup
  <2>. QED
    BY <1>1, <2>1 DEF Others
<1>5. ASSUME NEW f \in Evaluator, Commit(f) PROVE Commit(e)
  <2>1. Others(f)
    BY <1>5, CommitEffect
  <2>. QED
    BY <1>1, <1>5, <2>1 DEF Others
<1>6. ASSUME NEW f \in Evaluator, Refused(f) PROVE FALSE
  <2>1. Others(f) /\ ~Storable(f)
    BY <1>6, RefusedEffect
  <2>. QED
    BY <1>1, <2>1 DEF Others
<1>7. ASSUME NEW f \in Evaluator,
             SkipNotification(f) \/ StartSending(f) \/ FinishSending(f) \/ LoseSender(f)
      PROVE  FALSE
  <2>1. tx'[e] = tx[e] \/ tx'[e] = Dead
    BY <1>7, SenderEffect
  <2>. QED
    BY <1>1, <2>1 DEF Dead
<1>8. ASSUME Restart PROVE FALSE
  <2>1. restarts' = restarts + 1 /\ restarts \in 0..MaxRestarts
    BY <1>8 DEF Restart, TypeInv
  <2>. QED
    BY <1>1, <2>1, AlertsAssumption, SMT
<1>9. ASSUME tx' = tx PROVE FALSE
  BY <1>1, <1>9
<1>10. ASSUME NEW f \in Evaluator, PassOver(f) PROVE FALSE
  <2>1. tx[f].pc = "eval" /\ Others(f)
    BY <1>10, PassOverEffect
  <2>. QED
    BY <1>1, <2>1 DEF Others
<1>. QED
  BY <1>2, <1>3, <1>4, <1>5, <1>6, <1>7, <1>8, <1>9, <1>10
  DEF Next, CreateRule, UpdateRule, DeleteRule, Measure, ResetBaseline

LEMMA EarnedStep ==
  ASSUME TypeInv, MadeInv, OrphanInv, PastInv, LinkInv, NEW e \in Evaluator, Commit(e),
         NEW i \in DOMAIN tx[e].made
  PROVE  LET x == tx[e].made[i]
             p == <<x.rule, x.target>>
         IN ~state'[p].mixed =>
              IF x.status = "triggered"
              THEN past[p].last = "recovered" /\ past'[p].streak >= rule[x.rule].required
              ELSE past[p].last = "triggered"
<1> DEFINE x == tx[e].made[i]
           p == <<x.rule, x.target>>
           w == tx[e].wrote[p]
<1> SUFFICES ASSUME ~state'[p].mixed
             PROVE  IF x.status = "triggered"
                    THEN past[p].last = "recovered" /\ past'[p].streak >= rule[x.rule].required
                    ELSE past[p].last = "triggered"
  OBVIOUS
<1>1. Busy(tx[e]) /\ Working(e)
  BY CommitEffect DEF Working
<1>2. p \in DOMAIN tx[e].wrote /\ w.status = x.status
  BY <1>1 DEF MadeInv, MadeFine
<1>3. x \in EventRow
  <2>1. tx[e].made \in Seq(EventRow)
    BY <1>1 DEF Busy
  <2>. QED
    BY <2>1, RowsOf
<1>4. x.status \in {"triggered", "recovered"}
  BY <1>3 DEF EventRow
<1>5. p \in Pair /\ p[1] = x.rule
  BY <1>1, <1>2 DEF Busy
<1>6. past[p].last \in {"triggered", "recovered"}
  BY <1>5 DEF TypeInv
<1>7. /\ Written(rule[p[1]], w)
      /\ past[p].last = "triggered" <=> w.old.active
      /\ past'[p].streak = w.new.count
  BY <1>2, CommitUnmixed
<1>8. w.breached \in BOOLEAN /\ w.old.active \in BOOLEAN
  BY <1>7 DEF Written, AnyState
<1>. HIDE DEF x, p, w
<1>9. CASE x.status = "triggered"
  BY <1>2, <1>5, <1>6, <1>7, <1>8, <1>9 DEF Written
<1>10. CASE x.status = "recovered"
  BY <1>2, <1>6, <1>7, <1>8, <1>10 DEF Written
<1>. QED
  BY <1>4, <1>9, <1>10

(* An event says what happened: "triggered" only after `required` breached evaluations in a *)
(* row of the rule as it is, of a target that was not firing, "recovered" only of one that  *)
(* was.  Whatever other evaluators commit, the database refuses, an administrator edits or  *)
(* a restart interrupts between _evaluate and the commit, unless a stale evaluation wrote   *)
(* into the row.                                                                             *)
THEOREM AlertsEventsEarned == Spec => EventsEarned
<1>1. TypeInv /\ MadeInv /\ OrphanInv /\ PastInv /\ LinkInv /\ [Next]_vars
        => (TypeInv /\ MadeInv /\ OrphanInv /\ PastInv /\ LinkInv)'
  BY TypeStep, MadeStep, OrphanStep, PastStep, LinkStep
<1>2. Init => PastInv /\ LinkInv
  <2>1. Init => /\ \A p \in Pair : state[p] = None /\ past[p] = NoPast
                /\ \A e \in Evaluator : tx[e] = Idle
    BY DEF Init
  <2>. QED
    BY <2>1, NotBusy DEF PastInv, PastFine, LinkInv, Working
<1>3. ASSUME TypeInv, MadeInv, OrphanInv, PastInv, LinkInv, [Next]_vars
      PROVE  [\A e \in Evaluator : Committing(e) /\ Storable(e) =>
                \A i \in DOMAIN tx[e].made :
                  LET x == tx[e].made[i]
                      p == <<x.rule, x.target>>
                  IN ~state'[p].mixed =>
                       IF x.status = "triggered"
                       THEN past[p].last = "recovered" /\ past'[p].streak >= rule[x.rule].required
                       ELSE past[p].last = "triggered"]_vars
  <2> SUFFICES ASSUME Next, NEW e \in Evaluator, Committing(e), Storable(e),
                      NEW i \in DOMAIN tx[e].made
               PROVE  LET x == tx[e].made[i]
                          p == <<x.rule, x.target>>
                      IN ~state'[p].mixed =>
                           IF x.status = "triggered"
                           THEN past[p].last = "recovered"
                                /\ past'[p].streak >= rule[x.rule].required
                           ELSE past[p].last = "triggered"
    BY <1>3
  <2>1. Commit(e)
    BY <1>3, IsCommit
  <2>. QED
    BY <1>3, <2>1, EarnedStep
<1>. QED
  BY <1>1, <1>2, <1>3, TypeInit, MadeInit, OrphanInit, PTL DEF Spec, EventsEarned

-----------------------------------------------------------------------------
(* The table of events stays bounded.                                      *)

\* Rows that the transaction of e leaves, of the table and of what it made itself.
Live(e) == {i \in DOMAIN events : e \notin events[i].doomed}
LiveMade(e) == {i \in DOMAIN tx[e].made : e \notin tx[e].made[i].doomed}

\* It made events, so it cleaned up, and waits for its commit.
Cleaned(e) == tx[e].pc = "ready" /\ tx[e].made # << >>

\* Room for the rows of some evaluators on top of the limit.
Allowed(S) == MaxRows + Cardinality(S) * Cardinality(Pair)

\* C[e] are the others that added rows since e cleaned up; one of them that has cleaned up
\* again did so later, and has seen no more of the others than e has.
Since(C, e) ==
  /\ e \notin C[e]
  /\ Cardinality(Live(e)) + Cardinality(LiveMade(e)) <= Allowed(C[e])
  /\ \A f \in C[e] : Cleaned(f) => C[f] \subseteq C[e]

\* An evaluation makes at most one event for each target.
ShortInv == \A e \in Evaluator : Working(e) => Len(tx[e].made) <= Cardinality(DOMAIN tx[e].wrote)

BoundInv ==
  /\ RowsBounded
  /\ \E C \in [Evaluator -> SUBSET Evaluator] : \A e \in Evaluator : Cleaned(e) => Since(C, e)

LEMMA FiniteSets ==
  /\ IsFiniteSet(Pair) /\ Cardinality(Pair) \in Nat
  /\ IsFiniteSet(Evaluator) /\ Cardinality(Evaluator) \in Nat
  /\ \A S \in SUBSET Evaluator : IsFiniteSet(S) /\ Cardinality(S) \in Nat
<1>1. IsFiniteSet(Pair)
  BY AlertsAssumption, FS_Product DEF Pair
<1>2. IsFiniteSet({"heartbeat", "offline", "business"})
  <2>1. IsFiniteSet({"heartbeat"})
    BY FS_Singleton
  <2>2. IsFiniteSet({"heartbeat"} \cup {"offline"})
    BY <2>1, FS_AddElement
  <2>3. IsFiniteSet(({"heartbeat"} \cup {"offline"}) \cup {"business"})
    BY <2>2, FS_AddElement
  <2>4. ({"heartbeat"} \cup {"offline"}) \cup {"business"} = {"heartbeat", "offline", "business"}
    OBVIOUS
  <2>. QED
    BY <2>3, <2>4
<1>3. IsFiniteSet(Evaluator)
  BY <1>2, AlertsAssumption, FS_Subset
<1>4. \A S \in SUBSET Evaluator : IsFiniteSet(S)
  BY <1>3, FS_Subset
<1>. QED
  BY <1>1, <1>3, <1>4, FS_CardinalityType

LEMMA Products ==
  ASSUME NEW a \in Nat, NEW b \in Nat, NEW n \in Nat, a <= b
  PROVE  a * n <= b * n /\ (a + 1) * n = a * n + n /\ a * n \in Nat
BY SMT

\* Room for one more.
LEMMA AllowedMore ==
  ASSUME NEW S \in SUBSET Evaluator, NEW T \in SUBSET S, NEW e \in S, e \notin T
  PROVE  /\ Allowed(T) + Cardinality(Pair) <= Allowed(S)
         /\ Allowed(T) \in Nat /\ Allowed(S) \in Nat
<1>1. IsFiniteSet(S) /\ IsFiniteSet(T)
  BY FiniteSets
<1>2. Cardinality(S) \in Nat /\ Cardinality(T) \in Nat /\ Cardinality(Pair) \in Nat
  BY FiniteSets
<1>3. Cardinality(T \cup {e}) = Cardinality(T) + 1
  BY <1>1, FS_AddElement
<1>4. Cardinality(T \cup {e}) <= Cardinality(S)
  <2>1. T \cup {e} \in SUBSET S
    OBVIOUS
  <2>. QED
    BY <1>1, <2>1, FS_Subset
<1>5. Cardinality(T) + 1 <= Cardinality(S) /\ Cardinality(T) + 1 \in Nat
  BY <1>2, <1>3, <1>4, SMT
<1>6. /\ (Cardinality(T) + 1) * Cardinality(Pair) <= Cardinality(S) * Cardinality(Pair)
      /\ Cardinality(S) * Cardinality(Pair) \in Nat
  BY <1>2, <1>5, Products
<1>7. /\ (Cardinality(T) + 1) * Cardinality(Pair) = Cardinality(T) * Cardinality(Pair) + Cardinality(Pair)
      /\ Cardinality(T) * Cardinality(Pair) \in Nat
  BY <1>2, Products
<1> DEFINE s == Cardinality(S) * Cardinality(Pair)
           t == Cardinality(T) * Cardinality(Pair)
<1>8. t + Cardinality(Pair) <= s /\ s \in Nat /\ t \in Nat
  BY <1>6, <1>7
<1>. HIDE DEF s, t
<1>9. MaxRows + t + Cardinality(Pair) <= MaxRows + s /\ MaxRows + t \in Nat /\ MaxRows + s \in Nat
  BY <1>2, <1>8, AlertsAssumption, SMT
<1>. QED
  BY <1>9 DEF Allowed, s, t

\* What the others may have added stays within the bound.
LEMMA AllowedBound ==
  ASSUME NEW e \in Evaluator, NEW S \in SUBSET (Evaluator \ {e})
  PROVE  Allowed(S) <= MaxRows + (Cardinality(Evaluator) - 1) * Cardinality(Pair)
<1>1. IsFiniteSet(S) /\ IsFiniteSet(Evaluator) /\ Cardinality(Pair) \in Nat
      /\ Cardinality(S) \in Nat /\ Cardinality(Evaluator) \in Nat
  BY FiniteSets
<1>2. Cardinality(S \cup {e}) = Cardinality(S) + 1
  BY <1>1, FS_AddElement
<1>3. Cardinality(S \cup {e}) <= Cardinality(Evaluator)
  <2>1. S \cup {e} \in SUBSET Evaluator
    OBVIOUS
  <2>. QED
    BY <1>1, <2>1, FS_Subset
<1>4. Cardinality(S) <= Cardinality(Evaluator) - 1 /\ Cardinality(Evaluator) - 1 \in Nat
  BY <1>1, <1>2, <1>3, SMT
<1>5. /\ Cardinality(S) * Cardinality(Pair) <= (Cardinality(Evaluator) - 1) * Cardinality(Pair)
      /\ Cardinality(S) * Cardinality(Pair) \in Nat
      /\ (Cardinality(Evaluator) - 1) * Cardinality(Pair) \in Nat
  BY <1>1, <1>4, Products
<1> DEFINE s == Cardinality(S) * Cardinality(Pair)
           t == (Cardinality(Evaluator) - 1) * Cardinality(Pair)
<1>6. s <= t /\ s \in Nat /\ t \in Nat
  BY <1>5
<1>. HIDE DEF s, t
<1>7. MaxRows + s <= MaxRows + t
  BY <1>6, AlertsAssumption, SMT
<1>. QED
  BY <1>7 DEF Allowed, s, t

\* Things that go, each to a place of its own, into two rows of places.
LEMMA Counted ==
  ASSUME NEW X, NEW n \in Nat, NEW A, IsFiniteSet(A), NEW B, IsFiniteSet(B), B \subseteq Int,
         NEW g \in [X -> Int], \A x, y \in X : g[x] = g[y] => x = y,
         \A x \in X : g[x] \in A \/ g[x] - n \in B
  PROVE  IsFiniteSet(X) /\ Cardinality(X) <= Cardinality(A) + Cardinality(B)
<1> DEFINE moved == {y \in {g[x] : x \in X} : y - n \in B}
           h == [y \in moved |-> y - n]
<1>1. IsFiniteSet(moved) /\ Cardinality(moved) <= Cardinality(B)
  <2>1. \A y \in moved : y \in Int
    OBVIOUS
  <2>2. h \in [moved -> B]
    OBVIOUS
  <2>3. \A y, z \in moved : h[y] = h[z] => y = z
    BY <2>1, SMT
  <2>. HIDE DEF moved, h
  <2>4. h \in Injection(moved, B)
    BY <2>2, <2>3 DEF Injection, IsInjective
  <2>. QED
    BY <2>4, FS_Injection
<1>2. \A x \in X : g[x] \in A \cup moved
  OBVIOUS
<1>. HIDE DEF moved
<1>3. g \in Injection(X, A \cup moved)
  <2>1. g \in [X -> A \cup moved]
    BY <1>2
  <2>. QED
    BY <2>1 DEF Injection, IsInjective
<1>4. IsFiniteSet(A \cup moved) /\ Cardinality(A \cup moved) <= Cardinality(A) + Cardinality(moved)
  <2>1. /\ IsFiniteSet(A \cup moved)
        /\ Cardinality(A \cup moved) = Cardinality(A) + Cardinality(moved) - Cardinality(A \cap moved)
    BY <1>1, FS_Union
  <2>2. IsFiniteSet(A \cap moved)
    BY <1>1, FS_Intersection
  <2>3. Cardinality(A \cap moved) \in Nat /\ Cardinality(A) \in Nat /\ Cardinality(moved) \in Nat
    BY <1>1, <2>2, FS_CardinalityType
  <2>. QED
    BY <2>1, <2>3, SMT
<1>5. IsFiniteSet(X) /\ Cardinality(X) <= Cardinality(A \cup moved)
  BY <1>3, <1>4, FS_Injection
<1>6. /\ Cardinality(A) \in Nat /\ Cardinality(B) \in Nat /\ Cardinality(moved) \in Nat
      /\ Cardinality(X) \in Nat /\ Cardinality(A \cup moved) \in Nat
  BY <1>1, <1>4, <1>5, FS_CardinalityType
<1>. QED
  BY <1>1, <1>4, <1>5, <1>6, SMT

\* Of the rows that are in R, a commit leaves those it did not mark.
LEMMA CommitCount ==
  ASSUME TypeInv, NEW e \in Evaluator, Commit(e), NEW R
  PROVE  LET new == {k \in DOMAIN events' : events'[k] \in R}
             old == {i \in Live(e) : events[i] \in R}
             own == {i \in LiveMade(e) : tx[e].made[i] \in R}
         IN /\ IsFiniteSet(new) /\ IsFiniteSet(old) /\ IsFiniteSet(own)
            /\ Cardinality(new) <= Cardinality(old) + Cardinality(own)
<1> DEFINE rows == events \o tx[e].made
           kept == {i \in DOMAIN rows : e \notin rows[i].doomed}
           new == {k \in DOMAIN events' : events'[k] \in R}
           old == {i \in Live(e) : events[i] \in R}
           own == {i \in LiveMade(e) : tx[e].made[i] \in R}
<1>1. Busy(tx[e]) /\ events' \in Subsequence(rows, kept)
  BY IsBusy DEF Commit
<1>2. /\ rows \in Seq(EventRow) /\ Len(events) \in Nat /\ Len(rows) \in Nat /\ DOMAIN rows = 1..Len(rows)
      /\ Len(tx[e].made) \in Nat
      /\ DOMAIN events = 1..Len(events) /\ DOMAIN tx[e].made = 1..Len(tx[e].made)
      /\ \A i \in DOMAIN events : rows[i] = events[i]
      /\ \A i \in DOMAIN tx[e].made : rows[Len(events) + i] = tx[e].made[i]
      /\ \A i \in DOMAIN rows : i \in DOMAIN events \/ i - Len(events) \in DOMAIN tx[e].made
  BY <1>1, BothTables
<1>3. kept \in SUBSET (DOMAIN rows) /\ \A i \in kept : e \notin rows[i].doomed
  OBVIOUS
<1>. HIDE DEF rows, kept
<1>4. PICK f \in [DOMAIN events' -> kept] :
        /\ \A k \in DOMAIN events' : events'[k] = rows[f[k]]
        /\ \A i, j \in DOMAIN events' : i < j => f[i] < f[j]
  BY <1>1, <1>2, <1>3, SubsequenceRows
<1>5. DOMAIN events' \subseteq Nat
  <2>1. events' \in Seq(EventRow)
    BY CommitEffect
  <2>2. DOMAIN events' = 1..Len(events') /\ Len(events') \in Nat
    BY <2>1, RowsOf
  <2>. QED
    BY <2>2, SMT
<1>6. \A k \in DOMAIN events' : f[k] \in DOMAIN rows /\ f[k] \in Int /\ e \notin rows[f[k]].doomed
  BY <1>2, <1>3, <1>4
<1>7. \A i, j \in DOMAIN events' : f[i] = f[j] => i = j
  BY <1>4, <1>5, <1>6, SMT
<1>8. ASSUME NEW k \in new PROVE f[k] \in old \/ f[k] - Len(events) \in own
  <2>1. k \in DOMAIN events' /\ rows[f[k]] \in R /\ e \notin rows[f[k]].doomed /\ f[k] \in DOMAIN rows
    BY <1>4, <1>6, <1>8
  <2>2. CASE f[k] \in DOMAIN events
    BY <1>2, <2>1, <2>2 DEF Live
  <2>3. CASE f[k] - Len(events) \in DOMAIN tx[e].made
    <3>1. Len(events) + (f[k] - Len(events)) = f[k]
      BY <1>2, <1>6, <2>1, SMT
    <3>2. rows[f[k]] = tx[e].made[f[k] - Len(events)]
      BY <1>2, <2>3, <3>1
    <3>. QED
      BY <2>1, <2>3, <3>2 DEF LiveMade
  <2>. QED
    BY <1>2, <2>1, <2>2, <2>3
<1>9. IsFiniteSet(old) /\ IsFiniteSet(own) /\ own \subseteq Int
  <2>1. IsFiniteSet(1..Len(events)) /\ IsFiniteSet(1..Len(tx[e].made))
    <3>1. 1 \in Int /\ Len(events) \in Int /\ Len(tx[e].made) \in Int
      BY <1>2, SMT
    <3>. QED
      BY <3>1, FS_Interval
  <2>2. old \in SUBSET (1..Len(events)) /\ own \in SUBSET (1..Len(tx[e].made))
    BY <1>2 DEF Live, LiveMade
  <2>3. own \subseteq Int
    <3>1. 1..Len(tx[e].made) \subseteq Int
      BY <1>2, SMT
    <3>. HIDE DEF own
    <3>. QED
      BY <2>2, <3>1
  <2>. QED
    BY <2>1, <2>2, <2>3, FS_Subset
<1> DEFINE g == [k \in new |-> f[k]]
<1>10. /\ g \in [new -> Int] /\ \A i, j \in new : g[i] = g[j] => i = j
       /\ \A k \in new : g[k] \in old \/ g[k] - Len(events) \in own
  BY <1>6, <1>7, <1>8
<1>. HIDE DEF g, new, old, own
<1>11. IsFiniteSet(new) /\ Cardinality(new) <= Cardinality(old) + Cardinality(own)
  BY <1>2, <1>9, <1>10, Counted
<1>. QED
  BY <1>9, <1>11 DEF new, old, own

\* Rows that are not marked are no more than the rows.
LEMMA RowsCount ==
  ASSUME NEW rows \in Seq(EventRow), NEW S \in SUBSET (DOMAIN rows)
  PROVE  /\ IsFiniteSet(S) /\ Cardinality(S) \in Nat
         /\ Len(rows) \in Nat /\ Cardinality(S) <= Len(rows)
         /\ Cardinality(DOMAIN rows) = Len(rows)
<1>1. Len(rows) \in Nat /\ DOMAIN rows = 1..Len(rows)
  BY RowsOf
<1>2. 1 \in Int /\ Len(rows) \in Int
  BY <1>1, SMT
<1>3. IsFiniteSet(1..Len(rows))
      /\ Cardinality(1..Len(rows)) = IF 1 > Len(rows) THEN 0 ELSE Len(rows) - 1 + 1
  BY <1>2, FS_Interval
<1>4. (IF 1 > Len(rows) THEN 0 ELSE Len(rows) - 1 + 1) = Len(rows)
  BY <1>1, SMT
<1>5. IsFiniteSet(S) /\ Cardinality(S) <= Cardinality(1..Len(rows))
  BY <1>1, <1>3, FS_Subset
<1>. QED
  BY <1>1, <1>3, <1>4, <1>5, FS_CardinalityType

LEMMA CommitLive ==
  ASSUME TypeInv, TypeInv', NEW e \in Evaluator, Commit(e)
  PROVE  /\ Cardinality(Live(e)) \in Nat /\ Cardinality(LiveMade(e)) \in Nat
         /\ Len(events') \in Nat /\ Len(events') <= Cardinality(Live(e)) + Cardinality(LiveMade(e))
         /\ \A f \in Evaluator :
              /\ Cardinality(Live(f)) \in Nat /\ Cardinality(Live(f)') \in Nat
              /\ Cardinality(Live(f)') <= Len(events')
              /\ Cardinality(Live(f)') <= Cardinality(Live(f)) + Cardinality(LiveMade(e))
<1>1. events \in Seq(EventRow) /\ events' \in Seq(EventRow)
  BY DEF TypeInv
<1>2. Busy(tx[e])
  BY CommitEffect
<1>3. tx[e].made \in Seq(EventRow)
  BY <1>2 DEF Busy
<1>4. \A f \in Evaluator : /\ IsFiniteSet(Live(f)) /\ Cardinality(Live(f)) \in Nat
                           /\ Cardinality(Live(f)') \in Nat /\ Cardinality(Live(f)') <= Len(events')
  <2>1. \A f \in Evaluator : Live(f) \in SUBSET (DOMAIN events) /\ Live(f)' \in SUBSET (DOMAIN events')
    BY DEF Live
  <2>. QED
    BY <1>1, <2>1, RowsCount
<1>5. IsFiniteSet(LiveMade(e)) /\ Cardinality(LiveMade(e)) \in Nat
  <2>1. LiveMade(e) \in SUBSET (DOMAIN tx[e].made)
    BY DEF LiveMade
  <2>. QED
    BY <1>3, <2>1, RowsCount
<1>6. ASSUME NEW R
      PROVE  Cardinality({k \in DOMAIN events' : events'[k] \in R})
               <= Cardinality({i \in Live(e) : events[i] \in R}) + Cardinality(LiveMade(e))
  <2> DEFINE new == {k \in DOMAIN events' : events'[k] \in R}
             old == {i \in Live(e) : events[i] \in R}
             own == {i \in LiveMade(e) : tx[e].made[i] \in R}
  <2>1. /\ IsFiniteSet(new) /\ IsFiniteSet(old) /\ IsFiniteSet(own)
        /\ Cardinality(new) <= Cardinality(old) + Cardinality(own)
    BY CommitCount
  <2>2. own \in SUBSET LiveMade(e)
    OBVIOUS
  <2>. HIDE DEF new, old, own
  <2>3. Cardinality(own) <= Cardinality(LiveMade(e))
    BY <1>5, <2>2, FS_Subset
  <2>4. Cardinality(new) \in Nat /\ Cardinality(old) \in Nat /\ Cardinality(own) \in Nat
    BY <2>1, FS_CardinalityType
  <2>5. Cardinality(new) <= Cardinality(old) + Cardinality(LiveMade(e))
    BY <1>5, <2>1, <2>3, <2>4, SMT
  <2>. QED
    BY <2>5 DEF new, old
<1>7. Len(events') \in Nat /\ Len(events') <= Cardinality(Live(e)) + Cardinality(LiveMade(e))
  <2>1. {k \in DOMAIN events' : events'[k] \in EventRow} = DOMAIN events'
    BY <1>1, RowsOf
  <2>2. {i \in Live(e) : events[i] \in EventRow} = Live(e)
    BY <1>1, RowsOf DEF Live
  <2>3. Cardinality(DOMAIN events') = Len(events') /\ Len(events') \in Nat
    BY <1>1, RowsCount
  <2>4. Cardinality({k \in DOMAIN events' : events'[k] \in EventRow})
          <= Cardinality({i \in Live(e) : events[i] \in EventRow}) + Cardinality(LiveMade(e))
    BY <1>6
  <2>. QED
    BY <2>1, <2>2, <2>3, <2>4
<1>8. ASSUME NEW f \in Evaluator
      PROVE  Cardinality(Live(f)') <= Cardinality(Live(f)) + Cardinality(LiveMade(e))
  <2> DEFINE R == {r \in EventRow : f \notin r.doomed}
             old == {i \in Live(e) : events[i] \in R}
  <2>1. {k \in DOMAIN events' : events'[k] \in R} = Live(f)'
    BY <1>1, RowsOf DEF Live
  <2>2. old \in SUBSET Live(f)
    BY DEF Live
  <2>3. Cardinality(Live(f)') <= Cardinality(old) + Cardinality(LiveMade(e))
    <3>1. Cardinality({k \in DOMAIN events' : events'[k] \in R})
            <= Cardinality({i \in Live(e) : events[i] \in R}) + Cardinality(LiveMade(e))
      BY <1>6
    <3>. QED
      BY <2>1, <3>1
  <2>. HIDE DEF old, R
  <2>4. IsFiniteSet(old) /\ Cardinality(old) <= Cardinality(Live(f))
    BY <1>4, <2>2, FS_Subset
  <2>5. Cardinality(old) \in Nat
    BY <2>4, FS_CardinalityType
  <2>. QED
    BY <1>4, <1>5, <2>3, <2>4, <2>5, SMT
<1>. QED
  BY <1>4, <1>5, <1>7, <1>8

\* A rule's rows go: of the others none is added.
LEMMA DeleteCount ==
  ASSUME TypeInv, TypeInv', NEW r \in Rule, DeleteRule(r)
  PROVE  /\ Len(events') \in Nat /\ Len(events) \in Nat /\ Len(events') <= Len(events)
         /\ \A f \in Evaluator :
              /\ Cardinality(Live(f)) \in Nat /\ Cardinality(Live(f)') \in Nat
              /\ Cardinality(Live(f)') <= Cardinality(Live(f))
<1> DEFINE kept == {i \in DOMAIN events : events[i].rule # r}
<1>1. events \in Seq(EventRow) /\ events' \in Seq(EventRow)
      /\ kept \in SUBSET (DOMAIN events) /\ events' \in Subsequence(events, kept)
  BY DEF TypeInv, DeleteRule
<1>. HIDE DEF kept
<1>2. PICK g \in [DOMAIN events' -> kept] :
         /\ \A k \in DOMAIN events' : events'[k] = events[g[k]]
         /\ \A i, j \in DOMAIN events' : i < j => g[i] < g[j]
  BY <1>1, SubsequenceRows
<1>3. DOMAIN events' = 1..Len(events') /\ DOMAIN events = 1..Len(events)
      /\ Len(events') \in Nat /\ Len(events) \in Nat
  BY <1>1, RowsOf
<1>4. \A i \in DOMAIN events' : g[i] \in DOMAIN events
  BY <1>1, <1>2
<1>5. DOMAIN events' \subseteq Int /\ DOMAIN events \subseteq Int
  BY <1>3, SMT
<1>6. \A i, j \in DOMAIN events' : g[i] = g[j] => i = j
  <2>1. \A i, j \in DOMAIN events' : i < j \/ i = j \/ j < i
    BY <1>5, SMT
  <2>2. \A i \in DOMAIN events' : g[i] \in Int
    BY <1>4, <1>5
  <2>. QED
    BY <1>2, <2>1, <2>2, SMT
<1>7. ASSUME NEW X \in SUBSET (DOMAIN events'), NEW Y \in SUBSET (DOMAIN events),
             \A k \in X : g[k] \in Y
      PROVE  Cardinality(X) <= Cardinality(Y)
  <2> DEFINE h == [k \in X |-> g[k]]
  <2>1. h \in [X -> Y] /\ \A i, j \in X : h[i] = h[j] => i = j
    BY <1>6, <1>7
  <2>. HIDE DEF h
  <2>2. h \in Injection(X, Y)
    BY <2>1 DEF Injection, IsInjective
  <2>3. IsFiniteSet(Y)
    BY <1>1, RowsCount
  <2>. QED
    BY <2>2, <2>3, FS_Injection
<1>8. Len(events') <= Len(events)
  <2>1. Cardinality(DOMAIN events') <= Cardinality(DOMAIN events)
    BY <1>4, <1>7
  <2>. QED
    BY <1>1, <2>1, RowsCount
<1>9. ASSUME NEW f \in Evaluator
      PROVE  /\ Cardinality(Live(f)) \in Nat /\ Cardinality(Live(f)') \in Nat
             /\ Cardinality(Live(f)') <= Cardinality(Live(f))
  <2>1. Live(f) \in SUBSET (DOMAIN events) /\ Live(f)' \in SUBSET (DOMAIN events')
    BY DEF Live
  <2>2. \A k \in Live(f)' : g[k] \in Live(f)
    BY <1>2, <1>4 DEF Live
  <2>. QED
    BY <1>1, <1>7, <2>1, <2>2, RowsCount
<1>. QED
  BY <1>3, <1>8, <1>9

\* Retention takes every row that is followed by MaxRows others.
LEMMA GoneRows ==
  ASSUME NEW rows \in Seq(EventRow), NEW old \in 0..Len(rows), NEW j \in 1..Len(rows),
         j <= Len(rows) - MaxRows
  PROVE  j \in Gone(old, rows)
<1>1. Len(rows) \in Nat /\ old \in Nat /\ j \in Nat /\ old <= Len(rows) /\ MaxRows \in Nat \ {0}
      /\ DOMAIN rows = 1..Len(rows)
  BY RowsOf, AlertsAssumption
<1>2. CASE j <= old
  BY <1>1, <1>2 DEF Gone
<1>3. CASE j > old
  <2> DEFINE rest == SubSeq(rows, old + 1, Len(rows))
             time == Times(rest)
             n == Len(rows) - old
             k == j - old
  <2>1. n \in Nat /\ k \in 1..(n - MaxRows) /\ j = old + k /\ k \in 1..n /\ n - MaxRows + 1 \in 1..n
    BY <1>1, <1>3, SMT
  <2>2. rest \in Seq(EventRow) /\ Len(rest) = n
    <3>1. old + 1 \in Int /\ Len(rows) \in Int
      BY <1>1, SMT
    <3>2. \A i \in (old + 1)..Len(rows) : i \in DOMAIN rows
      BY <1>1, SMT
    <3>3. \A i \in (old + 1)..Len(rows) : rows[i] \in EventRow
      BY <3>2, RowsOf
    <3>4. /\ rest \in Seq(EventRow)
          /\ Len(rest) = IF old + 1 <= Len(rows) THEN Len(rows) - (old + 1) + 1 ELSE 0
      BY <3>1, <3>3, SubSeqProperties
    <3>5. old + 1 <= Len(rows) /\ Len(rows) - (old + 1) + 1 = n
      BY <1>1, <1>3, SMT
    <3>. QED
      BY <3>4, <3>5
  <2>. HIDE DEF rest
  <2>3. DOMAIN rest = 1..n
    BY <2>2, RowsOf
  <2>4. time = [i \in 1..n |-> i]
    BY <2>3 DEF Times
  <2>5. time \in [1..n -> Int] /\ \A i \in 1..n : time[i] = i
    <3>1. \A i \in 1..n : i \in Int
      BY <2>1, SMT
    <3>. QED
      BY <2>4, <3>1
  <2>. HIDE DEF time
  <2>6. Len(time) = n
    BY <2>1, <2>5, FromFunction
  <2>7. time[k] = k /\ time[n - MaxRows + 1] = n - MaxRows + 1
    BY <2>1, <2>5
  <2>8. k \in 1..((n - MaxRows + 1) - 1) /\ time[k] < time[n - MaxRows + 1]
    BY <1>1, <2>1, <2>7, SMT
  <2>9. k \in Surplus(time)
    BY <2>6, <2>8 DEF Surplus
  <2>10. k \in Surplus(Times(SubSeq(rows, old + 1, Len(rows))))
    BY <2>9 DEF time, rest
  <2>. QED
    BY <2>1, <2>10 DEF Gone
<1>. QED
  BY <1>1, <1>2, <1>3, SMT

LEMMA EmptyMade ==
  ASSUME NEW rows \in Seq(EventRow)
  PROVE  rows = << >> <=> Len(rows) = 0
<1>1. rows = << >> => Len(rows) = 0
  <2>1. << >> \in Seq(EventRow) /\ DOMAIN << >> = {}
    BY NoElements
  <2>2. DOMAIN << >> = 1..Len(<< >>) /\ Len(<< >>) \in Nat
    BY <2>1, RowsOf
  <2>3. Len(<< >>) = 0
    <3>1. 1 \notin 1..Len(<< >>)
      BY <2>1, <2>2
    <3>. QED
      BY <2>2, <3>1, SMT
  <2>. QED
    BY <2>3
<1>2. Len(rows) = 0 => rows = << >>
  BY EmptySeq
<1>. QED
  BY <1>1, <1>2

\* After its cleanup no more than MaxRows are left, of the table and of what it made.
LEMMA CleanupCount ==
  ASSUME TypeInv, NEW e \in Evaluator, Cleanup(e), tx'[e].made # << >>
  PROVE  Cardinality(Live(e)') + Cardinality(LiveMade(e)') <= MaxRows
<1> DEFINE rows == events \o tx[e].made
           l == Len(events)
           m == Len(tx[e].made)
<1>1. /\ Busy(tx[e]) /\ Busy(tx'[e])
      /\ events' \in Seq(EventRow) /\ Len(events') = Len(events)
      /\ DOMAIN events' = DOMAIN events /\ DOMAIN tx'[e].made = DOMAIN tx[e].made
      /\ Len(tx'[e].made) = Len(tx[e].made)
  BY CleanupEffect
<1>2. tx[e].made \in Seq(EventRow) /\ tx'[e].made \in Seq(EventRow)
  BY <1>1 DEF Busy
<1>3. tx[e].made # << >>
  BY <1>1, <1>2, EmptyMade
<1>4. PICK old \in 0..Len(events), hourly \in BOOLEAN : \E gone :
        /\ gone = IF tx[e].made # << >> \/ hourly THEN Gone(old, rows) ELSE {}
        /\ \A i \in DOMAIN events : MarkedAt(i, gone, e, events[i], events'[i])
        /\ \A i \in DOMAIN tx[e].made :
             MarkedAt(Len(events) + i, gone, e, tx[e].made[i], tx'[e].made[i])
  BY CleanupEffect
<1> DEFINE gone == Gone(old, rows)
<1>5. /\ \A i \in DOMAIN events : i \in gone => e \in events'[i].doomed
      /\ \A i \in DOMAIN tx[e].made : l + i \in gone => e \in tx'[e].made[i].doomed
  BY <1>3, <1>4 DEF MarkedAt
<1>6. /\ rows \in Seq(EventRow) /\ Len(rows) = l + m /\ l \in Nat /\ m \in Nat
      /\ DOMAIN events = 1..l /\ DOMAIN tx[e].made = 1..m
  BY <1>1, BothTables
<1>7. MaxRows \in Nat \ {0}
  BY AlertsAssumption
<1>. HIDE DEF rows, gone
<1>8. \A j \in 1..(l + m) : j <= l + m - MaxRows => j \in gone
  <2>1. old \in 0..Len(rows)
    BY <1>6, SMT
  <2>2. \A j \in 1..Len(rows) : j <= Len(rows) - MaxRows => j \in Gone(old, rows)
    BY <1>6, <2>1, GoneRows
  <2>3. Len(rows) = l + m /\ l \in Nat /\ m \in Nat
    BY <1>6
  <2>4. \A j \in 1..Len(rows) : j <= Len(rows) - MaxRows => j \in gone
    BY <2>2 DEF gone
  <2>. HIDE DEF l, m
  <2>. QED
    BY <1>7, <2>3, <2>4, SMT
<1>. HIDE DEF l, m
<1> DEFINE b == l + m - MaxRows
<1>9. Live(e)' \subseteq (b + 1)..l /\ Live(e)' \subseteq 1..l
  <2>1. ASSUME NEW i \in Live(e)' PROVE i \in 1..l /\ i \in (b + 1)..l
    <3>1. i \in 1..l /\ i \notin gone
      BY <1>1, <1>5, <1>6, <2>1 DEF Live
    <3>2. i \in 1..(l + m)
      BY <1>6, <3>1, SMT
    <3>. QED
      BY <1>6, <1>7, <1>8, <3>1, <3>2, SMT
  <2>. QED
    BY <2>1
<1>10. LiveMade(e)' \subseteq (b - l + 1)..m /\ LiveMade(e)' \subseteq 1..m
  <2>1. ASSUME NEW i \in LiveMade(e)' PROVE i \in 1..m /\ i \in (b - l + 1)..m
    <3>1. i \in 1..m /\ l + i \notin gone
      BY <1>1, <1>5, <1>6, <2>1 DEF LiveMade
    <3>2. l + i \in 1..(l + m)
      BY <1>6, <3>1, SMT
    <3>. QED
      BY <1>6, <1>7, <1>8, <3>1, <3>2, SMT
  <2>. QED
    BY <2>1
<1>11. ASSUME NEW S, NEW lo \in Int, NEW hi \in Nat, S \subseteq lo..hi, S \subseteq 1..hi
       PROVE  /\ Cardinality(S) \in Nat /\ Cardinality(S) <= hi
              /\ Cardinality(S) <= IF lo > hi THEN 0 ELSE hi - lo + 1
  <2>1. 1 \in Int /\ hi \in Int
    BY <1>11, SMT
  <2>2. /\ IsFiniteSet(lo..hi) /\ Cardinality(lo..hi) = IF lo > hi THEN 0 ELSE hi - lo + 1
        /\ IsFiniteSet(1..hi) /\ Cardinality(1..hi) = IF 1 > hi THEN 0 ELSE hi - 1 + 1
    BY <2>1, FS_Interval
  <2>3. IsFiniteSet(S) /\ Cardinality(S) <= Cardinality(lo..hi) /\ Cardinality(S) <= Cardinality(1..hi)
    BY <1>11, <2>2, FS_Subset
  <2>4. (IF 1 > hi THEN 0 ELSE hi - 1 + 1) = hi
    BY <1>11, SMT
  <2>. QED
    BY <2>2, <2>3, <2>4, FS_CardinalityType
<1>12. b + 1 \in Int /\ b - l + 1 \in Int
  BY <1>6, <1>7, SMT
<1>13. /\ Cardinality(Live(e)') \in Nat /\ Cardinality(Live(e)') <= l
       /\ Cardinality(Live(e)') <= IF b + 1 > l THEN 0 ELSE l - (b + 1) + 1
  BY <1>6, <1>9, <1>11, <1>12
<1>14. /\ Cardinality(LiveMade(e)') \in Nat /\ Cardinality(LiveMade(e)') <= m
       /\ Cardinality(LiveMade(e)') <= IF b - l + 1 > m THEN 0 ELSE m - (b - l + 1) + 1
  BY <1>6, <1>10, <1>11, <1>12
<1>. QED
  BY <1>6, <1>7, <1>13, <1>14, SMT

LEMMA ShortStep == TypeInv /\ MadeInv /\ ShortInv /\ [Next]_vars => ShortInv'
<1> SUFFICES ASSUME TypeInv, MadeInv, ShortInv, [Next]_vars PROVE ShortInv'
  OBVIOUS
<1> DEFINE Short(e) == Len(tx[e].made) <= Cardinality(DOMAIN tx[e].wrote)
<1>1. ASSUME NEW e \in Evaluator, Begin(e) PROVE ShortInv'
  <2>1. Others(e) /\ DOMAIN tx'[e].wrote = {} /\ tx'[e].made = << >>
    BY <1>1, BeginEffect
  <2>2. Len(tx'[e].made) = 0
    BY <2>1, NoElements, EmptyMade
  <2>3. Cardinality(DOMAIN tx'[e].wrote) = 0
    BY <2>1, FS_EmptySet
  <2>4. Len(tx'[e].made) <= Cardinality(DOMAIN tx'[e].wrote)
    BY <2>2, <2>3, SMT
  <2>. QED
    BY <2>1, <2>4 DEF ShortInv, Others, Working
<1>2. ASSUME NEW e \in Evaluator, Evaluate(e) PROVE ShortInv'
  <2>1. PICK p \in tx[e].todo :
           /\ Others(e) /\ Busy(tx[e]) /\ tx[e].pc = "eval"
           /\ DOMAIN tx'[e].wrote = DOMAIN tx[e].wrote \cup {p}
           /\ \/ tx'[e].made = tx[e].made
              \/ \E row \in EventRow : tx'[e].made = Append(tx[e].made, row)
    BY <1>2, EvaluateEffect
  <2>2. p \notin DOMAIN tx[e].wrote /\ Len(tx[e].made) <= Cardinality(DOMAIN tx[e].wrote)
    BY <2>1 DEF MadeInv, MadeFine, ShortInv, Working
  <2>3. DOMAIN tx[e].wrote \in SUBSET Pair /\ tx[e].made \in Seq(EventRow)
    BY <2>1 DEF Busy
  <2>4. IsFiniteSet(DOMAIN tx[e].wrote)
    BY <2>3, FiniteSets, FS_Subset
  <2>5. /\ Cardinality(DOMAIN tx'[e].wrote) = Cardinality(DOMAIN tx[e].wrote) + 1
        /\ Cardinality(DOMAIN tx[e].wrote) \in Nat
    BY <2>1, <2>2, <2>4, FS_AddElement, FS_CardinalityType
  <2>6. Len(tx'[e].made) = Len(tx[e].made) \/ Len(tx'[e].made) = Len(tx[e].made) + 1
    BY <2>1, <2>3, AppendProperties
  <2>7. Len(tx[e].made) \in Nat
    BY <2>3, RowsOf
  <2>8. Len(tx'[e].made) <= Cardinality(DOMAIN tx'[e].wrote)
    BY <2>2, <2>5, <2>6, <2>7, SMT
  <2>. QED
    BY <2>1, <2>8 DEF ShortInv, Others, Working
<1>3. ASSUME NEW e \in Evaluator, Cleanup(e) PROVE ShortInv'
  <2>1. Others(e) /\ tx'[e].wrote = tx[e].wrote /\ Len(tx'[e].made) = Len(tx[e].made)
    BY <1>3, CleanupEffect
  <2>2. Len(tx'[e].made) <= Cardinality(DOMAIN tx'[e].wrote)
    BY <1>3, <2>1 DEF ShortInv, Working, Cleanup
  <2>. QED
    BY <2>1, <2>2 DEF ShortInv, Others, Working
<1>4. ASSUME NEW e \in Evaluator, PassOver(e) PROVE ShortInv'
  <2>1. /\ Others(e) /\ tx[e].pc = "eval"
        /\ tx'[e].wrote = tx[e].wrote /\ tx'[e].made = tx[e].made
    BY <1>4, PassOverEffect
  <2>. QED
    BY <2>1 DEF ShortInv, Others, Working
<1>5. ASSUME \A e \in Evaluator : Working(e)' => tx'[e] = tx[e] /\ Working(e) PROVE ShortInv'
  BY <1>5 DEF ShortInv
<1>6. CASE UNCHANGED vars
  BY <1>6 DEF vars, ShortInv, Working
<1>. QED
  BY <1>1, <1>2, <1>3, <1>5, <1>6, <1>4, OtherTx

\* What one evaluation adds.
LEMMA OwnRows ==
  ASSUME TypeInv, ShortInv, NEW e \in Evaluator, Working(e)
  PROVE  Cardinality(LiveMade(e)) \in Nat /\ Cardinality(LiveMade(e)) <= Cardinality(Pair)
<1>1. Busy(tx[e]) /\ Len(tx[e].made) <= Cardinality(DOMAIN tx[e].wrote)
  BY IsBusy DEF ShortInv, Working
<1>2. tx[e].made \in Seq(EventRow) /\ DOMAIN tx[e].wrote \in SUBSET Pair
      /\ LiveMade(e) \in SUBSET (DOMAIN tx[e].made)
  BY <1>1 DEF Busy, LiveMade
<1>3. Cardinality(LiveMade(e)) \in Nat /\ Cardinality(LiveMade(e)) <= Len(tx[e].made)
      /\ Len(tx[e].made) \in Nat
  BY <1>2, RowsCount
<1>4. /\ Cardinality(DOMAIN tx[e].wrote) <= Cardinality(Pair) /\ Cardinality(Pair) \in Nat
      /\ IsFiniteSet(DOMAIN tx[e].wrote)
  BY <1>2, FiniteSets, FS_Subset
<1>5. Cardinality(DOMAIN tx[e].wrote) \in Nat
  BY <1>4, FS_CardinalityType
<1>. QED
  BY <1>1, <1>3, <1>4, <1>5, SMT

\* The rows an evaluation leaves do not become more, and nobody cleans up.
LEMMA BoundKept ==
  ASSUME TypeInv, TypeInv', ShortInv, BoundInv, Len(events') <= Len(events),
         \A f \in Evaluator : Cleaned(f)' => /\ tx'[f] = tx[f]
                                             /\ Cardinality(Live(f)') <= Cardinality(Live(f))
  PROVE  BoundInv'
<1>1. PICK C \in [Evaluator -> SUBSET Evaluator] : \A e \in Evaluator : Cleaned(e) => Since(C, e)
  BY DEF BoundInv
<1>2. events \in Seq(EventRow) /\ events' \in Seq(EventRow)
  BY DEF TypeInv
<1>3. ASSUME NEW e \in Evaluator, Cleaned(e)' PROVE Since(C, e)'
  <2>1. tx'[e] = tx[e] /\ Cleaned(e) /\ Working(e) /\ Cardinality(Live(e)') <= Cardinality(Live(e))
    BY <1>3 DEF Cleaned, Working
  <2>2. Since(C, e)
    BY <1>1, <2>1
  <2>3. LiveMade(e)' = LiveMade(e)
    BY <2>1 DEF LiveMade
  <2>4. Cardinality(LiveMade(e)) \in Nat
    BY <2>1, OwnRows
  <2>5. Cardinality(Live(e)) \in Nat /\ Cardinality(Live(e)') \in Nat
    <3>1. Live(e) \in SUBSET (DOMAIN events) /\ Live(e)' \in SUBSET (DOMAIN events')
      BY DEF Live
    <3>. QED
      BY <1>2, <3>1, RowsCount
  <2>6. Allowed(C[e]) \in Nat
    <3>1. Cardinality(C[e]) \in Nat /\ Cardinality(Pair) \in Nat
      BY FiniteSets
    <3>2. Cardinality(C[e]) * Cardinality(Pair) \in Nat
      BY <3>1, Products
    <3>. QED
      BY <3>2, AlertsAssumption, SMT DEF Allowed
  <2>7. Cardinality(Live(e)') + Cardinality(LiveMade(e)') <= Allowed(C[e])
    <3>1. Cardinality(Live(e)) + Cardinality(LiveMade(e)) <= Allowed(C[e])
      BY <2>2 DEF Since
    <3>. QED
      BY <2>1, <2>3, <2>4, <2>5, <2>6, <3>1, SMT
  <2>8. \A f \in C[e] : Cleaned(f)' => C[f] \subseteq C[e]
    <3>1. \A f \in C[e] : f \in Evaluator /\ (Cleaned(f) => C[f] \subseteq C[e])
      BY <2>2 DEF Since
    <3>2. \A f \in C[e] : Cleaned(f)' => Cleaned(f)
      BY <3>1 DEF Cleaned
    <3>. QED
      BY <3>1, <3>2
  <2>. QED
    BY <2>2, <2>7, <2>8 DEF Since, Allowed
<1>4. RowsBounded'
  <2>1. Len(events) \in Nat /\ Len(events') \in Nat
    BY <1>2, RowsOf
  <2>2. /\ Cardinality(Evaluator) \in Nat /\ Cardinality(Evaluator) # 0 /\ Cardinality(Pair) \in Nat
    BY FiniteSets, FS_EmptySet, AlertsAssumption
  <2>3. Cardinality(Evaluator) - 1 \in Nat
    BY <2>2, SMT
  <2>4. (Cardinality(Evaluator) - 1) * Cardinality(Pair) \in Nat
    BY <2>2, <2>3, Products
  <2>5. Len(events) <= MaxRows + (Cardinality(Evaluator) - 1) * Cardinality(Pair)
    BY DEF BoundInv, RowsBounded
  <2> DEFINE n == (Cardinality(Evaluator) - 1) * Cardinality(Pair)
  <2>6. n \in Nat /\ Len(events) <= MaxRows + n
    BY <2>4, <2>5
  <2>. HIDE DEF n
  <2>7. Len(events') <= MaxRows + n
    BY <2>1, <2>6, AlertsAssumption, SMT
  <2>. QED
    BY <2>7 DEF RowsBounded, n
<1>. QED
  BY <1>1, <1>3, <1>4 DEF BoundInv

LEMMA BoundCleanup ==
  ASSUME TypeInv, TypeInv', ShortInv, BoundInv, NEW e \in Evaluator, Cleanup(e)
  PROVE  BoundInv'
<1>1. PICK C \in [Evaluator -> SUBSET Evaluator] : \A f \in Evaluator : Cleaned(f) => Since(C, f)
  BY DEF BoundInv
<1>2. /\ Others(e) /\ DOMAIN events' = DOMAIN events /\ Len(events') = Len(events)
      /\ \E gone : \A i \in DOMAIN events : MarkedAt(i, gone, e, events[i], events'[i])
  BY CleanupEffect
<1> DEFINE D == [C EXCEPT ![e] = {}]
<1>3. D \in [Evaluator -> SUBSET Evaluator] /\ D[e] = {} /\ \A f \in Evaluator : f # e => D[f] = C[f]
  OBVIOUS
<1>. HIDE DEF D
<1>4. Cleaned(e)' => Since(D, e)'
  <2>1. ASSUME Cleaned(e)'
        PROVE  Cardinality(Live(e)') + Cardinality(LiveMade(e)') <= MaxRows
    BY <2>1, CleanupCount DEF Cleaned
  <2>2. Allowed({}) = MaxRows
    <3>1. Cardinality({}) = 0 /\ Cardinality(Pair) \in Nat
      BY FS_EmptySet, FiniteSets
    <3>2. Cardinality({}) * Cardinality(Pair) = 0
      BY <3>1, SMT
    <3>. QED
      BY <3>2, AlertsAssumption, SMT DEF Allowed
  <2>. QED
    BY <1>3, <2>1, <2>2 DEF Since, Allowed
<1>5. ASSUME NEW f \in Evaluator, f # e, Cleaned(f)' PROVE Since(D, f)'
  <2>1. tx'[f] = tx[f] /\ Cleaned(f) /\ Since(C, f) /\ D[f] = C[f]
    BY <1>1, <1>2, <1>3, <1>5 DEF Others, Cleaned
  <2>2. Live(f)' = Live(f)
    <3>1. PICK gone : \A i \in DOMAIN events : MarkedAt(i, gone, e, events[i], events'[i])
      BY <1>2
    <3>2. \A i \in DOMAIN events : f \in events'[i].doomed <=> f \in events[i].doomed
      BY <1>5, <3>1 DEF MarkedAt
    <3>. QED
      BY <1>2, <3>2 DEF Live
  <2>3. LiveMade(f)' = LiveMade(f)
    BY <2>1 DEF LiveMade
  <2>4. \A g \in D[f] : Cleaned(g)' => D[g] \subseteq D[f]
    <3>1. ASSUME NEW g \in D[f], Cleaned(g)' PROVE D[g] \subseteq D[f]
      <4>1. g \in Evaluator /\ g \in C[f]
        BY <2>1, <3>1
      <4>2. CASE g = e
        BY <1>3, <4>2
      <4>3. CASE g # e
        <5>1. Cleaned(g) /\ D[g] = C[g]
          BY <1>2, <1>3, <3>1, <4>1, <4>3 DEF Others, Cleaned
        <5>. QED
          BY <2>1, <4>1, <5>1 DEF Since
      <4>. QED
        BY <4>2, <4>3
    <3>. QED
      BY <3>1
  <2>. QED
    BY <2>1, <2>2, <2>3, <2>4 DEF Since, Allowed
<1>6. RowsBounded'
  BY <1>2 DEF BoundInv, RowsBounded
<1>. QED
  BY <1>3, <1>4, <1>5, <1>6 DEF BoundInv

\* A commit that adds rows: its table was clean but for those who committed since, and they
\* and it are among those who committed since the others cleaned up.
LEMMA BoundCommit ==
  ASSUME TypeInv, TypeInv', ShortInv, BoundInv, NEW e \in Evaluator, Commit(e), tx[e].made # << >>
  PROVE  BoundInv'
<1>1. PICK C \in [Evaluator -> SUBSET Evaluator] : \A f \in Evaluator : Cleaned(f) => Since(C, f)
  BY DEF BoundInv
<1>2. Others(e) /\ tx'[e] = Idle /\ tx[e].pc = "ready"
  BY CommitEffect
<1>3. Since(C, e) /\ Working(e)
  BY <1>1, <1>2 DEF Cleaned, Working
<1> DEFINE D == [f \in Evaluator |-> C[f] \cup {e}]
<1>4. D \in [Evaluator -> SUBSET Evaluator] /\ \A f \in Evaluator : D[f] = C[f] \cup {e}
  OBVIOUS
<1>. HIDE DEF D
<1>5. C[e] \in SUBSET (Evaluator \ {e}) /\ C[e] \in SUBSET Evaluator
  BY <1>3 DEF Since
<1>6. /\ Len(events') \in Nat /\ Len(events') <= Allowed(C[e])
      /\ Allowed(C[e]) \in Nat
  <2>1. Cardinality(Live(e)) + Cardinality(LiveMade(e)) <= Allowed(C[e])
    BY <1>3 DEF Since
  <2>2. Allowed(C[e]) \in Nat
    BY <1>5, AllowedMore, e \in C[e] \cup {e}, e \notin C[e], C[e] \cup {e} \in SUBSET Evaluator
  <2>. QED
    BY <2>1, <2>2, CommitLive, SMT
<1>7. RowsBounded'
  <2>1. Allowed(C[e]) <= MaxRows + (Cardinality(Evaluator) - 1) * Cardinality(Pair)
    BY <1>5, AllowedBound
  <2>2. (Cardinality(Evaluator) - 1) * Cardinality(Pair) \in Int
    <3>1. Cardinality(Evaluator) - 1 \in Int /\ Cardinality(Pair) \in Int
      BY FiniteSets, SMT
    <3>. QED
      BY <3>1, SMT
  <2> DEFINE n == (Cardinality(Evaluator) - 1) * Cardinality(Pair)
  <2>3. Allowed(C[e]) <= MaxRows + n /\ n \in Int
    BY <2>1, <2>2
  <2>. HIDE DEF n
  <2>4. Len(events') <= MaxRows + n
    BY <1>6, <2>3, AlertsAssumption, SMT
  <2>. QED
    BY <2>4 DEF RowsBounded, n
<1>8. ASSUME NEW f \in Evaluator, Cleaned(f)' PROVE Since(D, f)'
  <2>1. f # e /\ tx'[f] = tx[f] /\ Cleaned(f) /\ Working(f)
    BY <1>2, <1>8, NotBusy DEF Others, Cleaned, Working
  <2>2. Since(C, f)
    BY <1>1, <2>1
  <2>3. LiveMade(f)' = LiveMade(f) /\ Cardinality(LiveMade(f)) \in Nat
        /\ Cardinality(LiveMade(f)) <= Cardinality(Pair)
    BY <2>1, OwnRows DEF LiveMade
  <2>4. /\ Cardinality(LiveMade(e)) \in Nat /\ Cardinality(LiveMade(e)) <= Cardinality(Pair)
        /\ Cardinality(Pair) \in Nat
    BY <1>3, OwnRows, FiniteSets
  <2>5. /\ Cardinality(Live(f)) \in Nat /\ Cardinality(Live(f)') \in Nat
        /\ Cardinality(Live(f)') <= Len(events')
        /\ Cardinality(Live(f)') <= Cardinality(Live(f)) + Cardinality(LiveMade(e))
    BY CommitLive
  <2>6. Cardinality(Live(f)') + Cardinality(LiveMade(f)') <= Allowed(D[f])
    <3>1. CASE e \in C[f]
      <4>1. C[e] \subseteq C[f]
        BY <1>2, <2>2, <3>1 DEF Since, Cleaned
      <4>2. D[f] = C[f] /\ C[f] \in SUBSET Evaluator
        BY <1>4, <3>1
      <4>3. Allowed(C[e]) + Cardinality(Pair) <= Allowed(D[f]) /\ Allowed(D[f]) \in Nat
        BY <1>3, <3>1, <4>1, <4>2, AllowedMore DEF Since
      <4>. QED
        BY <1>6, <2>3, <2>4, <2>5, <4>3, SMT
    <3>2. CASE e \notin C[f]
      <4>1. D[f] \in SUBSET Evaluator /\ C[f] \in SUBSET D[f] /\ e \in D[f]
        BY <1>4
      <4>2. Allowed(C[f]) + Cardinality(Pair) <= Allowed(D[f])
            /\ Allowed(C[f]) \in Nat /\ Allowed(D[f]) \in Nat
        BY <3>2, <4>1, AllowedMore
      <4>3. Cardinality(Live(f)) + Cardinality(LiveMade(f)) <= Allowed(C[f])
        BY <2>2 DEF Since
      <4>. QED
        BY <2>3, <2>4, <2>5, <4>2, <4>3, SMT
    <3>. QED
      BY <3>1, <3>2
  <2>7. f \notin D[f]
    BY <1>4, <2>1, <2>2 DEF Since
  <2>8. ASSUME NEW g \in D[f], Cleaned(g)' PROVE D[g] \subseteq D[f]
    <3>1. g \in Evaluator
      BY <1>4, <2>8
    <3>2. g # e /\ Cleaned(g)
      BY <1>2, <2>8, <3>1, NotBusy DEF Others, Cleaned
    <3>3. g \in C[f] /\ C[g] \subseteq C[f]
      BY <1>4, <2>2, <2>8, <3>2 DEF Since
    <3>. QED
      BY <1>4, <3>1, <3>3
  <2>. QED
    BY <2>6, <2>7, <2>8 DEF Since, Allowed
<1>. QED
  BY <1>4, <1>7, <1>8 DEF BoundInv

LEMMA BoundStep ==
  ASSUME TypeInv, TypeInv', ShortInv, BoundInv, [Next]_vars
  PROVE  BoundInv'
<1>0. events \in Seq(EventRow) /\ events' \in Seq(EventRow)
      /\ Len(events) \in Nat /\ Len(events') \in Nat
  <2>1. events \in Seq(EventRow) /\ events' \in Seq(EventRow)
    BY DEF TypeInv
  <2>. QED
    BY <2>1, RowsOf
<1>1. \A f \in Evaluator : Cardinality(Live(f)) \in Nat
  <2>1. \A f \in Evaluator : Live(f) \in SUBSET (DOMAIN events)
    BY DEF Live
  <2>. QED
    BY <1>0, <2>1, RowsCount
<1>2. ASSUME NEW e \in Evaluator, Begin(e) \/ Evaluate(e) \/ PassOver(e) PROVE BoundInv'
  <2>1. Others(e) /\ tx'[e].pc = "eval" /\ events' = events
    BY <1>2, BeginEffect, EvaluateEffect, PassOverEffect
  <2>2. \A f \in Evaluator : Cleaned(f)' => tx'[f] = tx[f] /\ Live(f)' = Live(f)
    BY <2>1 DEF Others, Cleaned, Live
  <2>3. Len(events') <= Len(events)
    BY <1>0, <2>1, SMT
  <2>4. \A f \in Evaluator : Cleaned(f)' => /\ tx'[f] = tx[f]
                                            /\ Cardinality(Live(f)') <= Cardinality(Live(f))
    BY <1>1, <2>2, SMT
  <2>. QED
    BY <2>3, <2>4, BoundKept
<1>3. ASSUME NEW e \in Evaluator, Commit(e), tx[e].made = << >> PROVE BoundInv'
  <2>1. Others(e) /\ tx'[e] = Idle
    BY <1>3, CommitEffect
  <2>2. LiveMade(e) = {}
    BY <1>3, NoElements DEF LiveMade
  <2>3. Cardinality(LiveMade(e)) = 0
    BY <2>2, FS_EmptySet
  <2>4. \A f \in Evaluator : Cardinality(Live(f)') <= Cardinality(Live(f))
    <3>1. \A f \in Evaluator : Cardinality(Live(f)') <= Cardinality(Live(f)) + Cardinality(LiveMade(e))
      BY <1>3, CommitLive
    <3>. QED
      BY <1>1, <2>3, <3>1, SMT
  <2>5. Len(events') <= Len(events)
    <3>1. Len(events') <= Cardinality(Live(e)) + Cardinality(LiveMade(e))
      BY <1>3, CommitLive
    <3>2. Live(e) \in SUBSET (DOMAIN events)
      BY DEF Live
    <3>3. Cardinality(Live(e)) <= Len(events)
      BY <1>0, <3>2, RowsCount
    <3>. QED
      BY <1>0, <1>1, <2>3, <3>1, <3>3, SMT
  <2>6. \A f \in Evaluator : Cleaned(f)' => tx'[f] = tx[f]
    BY <2>1, NotBusy DEF Others, Cleaned
  <2>. QED
    BY <2>4, <2>5, <2>6, BoundKept
<1>4. ASSUME NEW r \in Rule, DeleteRule(r) PROVE BoundInv'
  <2>1. tx' = tx
    BY <1>4 DEF DeleteRule
  <2>. QED
    BY <1>4, <2>1, DeleteCount, BoundKept
<1>5. ASSUME Len(events') = Len(events), DOMAIN events' = DOMAIN events,
             \A f \in Evaluator : Cleaned(f)' =>
               /\ tx'[f] = tx[f]
               /\ \A i \in DOMAIN events : f \in events'[i].doomed <=> f \in events[i].doomed
      PROVE  BoundInv'
  <2>1. \A f \in Evaluator : Cleaned(f)' => tx'[f] = tx[f] /\ Live(f)' = Live(f)
    BY <1>5 DEF Live
  <2>2. Len(events') <= Len(events)
    BY <1>0, <1>5, SMT
  <2>3. \A f \in Evaluator : Cleaned(f)' => /\ tx'[f] = tx[f]
                                            /\ Cardinality(Live(f)') <= Cardinality(Live(f))
    BY <1>1, <2>1, SMT
  <2>. QED
    BY <2>2, <2>3, BoundKept
<1>6. ASSUME NEW e \in Evaluator, Refused(e) PROVE BoundInv'
  <2>1. /\ Others(e) /\ tx'[e] \in {Idle, Dead}
        /\ Len(events') = Len(events) /\ DOMAIN events' = DOMAIN events
        /\ \A i \in DOMAIN events : events'[i].doomed = events[i].doomed \ {e}
    BY <1>6, RefusedEffect
  <2>2. \A f \in Evaluator : Cleaned(f)' => f # e /\ tx'[f] = tx[f]
    BY <2>1, NotBusy DEF Others, Cleaned
  <2>. QED
    BY <1>5, <2>1, <2>2
<1>7. ASSUME NEW e \in Evaluator,
             SkipNotification(e) \/ StartSending(e) \/ FinishSending(e) \/ LoseSender(e)
      PROVE  BoundInv'
  <2>1. NoteStep /\ \A f \in Evaluator : tx'[f] = tx[f] \/ tx'[f] = Dead
    BY <1>7, SenderEffect
  <2>2. \A f \in Evaluator : Cleaned(f)' => tx'[f] = tx[f]
    BY <2>1, NotBusy DEF Cleaned
  <2>. QED
    BY <1>5, <2>1, <2>2 DEF NoteStep
<1>8. CASE Restart
  <2>1. /\ \A e \in Evaluator : tx'[e] = Idle
        /\ Len(events') = Len(events) /\ DOMAIN events' = DOMAIN events
    BY <1>8, RestartEffect
  <2>2. \A f \in Evaluator : ~Cleaned(f)'
    BY <2>1, NotBusy DEF Cleaned
  <2>. QED
    BY <1>5, <2>1, <2>2
<1>9. CASE UNCHANGED <<events, tx>>
  BY <1>5, <1>9
<1>. QED
  BY <1>2, <1>3, <1>4, <1>6, <1>7, <1>8, <1>9, BoundCleanup, BoundCommit
  DEF Next, vars, CreateRule, UpdateRule, Measure, ResetBaseline

LEMMA BoundInit == Init => ShortInv /\ BoundInv
<1> SUFFICES ASSUME Init PROVE ShortInv /\ BoundInv
  OBVIOUS
<1>1. events = << >> /\ \A e \in Evaluator : tx[e] = Idle
  BY DEF Init
<1>2. Len(events) = 0
  BY <1>1, NoElements, EmptyMade
<1>3. \A e \in Evaluator : ~Cleaned(e) /\ ~Working(e)
  BY <1>1, NotBusy DEF Cleaned, Working
<1>4. RowsBounded
  <2>1. Cardinality(Evaluator) \in Nat /\ Cardinality(Evaluator) # 0 /\ Cardinality(Pair) \in Nat
    BY FiniteSets, FS_EmptySet, AlertsAssumption
  <2>2. Cardinality(Evaluator) - 1 \in Nat
    BY <2>1, SMT
  <2> DEFINE n == (Cardinality(Evaluator) - 1) * Cardinality(Pair)
  <2>3. n \in Nat
    BY <2>1, <2>2, Products
  <2>. HIDE DEF n
  <2>4. 0 <= MaxRows + n
    BY <2>3, AlertsAssumption, SMT
  <2>. QED
    BY <1>2, <2>4 DEF RowsBounded, n
<1>5. [e \in Evaluator |-> {}] \in [Evaluator -> SUBSET Evaluator]
  OBVIOUS
<1>. QED
  BY <1>3, <1>4, <1>5 DEF BoundInv, ShortInv

(* The table of events stays bounded although every evaluation cleans up in a transaction   *)
(* that does not see the rows of the others: whoever commits, and however often, between    *)
(* cleanup_alert_events and the commit of one of them, past the limit there is at most one   *)
(* event for each target from each of the others.                                            *)
THEOREM AlertsRowsBounded == Spec => []RowsBounded
<1>1. TypeInv /\ MadeInv /\ ShortInv /\ BoundInv /\ [Next]_vars
        => (TypeInv /\ MadeInv /\ ShortInv /\ BoundInv)'
  BY TypeStep, MadeStep, ShortStep, BoundStep
<1>2. BoundInv => RowsBounded
  BY DEF BoundInv
<1>. QED
  BY <1>1, <1>2, TypeInit, MadeInit, BoundInit, PTL DEF Spec
=============================================================================
