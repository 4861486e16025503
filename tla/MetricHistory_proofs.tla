------------------------ MODULE MetricHistory_proofs ------------------------
(***************************************************************************)
(* Theorems about the cleanup of samples, for any nodes, processes, limits *)
(* and batches.                                                            *)
(***************************************************************************)
EXTENDS MetricHistory, FiniteSetTheorems, TLAPS

-----------------------------------------------------------------------------
(* Types, and who cleans up.                                               *)

PassRow == [pc : {"expired", "excess"}, old : SUBSET Id, batches : Int, excess : Int]

Passing(w) == pass[w].pc # "rest"

TypeInv ==
  /\ rows \in SUBSET Id /\ expired \in SUBSET rows
  /\ nextId \in 1..(MaxId + 1)
  /\ unsaved \in [Node -> SUBSET Id]
  /\ lock \in Process \cup {None}
  /\ pass \in [Process -> {Resting} \cup PassRow]

\* The lock keeps the passes of other processes out.
LockInv == \A w \in Process : Passing(w) => lock = w

\* What a pass goes by is still true when it deletes: a row it took for expired is expired,
\* and the table is at least as long as the limit and what is left to delete.
PassFine(w) ==
  /\ pass[w].pc = "expired" => pass[w].old \subseteq expired
  /\ pass[w].pc = "excess" =>
       MaxRows # 0 /\ (pass[w].excess > 0 => MaxRows + pass[w].excess <= Cardinality(rows))

HistoryInv == TypeInv /\ LockInv /\ \A w \in Process : PassFine(w)

LEMMA Finite ==
  ASSUME NEW S \in SUBSET Id
  PROVE  IsFiniteSet(S) /\ Cardinality(S) \in Nat /\ \A i \in S : i \in Int
<1>1. 1 \in Int /\ MaxId \in Int /\ \A i \in Id : i \in Int
  BY HistoryAssumption, SMT DEF Id
<1>2. IsFiniteSet(1..MaxId)
  BY <1>1, FS_Interval
<1>3. IsFiniteSet(S)
  BY <1>2, FS_Subset DEF Id
<1>. QED
  BY <1>1, <1>3, FS_CardinalityType

LEMMA PassFields ==
  ASSUME TypeInv, NEW w \in Process, Passing(w)
  PROVE  /\ pass[w] \in PassRow /\ pass[w].pc \in {"expired", "excess"} /\ pass[w].old \in SUBSET Id
         /\ pass[w].batches \in Int /\ pass[w].excess \in Int
<1>1. pass[w] \in PassRow
  BY DEF TypeInv, Passing, Resting
<1>. QED
  BY <1>1 DEF PassRow

-----------------------------------------------------------------------------
(* The oldest rows.                                                        *)

\* How many rows are older.
Rank(i) == Cardinality({j \in rows : j < i})

LEMMA RankGrows ==
  ASSUME TypeInv, NEW i \in rows, NEW k \in rows
  PROVE  /\ Rank(i) \in Nat
         /\ i < k => Rank(i) < Rank(k)
<1> DEFINE below(x) == {j \in rows : j < x}
<1>1. rows \in SUBSET Id
  BY DEF TypeInv
<1>2. /\ IsFiniteSet(below(i)) /\ Cardinality(below(i)) \in Nat
      /\ IsFiniteSet(below(k)) /\ Cardinality(below(k)) \in Nat
  <2>1. below(i) \in SUBSET Id /\ below(k) \in SUBSET Id
    BY <1>1
  <2>. HIDE DEF below
  <2>. QED
    BY <2>1, Finite
<1>3. i < k => Cardinality(below(i)) + 1 <= Cardinality(below(k))
  <2> SUFFICES ASSUME i < k PROVE Cardinality(below(i)) + 1 <= Cardinality(below(k))
    OBVIOUS
  <2>1. i \notin below(i) /\ below(i) \cup {i} \in SUBSET below(k)
    <3>1. \A j \in rows : j \in Int
      BY <1>1, Finite
    <3>2. ~(i < i) /\ \A j \in rows : j < i => j < k
      BY <3>1, SMT
    <3>. QED
      BY <3>2
  <2>. HIDE DEF below
  <2>2. Cardinality(below(i) \cup {i}) = Cardinality(below(i)) + 1
    BY <1>2, <2>1, FS_AddElement
  <2>3. Cardinality(below(i) \cup {i}) <= Cardinality(below(k))
    BY <1>2, <2>1, FS_Subset
  <2>. QED
    BY <2>2, <2>3
<1>4. Rank(i) = Cardinality(below(i)) /\ Rank(k) = Cardinality(below(k))
  BY DEF Rank
<1>. HIDE DEF below
<1>. QED
  BY <1>2, <1>3, <1>4, SMT

\* Oldest(n) are at most n rows, and all the others are younger.
LEMMA OldestRows ==
  ASSUME TypeInv, NEW n \in Nat
  PROVE  /\ Oldest(n) \in SUBSET rows
         /\ IsFiniteSet(Oldest(n)) /\ Cardinality(Oldest(n)) \in Nat /\ Cardinality(Oldest(n)) <= n
         /\ \A i \in Oldest(n) : \A j \in rows \ Oldest(n) : i < j
<1>1. rows \in SUBSET Id
  BY DEF TypeInv
<1>2. Oldest(n) \in SUBSET rows /\ \A i \in rows : i \in Oldest(n) <=> Rank(i) < n
  BY DEF Oldest, Rank
<1>3. /\ \A i \in rows : i \in Int /\ Rank(i) \in Nat
      /\ \A i, k \in rows : i < k => Rank(i) < Rank(k)
  BY <1>1, Finite, RankGrows
<1>4. IsFiniteSet(Oldest(n)) /\ Cardinality(Oldest(n)) \in Nat
  <2>1. Oldest(n) \in SUBSET Id
    BY <1>1, <1>2
  <2>. QED
    BY <2>1, Finite
<1>5. Cardinality(Oldest(n)) <= n
  <2> DEFINE f == [i \in Oldest(n) |-> Rank(i)]
  <2>1. \A i \in Oldest(n) : i \in rows /\ Rank(i) \in 0..(n - 1)
    <3>1. \A i \in Oldest(n) : i \in rows /\ Rank(i) \in Nat /\ Rank(i) < n
      BY <1>2, <1>3
    <3>. QED
      BY <3>1, SMT
  <2>2. \A i, k \in Oldest(n) : Rank(i) = Rank(k) => i = k
    <3>1. ASSUME NEW i \in rows, NEW k \in rows, Rank(i) = Rank(k) PROVE i = k
      <4>1. i < k \/ i = k \/ k < i
        BY <1>3, <3>1, SMT
      <4>2. i < k => Rank(i) < Rank(k)
        BY <1>3
      <4>3. k < i => Rank(k) < Rank(i)
        BY <1>3
      <4>4. Rank(i) \in Nat /\ Rank(k) \in Nat
        BY <1>3
      <4>. QED
        BY <3>1, <4>1, <4>2, <4>3, <4>4, SMT
    <3>. QED
      BY <1>2, <3>1
  <2>3. f \in [Oldest(n) -> 0..(n - 1)] /\ \A i, k \in Oldest(n) : f[i] = f[k] => i = k
    BY <2>1, <2>2
  <2>. HIDE DEF f
  <2>4. f \in Injection(Oldest(n), 0..(n - 1))
    BY <2>3 DEF Injection, IsInjective
  <2>5. 0 \in Int /\ n - 1 \in Int
    BY SMT
  <2>6. /\ IsFiniteSet(0..(n - 1))
        /\ Cardinality(0..(n - 1)) = IF 0 > n - 1 THEN 0 ELSE (n - 1) - 0 + 1
    BY <2>5, FS_Interval
  <2>7. (IF 0 > n - 1 THEN 0 ELSE (n - 1) - 0 + 1) = n
    BY SMT
  <2>8. Cardinality(Oldest(n)) <= Cardinality(0..(n - 1))
    BY <2>4, <2>6, FS_Injection
  <2>. QED
    BY <2>6, <2>7, <2>8
<1>6. ASSUME NEW i \in Oldest(n), NEW j \in rows \ Oldest(n) PROVE i < j
  <2>1. i \in rows /\ j \in rows /\ Rank(i) < n /\ ~(Rank(j) < n)
    BY <1>2
  <2>2. i \in Int /\ j \in Int /\ Rank(i) \in Nat /\ Rank(j) \in Nat
    BY <1>3, <2>1
  <2>3. j < i => Rank(j) < Rank(i)
    BY <1>3, <2>1
  <2>4. Rank(i) < Rank(j)
    BY <2>1, <2>2, SMT
  <2>5. i # j
    BY <2>2, <2>4, SMT
  <2>. QED
    BY <2>2, <2>3, <2>4, <2>5, SMT
<1>. QED
  BY <1>2, <1>4, <1>5, <1>6

\* One batch against the limit: it takes no more than is left to delete, and every row that
\* remains is younger than every row that goes.
LEMMA DeleteOldestEffect ==
  ASSUME HistoryInv, NEW w \in Process, DeleteOldest(w)
  PROVE  /\ rows' \in SUBSET rows /\ expired' \in SUBSET rows'
         /\ pass[w].pc = "excess" /\ MaxRows # 0 /\ Passing(w)
         /\ pass' = [pass EXCEPT ![w].batches = @ + 1, ![w].excess = pass'[w].excess]
         /\ pass'[w].excess \in Int
         /\ MaxRows + pass'[w].excess <= Cardinality(rows') /\ pass'[w].excess >= 0
         /\ Cardinality(rows') \in Nat
         /\ \A i \in rows \ rows' : \A j \in rows' : i < j
<1> DEFINE batch == Oldest(Batch(pass[w].excess))
           excess == pass[w].excess
<1>1. /\ TypeInv /\ PassFine(w) /\ pass[w].pc = "excess" /\ excess > 0 /\ Passing(w)
      /\ rows' = rows \ batch
      /\ pass' = [pass EXCEPT ![w].batches = @ + 1, ![w].excess = @ - Cardinality(batch)]
      /\ expired' = expired \cap rows'
  BY DEF DeleteOldest, HistoryInv, Passing
<1>2. pass[w] \in PassRow /\ excess \in Int
  BY <1>1, PassFields
<1>3. MaxRows # 0 /\ MaxRows + excess <= Cardinality(rows)
  BY <1>1 DEF PassFine
<1>4. Batch(excess) \in Nat /\ Batch(excess) <= excess
  BY <1>1, <1>2, HistoryAssumption, SMT DEF Batch, Smaller
<1>5. /\ batch \in SUBSET rows /\ IsFiniteSet(batch) /\ Cardinality(batch) \in Nat
      /\ Cardinality(batch) <= Batch(excess)
      /\ \A i \in batch : \A j \in rows \ batch : i < j
  BY <1>1, <1>4, OldestRows
<1>6. pass'[w].excess = excess - Cardinality(batch)
  BY <1>1, <1>2 DEF TypeInv, PassRow
<1>. HIDE DEF batch, excess
<1>7. rows \in SUBSET Id /\ rows' \in SUBSET Id
  BY <1>1 DEF TypeInv
<1>8. Cardinality(rows') = Cardinality(rows) - Cardinality(batch)
  <2>1. IsFiniteSet(rows') /\ IsFiniteSet(rows) /\ Cardinality(rows) \in Nat /\ Cardinality(rows') \in Nat
    BY <1>7, Finite
  <2>2. rows' \cup batch = rows /\ rows' \cap batch = {}
    BY <1>1, <1>5
  <2>3. Cardinality(rows' \cup batch) = Cardinality(rows') + Cardinality(batch) - Cardinality(rows' \cap batch)
    BY <1>5, <2>1, FS_Union
  <2>4. Cardinality(rows' \cap batch) = 0
    BY <2>2, FS_EmptySet
  <2>5. Cardinality(rows) = Cardinality(rows') + Cardinality(batch) - 0
    BY <2>2, <2>3, <2>4
  <2>. QED
    BY <1>5, <2>1, <2>5, SMT
<1>9. Cardinality(rows) \in Nat /\ Cardinality(rows') \in Nat
  BY <1>7, Finite
<1>10. /\ pass'[w].excess \in Int /\ pass'[w].excess >= 0
       /\ MaxRows + pass'[w].excess <= Cardinality(rows')
  BY <1>2, <1>3, <1>4, <1>5, <1>6, <1>8, <1>9, HistoryAssumption, SMT
<1>11. pass' = [pass EXCEPT ![w].batches = @ + 1, ![w].excess = pass'[w].excess]
  BY <1>1, <1>6 DEF excess
<1>12. \A i \in rows \ rows' : \A j \in rows' : i < j
  BY <1>1, <1>5
<1>. QED
  BY <1>1, <1>3, <1>9, <1>10, <1>11, <1>12

\* One batch of expired rows.
LEMMA DeleteExpiredEffect ==
  ASSUME HistoryInv, NEW w \in Process, DeleteExpired(w)
  PROVE  /\ rows' \in SUBSET rows /\ expired' \in SUBSET rows'
         /\ pass[w].pc = "expired" /\ Passing(w)
         /\ pass' = [pass EXCEPT ![w].batches = @ + 1, ![w].old = @ \cap rows']
         /\ (pass[w].old \cap rows') \subseteq expired'
         /\ \A i \in rows \ rows' : i \in expired
<1>1. /\ TypeInv /\ PassFine(w) /\ pass[w].pc = "expired" /\ Passing(w)
      /\ pass' = [pass EXCEPT ![w].batches = @ + 1, ![w].old = @ \cap rows']
      /\ expired' = expired \cap rows'
  BY DEF DeleteExpired, HistoryInv, Passing
<1>2. \E batch \in SUBSET (pass[w].old \cap rows) : rows' = rows \ batch
  BY DEF DeleteExpired, kSubset
<1>3. pass[w].old \subseteq expired
  BY <1>1 DEF PassFine
<1>. QED
  BY <1>1, <1>2, <1>3

-----------------------------------------------------------------------------
(* The invariant.                                                          *)

LEMMA HistoryInit == Init => HistoryInv
<1> SUFFICES ASSUME Init PROVE HistoryInv
  OBVIOUS
<1>1. /\ rows = {} /\ expired = {} /\ nextId = 1 /\ unsaved = [n \in Node |-> {}]
      /\ lock = None /\ pass = [w \in Process |-> Resting]
  BY DEF Init
<1>2. 1 \in 1..(MaxId + 1)
  BY HistoryAssumption, SMT
<1>3. TypeInv
  BY <1>1, <1>2 DEF TypeInv
<1>4. \A w \in Process : pass[w].pc = "rest"
  BY <1>1 DEF Resting
<1>. QED
  BY <1>3, <1>4 DEF HistoryInv, LockInv, PassFine, Passing

\* A process whose pass is over, or that cannot have begun one, says nothing.
LEMMA OnlyPass ==
  ASSUME LockInv, NEW w \in Process, Passing(w), NEW v \in Process, v # w
  PROVE  pass[v].pc = "rest"
BY DEF LockInv, Passing

LEMMA HistoryStep == HistoryInv /\ [Next]_vars => HistoryInv'
<1> SUFFICES ASSUME HistoryInv, [Next]_vars PROVE HistoryInv'
  OBVIOUS
<1>0. TypeInv /\ LockInv /\ \A w \in Process : PassFine(w)
  BY DEF HistoryInv
<1>1. ASSUME NEW w \in Process, NEW p \in PassRow,
             pass' = [pass EXCEPT ![w] = p], Passing(w),
             rows' \in SUBSET rows, expired' \in SUBSET rows',
             UNCHANGED <<nextId, unsaved, lock>>,
             p.pc = "expired" => p.old \subseteq expired',
             p.pc = "excess" =>
               MaxRows # 0 /\ (p.excess > 0 => MaxRows + p.excess <= Cardinality(rows'))
      PROVE  HistoryInv'
  <2>1. TypeInv'
    BY <1>0, <1>1 DEF TypeInv
  <2>2. pass'[w] = p /\ \A v \in Process : v # w => pass'[v] = pass[v]
    BY <1>0, <1>1 DEF TypeInv
  <2>3. \A v \in Process : v # w => pass'[v].pc = "rest"
    BY <1>0, <1>1, <2>2, OnlyPass
  <2>4. lock = w
    BY <1>0, <1>1 DEF LockInv
  <2>5. LockInv'
    BY <1>1, <2>3, <2>4 DEF LockInv, Passing
  <2>6. PassFine(w)'
    BY <1>1, <2>2 DEF PassFine
  <2>7. \A v \in Process : v # w => PassFine(v)'
    BY <2>3 DEF PassFine
  <2>. QED
    BY <2>1, <2>5, <2>6, <2>7 DEF HistoryInv
<1>2. ASSUME NEW w \in Process, Passing(w), pass' = [pass EXCEPT ![w] = Resting], lock' = None,
             UNCHANGED <<rows, expired, nextId, unsaved>>
      PROVE  HistoryInv'
  <2>1. TypeInv'
    BY <1>0, <1>2 DEF TypeInv
  <2>2. \A v \in Process : pass'[v].pc = "rest"
    <3>1. pass'[w] = Resting /\ \A v \in Process : v # w => pass'[v] = pass[v]
      BY <1>0, <1>2 DEF TypeInv
    <3>. QED
      BY <1>0, <1>2, <3>1, OnlyPass DEF Resting
  <2>. QED
    BY <2>1, <2>2 DEF HistoryInv, LockInv, PassFine, Passing
<1>3. ASSUME NEW n \in Node, RecordMetricHistory(n) PROVE HistoryInv'
  <2>1. /\ unsaved' = [unsaved EXCEPT ![n] = nextId..(nextId + SampleRows - 1)]
        /\ nextId' = nextId + SampleRows /\ nextId + SampleRows <= MaxId + 1
        /\ UNCHANGED <<rows, expired, lock, pass>>
    BY <1>3 DEF RecordMetricHistory
  <2>2. nextId' \in 1..(MaxId + 1) /\ nextId..(nextId + SampleRows - 1) \subseteq Id
    BY <1>0, <2>1, HistoryAssumption, SMT DEF TypeInv, Id
  <2>3. TypeInv'
    BY <1>0, <2>1, <2>2 DEF TypeInv
  <2>. QED
    BY <1>0, <2>1, <2>3 DEF HistoryInv, LockInv, PassFine, Passing
<1>4. ASSUME NEW n \in Node, CommitHeartbeat(n) PROVE HistoryInv'
  <2>1. /\ rows' = rows \cup unsaved[n] /\ unsaved' = [unsaved EXCEPT ![n] = {}]
        /\ UNCHANGED <<expired, nextId, lock, pass>>
    BY <1>4 DEF CommitHeartbeat
  <2>2. TypeInv'
    BY <1>0, <2>1 DEF TypeInv
  <2>3. Cardinality(rows) <= Cardinality(rows') /\ Cardinality(rows) \in Nat /\ Cardinality(rows') \in Nat
    <3>1. rows \in SUBSET rows' /\ rows \in SUBSET Id /\ rows' \in SUBSET Id
      BY <1>0, <2>1, <2>2 DEF TypeInv
    <3>. QED
      BY <3>1, Finite, FS_Subset
  <2>4. ASSUME NEW w \in Process PROVE PassFine(w)'
    <3>1. PassFine(w)
      BY <1>0
    <3>2. Passing(w) => pass[w].excess \in Int
      BY <1>0, PassFields
    <3>3. pass[w].pc = "excess" /\ pass[w].excess > 0 => MaxRows + pass[w].excess <= Cardinality(rows')
      <4>1. pass[w].pc = "excess" => pass[w].excess \in Int
        BY <3>2 DEF Passing
      <4>2. pass[w].pc = "excess" /\ pass[w].excess > 0 => MaxRows + pass[w].excess <= Cardinality(rows)
        BY <3>1 DEF PassFine
      <4>. QED
        BY <2>3, <4>1, <4>2, HistoryAssumption, SMT
    <3>. QED
      BY <2>1, <3>1, <3>3 DEF PassFine
  <2>5. LockInv'
    BY <1>0, <2>1 DEF LockInv, Passing
  <2>. QED
    BY <2>2, <2>4, <2>5 DEF HistoryInv
<1>5. ASSUME NEW n \in Node, AbortHeartbeat(n) PROVE HistoryInv'
  <2>1. unsaved' = [unsaved EXCEPT ![n] = {}] /\ UNCHANGED <<rows, expired, nextId, lock, pass>>
    BY <1>5 DEF AbortHeartbeat
  <2>2. TypeInv'
    BY <1>0, <2>1 DEF TypeInv
  <2>. QED
    BY <1>0, <2>1, <2>2 DEF HistoryInv, LockInv, PassFine, Passing
<1>6. ASSUME NEW i \in Id, Expire(i) PROVE HistoryInv'
  <2>1. i \in rows /\ expired' = expired \cup {i} /\ UNCHANGED <<rows, nextId, unsaved, lock, pass>>
    BY <1>6 DEF Expire
  <2>2. TypeInv'
    BY <1>0, <2>1 DEF TypeInv
  <2>3. \A w \in Process : PassFine(w)'
    BY <1>0, <2>1 DEF PassFine
  <2>4. LockInv'
    BY <1>0, <2>1 DEF LockInv, Passing
  <2>. QED
    BY <2>2, <2>3, <2>4 DEF HistoryInv
<1>7. ASSUME NEW w \in Process, BeginPass(w) PROVE HistoryInv'
  <2> DEFINE p == [pc |-> "expired", old |-> expired \cap rows, batches |-> 0, excess |-> 0]
  <2>1. /\ lock = None /\ lock' = w /\ pass' = [pass EXCEPT ![w] = p]
        /\ UNCHANGED <<rows, expired, nextId, unsaved>>
    BY <1>7 DEF BeginPass, LockFree
  <2>2. p \in PassRow /\ p.pc = "expired" /\ p.old \subseteq expired
    BY <1>0 DEF TypeInv, PassRow
  <2>. HIDE DEF p
  <2>3. \A v \in Process : pass[v].pc = "rest"
    BY <1>0, <2>1, HistoryAssumption DEF LockInv, Passing
  <2>4. TypeInv'
    BY <1>0, <2>1, <2>2 DEF TypeInv
  <2>5. pass'[w] = p /\ \A v \in Process : v # w => pass'[v].pc = "rest"
    BY <1>0, <2>1, <2>3 DEF TypeInv
  <2>6. LockInv'
    BY <2>1, <2>5 DEF LockInv, Passing
  <2>7. PassFine(w)' /\ \A v \in Process : v # w => PassFine(v)'
    BY <2>1, <2>2, <2>5 DEF PassFine
  <2>. QED
    BY <2>4, <2>6, <2>7 DEF HistoryInv
<1>8. ASSUME NEW w \in Process, DeleteExpired(w) PROVE HistoryInv'
  <2>1. /\ rows' \in SUBSET rows /\ expired' \in SUBSET rows'
        /\ pass[w].pc = "expired" /\ Passing(w)
        /\ pass' = [pass EXCEPT ![w].batches = @ + 1, ![w].old = @ \cap rows']
        /\ (pass[w].old \cap rows') \subseteq expired'
    BY <1>8, DeleteExpiredEffect
  <2> DEFINE p == [pass[w] EXCEPT !.batches = @ + 1, !.old = @ \cap rows']
  <2>2. pass' = [pass EXCEPT ![w] = p]
    BY <2>1
  <2>3. p \in PassRow /\ p.pc = "expired" /\ p.old = pass[w].old \cap rows'
    <3>1. pass[w] \in PassRow /\ pass[w].batches + 1 \in Int
      BY <1>0, <2>1, PassFields, SMT
    <3>. QED
      BY <2>1, <3>1 DEF PassRow
  <2>. HIDE DEF p
  <2>4. p.pc # "excess"
    BY <2>3
  <2>5. UNCHANGED <<nextId, unsaved, lock>>
    BY <1>8 DEF DeleteExpired
  <2>. QED
    BY <1>1, <2>1, <2>2, <2>3, <2>4, <2>5
<1>9. ASSUME NEW w \in Process, CountRows(w) PROVE HistoryInv'
  <2> DEFINE excess == IF Cardinality(rows) > MaxRows THEN Cardinality(rows) - MaxRows ELSE 0
             p == [pass[w] EXCEPT !.pc = "excess", !.excess = excess]
  <2>1. /\ pass[w].pc = "expired" /\ Passing(w) /\ MaxRows # 0 /\ pass' = [pass EXCEPT ![w] = p]
        /\ UNCHANGED <<rows, expired, nextId, unsaved, lock>>
    BY <1>9 DEF CountRows, Passing
  <2>2. Cardinality(rows) \in Nat /\ rows \in SUBSET rows /\ expired \in SUBSET rows
    BY <1>0, Finite DEF TypeInv
  <2>3. excess \in Int /\ (excess > 0 => MaxRows + excess <= Cardinality(rows))
    BY <2>2, HistoryAssumption, SMT
  <2>. HIDE DEF excess
  <2>4. p \in PassRow /\ p.pc = "excess" /\ p.excess = excess
    <3>1. pass[w] \in PassRow
      BY <1>0, <2>1, PassFields
    <3>. QED
      BY <2>3, <3>1 DEF PassRow
  <2>. HIDE DEF p
  <2>. QED
    BY <1>1, <2>1, <2>2, <2>3, <2>4
<1>10. ASSUME NEW w \in Process, DeleteOldest(w) PROVE HistoryInv'
  <2>1. /\ rows' \in SUBSET rows /\ expired' \in SUBSET rows'
        /\ pass[w].pc = "excess" /\ MaxRows # 0 /\ Passing(w)
        /\ pass' = [pass EXCEPT ![w].batches = @ + 1, ![w].excess = pass'[w].excess]
        /\ pass'[w].excess \in Int /\ MaxRows + pass'[w].excess <= Cardinality(rows')
    BY <1>10, DeleteOldestEffect
  <2> DEFINE x == pass'[w].excess
             p == [pass[w] EXCEPT !.batches = @ + 1, !.excess = x]
  <2>2. pass' = [pass EXCEPT ![w] = p]
    BY <2>1
  <2>3. p \in PassRow /\ p.pc = "excess" /\ p.excess = x
    <3>1. pass[w] \in PassRow /\ pass[w].batches + 1 \in Int
      BY <1>0, <2>1, PassFields, SMT
    <3>2. x \in Int
      BY <2>1
    <3>. HIDE DEF x
    <3>. QED
      BY <2>1, <3>1, <3>2 DEF PassRow
  <2>4. MaxRows + x <= Cardinality(rows')
    BY <2>1
  <2>. HIDE DEF p, x
  <2>5. UNCHANGED <<nextId, unsaved, lock>>
    BY <1>10 DEF DeleteOldest
  <2>. QED
    BY <1>1, <2>1, <2>2, <2>3, <2>4, <2>5
<1>11. ASSUME NEW w \in Process, EndPass(w) \/ FailPass(w) PROVE HistoryInv'
  <2>1. /\ Passing(w) /\ pass' = [pass EXCEPT ![w] = Resting] /\ lock' = None
        /\ UNCHANGED <<rows, expired, nextId, unsaved>>
    BY <1>11 DEF EndPass, FailPass, LockAfterError, Passing
  <2>. QED
    BY <1>2, <2>1
<1>12. CASE UNCHANGED <<rows, expired, nextId, unsaved, lock, pass>>
  BY <1>0, <1>12 DEF HistoryInv, TypeInv, LockInv, PassFine, Passing
<1>. QED
  BY <1>3, <1>4, <1>5, <1>6, <1>7, <1>8, <1>9, <1>10, <1>11, <1>12
  DEF Next, Monitor, vars, IntervalPasses

-----------------------------------------------------------------------------
(* No two processes delete at the same time, whatever errors end the passes of others:     *)
(* cleanup_metric_history holds the advisory lock for the whole pass.                       *)
THEOREM HistoryOneCleaner == Spec => [](\A v, w \in Process : Passing(v) /\ Passing(w) => v = w)
<1>1. HistoryInv => \A v, w \in Process : Passing(v) /\ Passing(w) => v = w
  BY DEF HistoryInv, LockInv
<1>. QED
  BY <1>1, HistoryInit, HistoryStep, PTL DEF Spec

(* A row goes because it is past its age, or because MaxRows younger ones remain: although  *)
(* the count of a pass is older than its last batches, heartbeats commit in between, also   *)
(* rows with smaller ids than committed ones, and several processes clean up.               *)
THEOREM HistoryDeletesWhatItMust == Spec => DeletesWhatItMust
<1>1. ASSUME HistoryInv, [Next]_vars
      PROVE  [\A i \in rows \ rows' :
                i \in expired \/ (MaxRows # 0 /\ Cardinality({j \in rows' : j > i}) >= MaxRows)]_vars
  <2> SUFFICES ASSUME Next, NEW i \in rows \ rows'
               PROVE  i \in expired
                      \/ (MaxRows # 0 /\ Cardinality({j \in rows' : j > i}) >= MaxRows)
    BY <1>1
  <2>1. ASSUME NEW w \in Process, DeleteExpired(w) PROVE i \in expired
    BY <1>1, <2>1, DeleteExpiredEffect
  <2>2. ASSUME NEW w \in Process, DeleteOldest(w)
        PROVE  MaxRows # 0 /\ Cardinality({j \in rows' : j > i}) >= MaxRows
    <3>1. /\ MaxRows # 0 /\ rows' \in SUBSET rows /\ \A j \in rows' : i < j
          /\ pass'[w].excess \in Int /\ pass'[w].excess >= 0 /\ Cardinality(rows') \in Nat
          /\ MaxRows + pass'[w].excess <= Cardinality(rows')
      BY <1>1, <2>2, DeleteOldestEffect
    <3>2. i \in Int /\ \A j \in rows' : j \in Int
      <4>1. rows \in SUBSET Id /\ rows' \in SUBSET Id
        BY <1>1, <3>1 DEF HistoryInv, TypeInv
      <4>. QED
        BY <4>1, Finite
    <3>3. {j \in rows' : j > i} = rows'
      <4>1. \A j \in rows' : j > i
        BY <3>1, <3>2, SMT
      <4>. QED
        BY <4>1
    <3>4. Cardinality(rows') >= MaxRows
      BY <3>1, HistoryAssumption, SMT
    <3>. QED
      BY <3>1, <3>3, <3>4
  <2>3. ASSUME rows \subseteq rows' PROVE FALSE
    BY <2>3
  <2>. QED
    BY <2>1, <2>2, <2>3
    DEF Next, Monitor, RecordMetricHistory, CommitHeartbeat, AbortHeartbeat, IntervalPasses,
        Expire, BeginPass, CountRows, EndPass, FailPass
<1>. QED
  BY <1>1, HistoryInit, HistoryStep, PTL DEF Spec, DeletesWhatItMust
=============================================================================
