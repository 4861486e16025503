------------------------------ MODULE MCAlerts ------------------------------
EXTENDS Alerts

(* A rule about missing GPUs, one the offline monitor evaluates, and one switched off. *)
MCDefinition ==
  {[by |-> "heartbeat", baseline |-> TRUE, targets |-> Target, enabled |-> TRUE,
    notify |-> FALSE, operator |-> "gte", threshold |-> 1, required |-> 2],
   [by |-> "offline", baseline |-> FALSE, targets |-> Target, enabled |-> TRUE,
    notify |-> TRUE, operator |-> "lte", threshold |-> 0, required |-> 1],
   [by |-> "heartbeat", baseline |-> TRUE, targets |-> Target, enabled |-> FALSE,
    notify |-> FALSE, operator |-> "gte", threshold |-> 1, required |-> 2]}

(* The rows the two statements of cleanup_alert_events delete, also where rows share a *)
(* time: those with at least MaxRows newer ones. *)
ASSUME SurplusCounts ==
  \A n \in 0..5 : \A time \in [1..n -> 1..3] :
    (\A i \in 1..(n - 1) : time[i] <= time[i + 1]) =>
      Surplus(time) = {k \in 1..n : Cardinality({j \in 1..n : time[j] > time[k]}) >= MaxRows}
=============================================================================
