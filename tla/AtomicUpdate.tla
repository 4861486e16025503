---------------------------- MODULE AtomicUpdate -----------------------------
(***************************************************************************)
(* What an update task promises the server: the container of the service   *)
(* is replaced as a whole, at most once, or it is as it was, and the       *)
(* recorded result says which - except that a task sent again after it was *)
(* carried out fails.                                                      *)
(***************************************************************************)
VARIABLES
    service, \* "old" or "new": what has the service's name and run state;
             \* "unknown" once a failure occurred that the Agent cannot undo
    resent,  \* the task was sent more than once
    outcome  \* the recorded result

Init == service = "old" /\ resent = FALSE /\ outcome = "none"

Resend == /\ outcome = "none"
          /\ resent' = TRUE
          /\ UNCHANGED <<service, outcome>>

Replace == /\ service = "old" /\ outcome = "none"
           /\ service' = "new"
           /\ UNCHANGED <<resent, outcome>>

Succeed == /\ service = "new" /\ outcome = "none"
           /\ outcome' = "success"
           /\ UNCHANGED <<service, resent>>

Fail == /\ service = "old" \/ resent
        /\ outcome = "none"
        /\ outcome' = "failed"
        /\ UNCHANGED <<service, resent>>

\* From here on nothing is promised but that a result is recorded once.
Break == /\ service' = "unknown"
         /\ outcome # "none" => outcome' = outcome

Next == Resend \/ Replace \/ Succeed \/ Fail \/ Break
Spec == Init /\ [][Next]_<<service, resent, outcome>>
=============================================================================
