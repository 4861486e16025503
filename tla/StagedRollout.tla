---------------------------- MODULE StagedRollout ----------------------------
(***************************************************************************)
(* What a release promises: instances are taken out of service one at a    *)
(* time and in order, one is finished only when its host runs the target,  *)
(* a finished one is not touched again, and the ACS workload follows when  *)
(* all of them are finished.                                               *)
(***************************************************************************)
EXTENDS Naturals

CONSTANTS
    Instance,  \* numbers of the local instances, in release order
    Image

VARIABLES
    target,    \* the image of the release under way; no image between releases
    part,      \* the instances the release is about
    finished,  \* those of them that are done
    out,       \* those that are drained, updated or verified now
    host,      \* the image each host runs
    acs        \* the image of the ACS workload

vars == <<target, part, finished, out, host, acs>>

Underway == target \in Image

Init == /\ ~Underway
        /\ part = {} /\ finished = {} /\ out = {}
        /\ acs \in Image /\ host = [i \in Instance |-> acs]

Start == /\ ~Underway
         /\ target' \in Image
         /\ part' \in (SUBSET Instance) \ {{}}
         /\ UNCHANGED <<finished, out, host, acs>>

\* Instances that run the target are finished; the next one is taken out when
\* those before it are finished.
Advance == /\ Underway
           /\ finished' \in SUBSET part /\ finished \subseteq finished'
           /\ \A i \in finished' \ finished : host[i] = target
           /\ \/ out' = out \ finished'
              \/ \E i \in part \ finished' :
                   /\ out \subseteq finished' /\ out' = {i}
                   /\ {j \in part : j < i} \subseteq finished'
           /\ UNCHANGED <<target, part, host, acs>>

\* A host gets another image, by the release or by what an earlier one left.
Replace == /\ \E i \in Instance \ finished, m \in Image : host' = [host EXCEPT ![i] = m]
           /\ UNCHANGED <<target, part, finished, out, acs>>

SwitchAcs == /\ Underway /\ finished = part /\ out = {}
             /\ acs' = target
             /\ UNCHANGED <<target, part, finished, out, host>>

\* Completed or failed, perhaps in the step that switched the workload.
End == /\ Underway
       /\ acs' # acs => finished = part /\ acs' = target
       /\ target' \notin Image
       /\ part' = {} /\ finished' = {} /\ out' = {}
       /\ UNCHANGED host

Next == Start \/ Advance \/ Replace \/ SwitchAcs \/ End
Spec == Init /\ [][Next]_vars
=============================================================================
