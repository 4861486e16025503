------------------------------ MODULE MCAccess ------------------------------
EXTENDS Access, TLC

CONSTANTS n1, n2, c1, c2, s1, e1, e2, p

MCEnvironmentOf == n1 :> e1 @@ n2 :> e2
MCNodeOf == c1 :> n1 @@ c2 :> n2
MCProjectOf == c1 :> p @@ c2 :> p

(* Both nodes run a project of the same name. *)
MCOffer ==
  {[scope |-> [type |-> "project", node |-> n1, project |-> p], level |-> "manage"],
   [scope |-> [type |-> "container", node |-> n2, container |-> c2], level |-> "manage"],
   [scope |-> [type |-> "service", service |-> s1], level |-> "operate"]}

Symmetry == {a @@ b : a \in Permutations(User), b \in Permutations(Edit)}
=============================================================================
