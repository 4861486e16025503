----------------------------- MODULE MCAccounts -----------------------------
EXTENDS Accounts, TLC

(* The requests, threads, processes and ordinary members are interchangeable. *)
Symmetry ==
  {a @@ b @@ c @@ d @@ e : a \in Permutations(User), b \in Permutations(Login), c \in Permutations(Edit),
                           d \in Permutations(Process), e \in Permutations(Person \ {Bootstrap})}
=============================================================================
