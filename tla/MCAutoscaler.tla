---------------------------- MODULE MCAutoscaler -----------------------------
(* Instances of Autoscaler for TLC.                                        *)
EXTENDS Autoscaler, TLC

\* Pods are only compared for equality, and Init takes any of them.
PodSymmetry == Permutations(Pod)
=============================================================================
