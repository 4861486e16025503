--------------------------- MODULE MCImageRelease ---------------------------
(* Instances of ImageRelease for TLC.                                      *)
EXTENDS ImageRelease, TLC

\* Image tags are only compared for equality, and Init takes any of them.
ImageSymmetry == Permutations(Image)
=============================================================================
