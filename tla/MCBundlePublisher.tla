--------------------------- MODULE MCBundlePublisher ---------------------------
(* Instances of BundlePublisher for TLC: the processes and the observations'  *)
(* bytes are interchangeable.                                                 *)
EXTENDS BundlePublisher, TLC

Symmetric == Permutations(Publishers) \cup Permutations(Contents)
=============================================================================
