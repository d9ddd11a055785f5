---------------------------- MODULE MCTrainingLoop ----------------------------
(* Small instances of the self-training loop for TLC.                          *)
EXTENDS TrainingLoop, TLC

Symmetric == Permutations(Signals) \cup Permutations(Strategists)
=============================================================================
