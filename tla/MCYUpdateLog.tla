----------------------------- MODULE MCYUpdateLog -----------------------------
(* A small instance of YUpdateLog for TLC: who acts is interchangeable.     *)
EXTENDS YUpdateLog, TLC

Symmetry == Permutations(Processes) \cup Permutations(Actors)
              \cup Permutations(Compactors) \cup Permutations(Readers)
=============================================================================
