---------------------------- MODULE MCSignalEval ----------------------------
(* Instances of SignalEval for TLC. *)
EXTENDS SignalEval, TLC

\* Workers and claimant strings are interchangeable, in the runs without
\* liveness.
WorkerAndIdSymmetry == Permutations(ClaimIds) \cup Permutations(Workers)

=============================================================================
