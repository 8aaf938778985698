---------------------------- MODULE MCWorkerPool ----------------------------
(***************************************************************************)
(* WorkerPool for TLC: workers and jobs are model values.  Neither is ever *)
(* compared but for equality, so any permutation of them is a symmetry;    *)
(* the runs that check liveness do without.                                *)
(***************************************************************************)
EXTENDS WorkerPool, TLC

CONSTANTS w1, w2, j1, j2, j3

JobSymmetry == Permutations(Jobs)
Symmetry == Permutations(Jobs) \cup Permutations(Workers)
=============================================================================
