-------------------------- MODULE MC_BackupRestore --------------------------
(* Model-checking instance of BackupRestore.                               *)
EXTENDS BackupRestore, TLC

CONSTANTS r1, r2, j1, j2, j3, j4

OneRequest == {r1}
TwoRequests == {r1, r2}
ThreeJobs == {j1, j2, j3}
FourJobs == {j1, j2, j3, j4}

\* Records and requests are interchangeable: only safety is checked.
JobSymmetry == Permutations(JobIds)
JobAndRequestSymmetry == Permutations(JobIds) \cup Permutations(Requests)
=============================================================================
