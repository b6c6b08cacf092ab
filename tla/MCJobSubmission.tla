-------------------------- MODULE MCJobSubmission --------------------------
(* Small instances of JobSubmission for TLC. *)
EXTENDS JobSubmission, TLC

CONSTANTS r1, r2, r3, j1, j2, j3, acme, ghost, k1, k2, report, import

\* Requests are alike before they arrive, and so are ids and keys.
SubmissionSymmetry == Permutations(Requests) \cup Permutations(Jobs) \cup Permutations(Keys)
=============================================================================
