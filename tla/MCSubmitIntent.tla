---------------------------- MODULE MCSubmitIntent ----------------------------
(* SubmitIntent for TLC: jobs and presses are told apart by what they do. *)
EXTENDS SubmitIntent, TLC

CONSTANTS acme, globex, j1, j2, j3, p1, p2, p3

IntentSymmetry == Permutations(Jobs) \cup Permutations(Presses)
=============================================================================
