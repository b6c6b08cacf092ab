----------------------------- MODULE MCJobQueue -----------------------------
(* Small instances of JobQueue for TLC. *)
EXTENDS JobQueue, TLC

CONSTANTS w1, w2, w3, acme, globex

\* The processes of a run are interchangeable before they start.
WorkerSymmetry == Permutations(Workers)
=============================================================================
