----------------------------- MODULE MCJobQueue -----------------------------
(* Instances of JobQueue for TLC.                                          *)
EXTENDS JobQueue, TLC

CONSTANTS d1, d2, w1, w2, c1, c2

(* Processes of a kind, and documents, are interchangeable.                *)
Symmetry == Permutations(Docs) \cup Permutations(Workers) \cup Permutations(Clients)
=============================================================================
