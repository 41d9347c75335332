------------------------------ MODULE MCWatcher ------------------------------
(* Instances of Watcher for TLC.                                           *)
EXTENDS Watcher

CONSTANTS f1, f2, p1, n1, x, g1, g2

(* Two files that hold the same are dropped at one path, one after the      *)
(* other; only f1 is still being written when it is dropped.                *)
MCPathOf == [f \in Files |-> p1]
MCNameOf == [p \in Paths |-> n1]
MCDataOf == [f \in Files |-> x]
MCWrites == [f \in Files |-> IF f = f1 THEN 1 ELSE 0]
=============================================================================
