----------------------------- MODULE MCMigration -----------------------------
(* Instance of Migration for TLC.                                           *)
EXTENDS Migration

(* Two scans of the same bytes, one with a tag, and a log: its MIME type is *)
(* known to the audit, its extension to nobody.                             *)
MCFileOf == [d \in Docs |-> IF d = 3 THEN [name |-> "log", mime |-> "txt", magic |-> FALSE]
                                     ELSE [name |-> "pdf", mime |-> "pdf", magic |-> TRUE]]
MCContentOf == [d \in Docs |-> IF d = 3 THEN "b" ELSE "a"]
MCTagOf == [d \in Docs |-> [id |-> IF d = 1 THEN 7 ELSE 0, name |-> ""]]
MCIdLists == {<<1, 1>>}
=============================================================================
