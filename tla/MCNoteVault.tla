----------------------------- MODULE MCNoteVault ------------------------------
(* Instances of NoteVault for TLC: documents 1 and 2 of Paperless have one   *)
(* base name, documents 3 and 4 another.                                     *)
EXTENDS NoteVault

MCStem(d) == IF d <= 2 THEN "letter" ELSE "scan"
=============================================================================
