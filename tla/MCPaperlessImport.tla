------------------------- MODULE MCPaperlessImport ---------------------------
(* Instances of PaperlessImport for TLC.                                    *)
EXTENDS PaperlessImport

CONSTANTS d1, d2, x, w1, w2, m1, m2

(* Two documents of the same bytes; a rule would give them other metadata,  *)
(* and the server has none of the second.                                   *)
MCContentOf == [d \in Docs |-> x]
MCPreset == [d \in Docs |-> IF d = d1 THEN m1 ELSE None]
MCRuleFor == [c \in {x} |-> m2]
MCInitial == <<d1>>
MCIdLists == {<<>>, <<d1>>}
=============================================================================
