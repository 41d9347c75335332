---------------------------- MODULE MCMailPoller ----------------------------
(* Instances of MailPoller for TLC.                                        *)
EXTENDS MailPoller, TLC

CONSTANTS m1, m2, m3, a, b, x, y, z, p1, p2

(* m1 has two attachments, m2 the same content as one of them under the    *)
(* same name, m3 one of its own.                                           *)
Part(name, content) == [name |-> name, content |-> content, decodes |-> TRUE]

MCParts ==
  [m \in Messages |->
     CASE m = m1 -> <<Part(a, x), Part(b, y)>>
       [] m = m2 -> <<Part(a, x)>>
       [] m = m3 -> <<Part(a, z)>>]

(* Between the attachments of m1, and before that of m2, is one in an       *)
(* encoding NextPart does not know.                                         *)
Garbled == [name |-> a, content |-> z, decodes |-> FALSE]
MCGarbledParts ==
  [m \in Messages |->
     CASE m = m1 -> <<Part(a, x), Garbled, Part(b, y)>>
       [] m = m2 -> <<Garbled, Part(a, x)>>
       [] m = m3 -> <<Part(a, z)>>]

(* The processes are interchangeable.                                      *)
Symmetry == Permutations(Pollers)
=============================================================================
