------------------------------- MODULE Intake -------------------------------
(***************************************************************************)
(* What ingesting promises to a caller about one content, whatever happens *)
(* to jobs, workers and processes: accepted content is stored or rejected, *)
(* stored content stays stored, and rejected content can be taken up again.*)
(***************************************************************************)
CONSTANT Docs
VARIABLE phase

Init == phase = [d \in Docs |-> "absent"]

Move(d, from, to) ==
  /\ phase[d] \in from
  /\ phase' = [phase EXCEPT ![d] = to]

Accept(d) == Move(d, {"absent"}, "accepted")
Store(d)  == Move(d, {"accepted"}, "stored")
Reject(d) == Move(d, {"accepted"}, "rejected")
(* A retry, by the operator.                                               *)
Reopen(d) == Move(d, {"rejected"}, "accepted")
(* A process that was still at work when another one gave the content up.  *)
Rescue(d) == Move(d, {"rejected"}, "stored")

Next == \E d \in Docs : Accept(d) \/ Store(d) \/ Reject(d) \/ Reopen(d) \/ Rescue(d)

Spec == Init /\ [][Next]_phase

(* Accepted content does not wait for ever.                                *)
FairSpec == Spec /\ \A d \in Docs : WF_phase(Store(d) \/ Reject(d))
=============================================================================
