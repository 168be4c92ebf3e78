---------------------------- MODULE TaskLifecycle ----------------------------
(***************************************************************************)
(* What the research service promises of one task, with no process, lock   *)
(* or list in sight: an accepted task is queued; a queued task is executed *)
(* by one executor or parked while its LLM is away; a parked task is       *)
(* requeued; done and failed are final.  A crash may lose what was queued  *)
(* or executing (its record says running until it expires), and a record   *)
(* nobody is working on may be forgotten after 24 hours.                   *)
(***************************************************************************)
CONSTANTS Tasks

VARIABLE phase

Phases == {"new", "queued", "executing", "parked", "done", "failed", "lost", "gone"}

TypeOK == phase \in [Tasks -> Phases]

Init == phase = [t \in Tasks |-> "new"]

Move(t, from, to) ==
  /\ phase[t] \in from
  /\ phase' = [phase EXCEPT ![t] = to]

Accept(t) == Move(t, {"new"}, "queued")
(* kiq raised: the API reports failure *)
Reject(t) == Move(t, {"queued"}, "failed")
Execute(t) == Move(t, {"queued"}, "executing")
(* the gate, a lost endpoint, or a drain whose kiq raised *)
Park(t) == Move(t, {"queued", "executing"}, "parked")
(* from gone: the record expired while a drain pass held it *)
Requeue(t) == Move(t, {"parked", "gone"}, "queued")
Finish(t) == Move(t, {"executing"}, "done") \/ Move(t, {"executing"}, "failed")
(* a message whose record expired is answered with a failed record *)
ReportMissing(t) == Move(t, {"gone"}, "failed")
Forget(t) == Move(t, {"queued", "parked", "done", "failed", "lost"}, "gone")

(* one process dies with everything it held *)
Lose(S) ==
  /\ \A t \in S : phase[t] \in {"queued", "executing"}
  /\ phase' = [t \in Tasks |-> IF t \in S THEN "lost" ELSE phase[t]]

Next ==
  \/ \E t \in Tasks : \/ Accept(t) \/ Reject(t) \/ Execute(t) \/ Park(t)
                      \/ Requeue(t) \/ Finish(t) \/ ReportMissing(t) \/ Forget(t)
  \/ \E S \in SUBSET Tasks : Lose(S)

Spec == Init /\ [][Next]_phase

=============================================================================
