-------------------------- MODULE MCResearchQueue --------------------------
(* Small instances of ResearchQueue for TLC. *)
EXTENDS ResearchQueue, TLC

CONSTANTS t1, t2, a, w1, w2, s1, s2, c1, c2, u1, u2

(* both tasks of one tenant, on one endpoint *)
OneTenant == [t \in Tasks |-> a]
OneConfig == [t \in Tasks |-> c1]
(* each task with its own configuration, on its own or on the same URL *)
OwnConfig == t1 :> c1 @@ t2 :> c2
OneUrl == [c \in Configs |-> u1]
OwnUrl == c1 :> u1 @@ c2 :> u2
(* a slot on each worker, or both slots on one worker *)
SlotEach == s1 :> w1 @@ s2 :> w2
SlotsOne == [s \in Slots |-> w1]
CapTwo == [n \in Tenants |-> 2]
CapOne == [n \in Tenants |-> 1]

(* Tasks of one tenant and one endpoint are interchangeable, and so are the *)
(* workers together with their slots.                                       *)
Same == s1 :> s1 @@ s2 :> s2 @@ w1 :> w1 @@ w2 :> w2
Swapped == s1 :> s2 @@ s2 :> s1 @@ w1 :> w2 @@ w2 :> w1
Interchangeable == {tasks @@ rest : tasks \in Permutations(Tasks), rest \in {Same, Swapped}}

=============================================================================
