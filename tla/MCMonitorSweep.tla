--------------------------- MODULE MCMonitorSweep ---------------------------
(* A small instance of MonitorSweep for TLC. *)
EXTENDS MonitorSweep, TLC

CONSTANTS w1, w2, s1, s2, a, b, i1, i2

TwoSources == <<a, b>>
OneEach == i1 :> a @@ i2 :> b

(* both sweeps in one process, and one in each *)
Together == [s \in Sweeps |-> w1]
Apart == s1 :> w1 @@ s2 :> w2

(* every placement and every set of dead sources while Redis answers; an    *)
(* outage in one process                                                    *)
Cases ==
  [faults : {{"expiry"}}, home : {Together, Apart}, dead : SUBSET {a, b}]
    \cup [faults : {{"crash"}}, home : {Together, Apart}, dead : {{}}]
    \cup [faults : {{"away"}, {"redis"}}, home : {Together}, dead : {{}}]

=============================================================================
