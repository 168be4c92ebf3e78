----------------------------- MODULE MCService -----------------------------
(***************************************************************************)
(* Three parts of the API service that share no state, checked side by     *)
(* side on small instances: the "gate" a tenant's requests pass while      *)
(* Redis may raise, the "stream"s and polls that read a task's record, and *)
(* the research "run" itself.  part is chosen once and says which one      *)
(* runs; the others rest in one initial state.                             *)
(***************************************************************************)
EXTENDS ResearchAgent, StatusStream, TLC

CONSTANTS r1, k1, NoKey, t1, t2, s1, u1, u2, u3, d1

VARIABLES part, faults, keys, quota, cache, count, gateLeft, gatePc, req, window

Gate == INSTANCE TenantGate WITH
  Requests <- {r1}, Keys <- {k1}, Quotas <- {1, 2}, ReadQuota <- 1,
  Ttl <- 1, Lag <- 1, Window <- 2, MaxQuota <- 2, FaultSets <- {{"redis"}},
  pc <- gatePc, left <- gateLeft

(* two spellings of one search, and a string without a word in it; two  *)
(* pages of one domain, and a URL without a netloc                      *)
Searches == {"a", "A", "-"}
Normal == [q \in Searches |-> IF q = "-" THEN "" ELSE "a"]
Domain == [u \in Urls |-> IF u = u3 THEN "" ELSE d1]

gateVars == <<faults, keys, quota, cache, count, gateLeft, gatePc, req, window>>
serviceVars == <<part, vars, streamVars, gateVars>>

(* The readers are checked twice: of two tasks that share a cache of one    *)
(* entry while nothing goes wrong and each is written once, and of one task *)
(* through all its tiers, whatever POST /run left and whatever goes wrong.  *)
Reading == part \in {"stream", "tiers"}
Posting(t) == record[t] = [version |-> 1, status |-> "running"] /\ local[t] = Gone
Resting(t) == UNCHANGED <<record[t], latest[t], taskCache[t], shown[t]>>

ServiceInit ==
  /\ part \in {"gate", "stream", "tiers", "run"}
  /\ Init /\ Gate!Init /\ StreamInit
  /\ Posting(t2) /\ (part # "tiers" => troubles = {} /\ Posting(t1))
  /\ part # "stream" => \A s \in Streams : stream[s].task = t1

ServiceNext ==
  \/ part = "run" /\ Next /\ UNCHANGED <<part, streamVars, gateVars>>
  \/ part = "stream" /\ StreamNext /\ UNCHANGED <<part, vars, gateVars>>
                     /\ \A t \in Watched : latest'[t] <= 2
  \/ part = "tiers" /\ StreamNext /\ UNCHANGED <<part, vars, gateVars>> /\ Resting(t2)
  \/ part = "gate" /\ Gate!Next /\ UNCHANGED <<part, vars, streamVars>>

ServiceSpec ==
  /\ ServiceInit /\ [][ServiceNext]_serviceVars
  /\ WF_vars(part = "run" /\ Next)
  /\ WF_streamVars(Reading /\ Tick)
  /\ \A s \in Streams : WF_streamVars(Reading /\ StreamStep(s))
  /\ WF_gateVars(part = "gate" /\ Gate!RequestStep(r1) /\ UNCHANGED faults)
  /\ SF_gateVars(part = "gate" /\ Gate!Tick /\ UNCHANGED faults)

(* A tenant that keeps asking for work is served again and again: being    *)
(* rejected does not push the end of its window out (token_bucket.py).     *)
NoLockout == Gate!NoLockout

(* Every research run ends, with a report or an exception, whatever fails  *)
(* in it; every event stream ends with its task, an error or its deadline, *)
(* whatever is written and however long its task takes.                    *)
RunsAndStreamsEnd ==
  /\ <>(part = "run" => pc \in {"done", "raised"})
  /\ \A s \in Streams : <>(Reading => stream[s].state # "open")

=============================================================================
