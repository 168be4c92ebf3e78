---------------------------- MODULE MonitorSweep ----------------------------
(***************************************************************************)
(* Monitor sweeps.  A sweep takes the sources one after another:           *)
(* collect what the site lists, ask the source's seen set which ids are    *)
(* new, mark all of them seen, push the new ones to the feed.  Sweeps run  *)
(* in worker processes and overlap when one takes longer than the cron     *)
(* interval.  Between its await on the site and its next one a process     *)
(* runs one sweep only; processes interleave at every call to Redis.       *)
(* Sweeps are begun by a taskiq scheduler process, which the repository's  *)
(* deployment does not run: whether and how often is left open here.       *)
(*                                                                         *)
(* Items are ids that pass the keyword filter; the others are dropped      *)
(* before any of this.  The feed is what was pushed, without its order     *)
(* and its cap.  home, dead and faults are fixed for a behaviour; faults:  *)
(*   away     Redis does not answer for all of the behaviour               *)
(*   redis    a call to Redis raises (a write may have been applied)       *)
(*   crash    a worker process dies and restarts                           *)
(*   expiry   a seen set reaches its sliding TTL                           *)
(***************************************************************************)
EXTENDS Naturals, Sequences

CONSTANTS Workers, Sweeps, Items,
          Order,       \* the sources, in the order a sweep takes them
          SourceOf,    \* the source that lists an item
          Settings     \* the environments considered: faults, home and dead

(* a sweep of no sources does nothing *)
ASSUME SourcesAssumption ==
  /\ Order # <<>>
  /\ Order \in Seq({Order[n] : n \in DOMAIN Order})
  /\ SourceOf \in [Items -> {Order[n] : n \in DOMAIN Order}]
Faults == {"away", "redis", "crash", "expiry"}
ASSUME SettingsAssumption ==
  Settings \subseteq [faults : SUBSET Faults, home : [Sweeps -> Workers],
                     dead : SUBSET {Order[n] : n \in DOMAIN Order}]

VARIABLES
  faults,
  home,       \* sweep -> the worker process that runs it
  dead,       \* the sources that never answer
  listed,     \* what the sites list
  seen,       \* the seen sets in Redis, those of all sources together
  localSeen,  \* worker -> its fallback seen sets
  pc, next,   \* where each sweep is, and the source it is at
  items, new, \* what it has collected there, and which of it is new
  emitted     \* item -> how often it was pushed, 2 for more

fixed == <<faults, home, dead>>
sweepVars == <<pc, next, items, new>>
vars == <<faults, home, dead, listed, seen, localSeen, pc, next, items, new, emitted>>

Of(source) == {i \in Items : SourceOf[i] = source}
Here(s) == Order[next[s]]

(* A sweep between two awaits keeps its process to itself *)
Busy(s) == pc[s] \in {"filter", "mark", "record"}
Alone(s) == \A x \in Sweeps : home[x] = home[s] => ~Busy(x)

(* The outcomes of a call to Redis *)
Answers == CASE "away" \in faults -> {FALSE}
             [] "away" \notin faults /\ "redis" \in faults -> BOOLEAN
             [] OTHER -> {TRUE}

OneProcess == \A x, y \in Sweeps : home[x] = home[y]

Init ==
  /\ \E setting \in Settings :
       faults = setting.faults /\ home = setting.home /\ dead = setting.dead
  /\ listed = {}
  /\ seen = {}
  /\ localSeen = [w \in Workers |-> {}]
  /\ pc = [s \in Sweeps |-> "idle"]
  /\ next = [s \in Sweeps |-> 1]
  /\ items = [s \in Sweeps |-> {}]
  /\ new = [s \in Sweeps |-> {}]
  /\ emitted = [i \in Items |-> 0]

-----------------------------------------------------------------------------
Begin(s) ==
  /\ pc[s] = "idle" /\ Alone(s)
  /\ pc' = [pc EXCEPT ![s] = "collect"]
  /\ next' = [next EXCEPT ![s] = 1]
  /\ UNCHANGED <<listed, seen, localSeen, items, new, emitted>>

(* The loop goes on to the next source, or the sweep is over *)
Advance(s) ==
  IF next[s] < Len(Order)
  THEN /\ next' = [next EXCEPT ![s] = @ + 1]
       /\ pc' = [pc EXCEPT ![s] = "collect"]
  ELSE /\ next' = [next EXCEPT ![s] = 1]
       /\ pc' = [pc EXCEPT ![s] = "idle"]

Collect(s) ==
  /\ pc[s] = "collect" /\ Alone(s)
  /\ Here(s) \notin dead
  /\ items' = [items EXCEPT ![s] = listed \cap Of(Here(s))]
  /\ pc' = [pc EXCEPT ![s] = "filter"]
  /\ UNCHANGED <<listed, seen, localSeen, next, new, emitted>>

(* Mutant: a failing source ends the sweep *)
CollectErrorEnds(s) ==
  /\ pc[s] = "collect" /\ Alone(s)
  /\ pc' = [pc EXCEPT ![s] = "idle"]
  /\ next' = [next EXCEPT ![s] = 1]
  /\ UNCHANGED <<listed, seen, localSeen, items, new, emitted>>

CollectError(s) ==
  /\ pc[s] = "collect" /\ Alone(s)
  /\ Advance(s)
  /\ UNCHANGED <<listed, seen, localSeen, items, new, emitted>>

(* Mutant: the other tier's seen set is asked *)
UnseenWrong(s, answers) == items[s] \ IF answers THEN localSeen[home[s]] ELSE seen

(* The ids not seen before: as Redis says, or the fallback if it raises *)
Unseen(s, answers) == items[s] \ IF answers THEN seen ELSE localSeen[home[s]]

Filter(s) ==
  /\ pc[s] = "filter"
  /\ \E answers \in Answers : new' = [new EXCEPT ![s] = Unseen(s, answers)]
  /\ pc' = [pc EXCEPT ![s] = "mark"]
  /\ UNCHANGED <<listed, seen, localSeen, next, items, emitted>>

(* Mutant: only what is still unseen after the marking counts as new *)
MarkFirst(s) ==
  /\ pc[s] = "mark"
  /\ seen' = seen \cup items[s]
  /\ new' = [new EXCEPT ![s] = @ \ seen']
  /\ pc' = [pc EXCEPT ![s] = "record"]
  /\ UNCHANGED <<listed, localSeen, next, items, emitted>>

(* SADD and EXPIRE; if one raises, applied or not, the fallback is marked *)
Mark(s) ==
  /\ pc[s] = "mark"
  /\ \/ /\ TRUE \in Answers
        /\ seen' = seen \cup items[s]
        /\ UNCHANGED localSeen
     \/ /\ FALSE \in Answers
        /\ seen' \in IF "away" \in faults THEN {seen} ELSE {seen, seen \cup items[s]}
        /\ localSeen' = [localSeen EXCEPT ![home[s]] = @ \cup items[s]]
  /\ pc' = [pc EXCEPT ![s] = "record"]
  /\ UNCHANGED <<listed, next, items, new, emitted>>

Push(is) ==
  emitted' = [i \in Items |-> IF i \in is /\ emitted[i] < 2 THEN emitted[i] + 1 ELSE emitted[i]]

(* Mutant: the collected items are kept for the next source *)
ForgetNothing(s) == UNCHANGED <<items, new>>

Forget(s) ==
  /\ items' = [items EXCEPT ![s] = {}]
  /\ new' = [new EXCEPT ![s] = {}]

(* LPUSH, or the fallback list if Redis is away; if the push itself raises *)
(* the items are only logged                                               *)
Record(s) ==
  /\ pc[s] = "record"
  /\ \/ Push(new[s])
     \/ "redis" \in faults /\ UNCHANGED emitted
  /\ Forget(s)
  /\ Advance(s)
  /\ UNCHANGED <<listed, seen, localSeen>>

-----------------------------------------------------------------------------
Publish(i) ==
  /\ i \notin listed
  /\ listed' = listed \cup {i}
  /\ UNCHANGED <<seen, localSeen, sweepVars, emitted>>

(* Taken down, or pushed off the page by newer items *)
Withdraw(i) ==
  /\ i \in listed
  /\ listed' = listed \ {i}
  /\ UNCHANGED <<seen, localSeen, sweepVars, emitted>>

(* No sweep has marked anything of the source for MONITOR_SEEN_TTL_DAYS *)
SeenExpire(source) ==
  /\ "expiry" \in faults
  /\ seen \cap Of(source) # {}
  /\ seen' = seen \ Of(source)
  /\ UNCHANGED <<listed, localSeen, sweepVars, emitted>>

(* The process restarts with an empty fallback; its sweeps are gone *)
Crash(w) ==
  /\ "crash" \in faults
  /\ localSeen' = [localSeen EXCEPT ![w] = {}]
  /\ pc' = [s \in Sweeps |-> IF home[s] = w THEN "idle" ELSE pc[s]]
  /\ next' = [s \in Sweeps |-> IF home[s] = w THEN 1 ELSE next[s]]
  /\ items' = [s \in Sweeps |-> IF home[s] = w THEN {} ELSE items[s]]
  /\ new' = [s \in Sweeps |-> IF home[s] = w THEN {} ELSE new[s]]
  /\ UNCHANGED <<listed, seen, emitted>>

SweepStep(s) == Collect(s) \/ CollectError(s) \/ Filter(s) \/ Mark(s) \/ Record(s)

Site(i) == Publish(i) \/ Withdraw(i)

Next ==
  /\ \/ \E s \in Sweeps : Begin(s) \/ SweepStep(s)
     \/ \E i \in Items : Site(i)
     \/ \E n \in DOMAIN Order : SeenExpire(Order[n])
     \/ \E w \in Workers : Crash(w)
  /\ UNCHANGED fixed

Spec == Init /\ [][Next]_vars

(* A sweep that has begun goes on, every request ends, and a source that is *)
(* not dead answers now and then.  Nothing makes sweeps begin: no scheduler *)
(* process is deployed (research_task.py).                                  *)
SourceAnswers(s, n) == next[s] = n /\ Collect(s)

Fairness ==
  \A s \in Sweeps :
    /\ SF_vars(SweepStep(s) /\ UNCHANGED fixed)
    /\ \A n \in DOMAIN Order : SF_vars(SourceAnswers(s, n) /\ UNCHANGED fixed)

FairSpec == Spec /\ Fairness

-----------------------------------------------------------------------------
(* Types.  A sweep has items in hand only between two awaits, and the new   *)
(* ones are among them.                                                     *)
TypeOK ==
  /\ [faults |-> faults, home |-> home, dead |-> dead] \in Settings
  /\ listed \subseteq Items /\ seen \subseteq Items
  /\ localSeen \in [Workers -> SUBSET Items]
  /\ pc \in [Sweeps -> {"idle", "collect", "filter", "mark", "record"}]
  /\ next \in [Sweeps -> 1..Len(Order)]
  /\ items \in [Sweeps -> SUBSET Items] /\ new \in [Sweeps -> SUBSET Items]
  /\ emitted \in [Items -> 0..2]
  /\ \A s \in Sweeps : ~Busy(s) => items[s] = {}
  /\ \A s \in Sweeps : new[s] \subseteq items[s]

(* Sweeps of one process, however they overlap, push an item to the feed at *)
(* most once while the seen set lives (monitor_store.py, "each sweep only   *)
(* emits genuinely new items"): wherever they die if Redis answers, and in  *)
(* the fallback as long as the process lives if it does not.                *)
AtMostOnce ==
  OneProcess /\ faults \in {{}, {"crash"}, {"away"}} => \A i \in Items : emitted[i] <= 1

(* What is marked seen has been pushed or will be by a sweep that holds it: *)
(* no order of two processes' calls makes each leave an item to the other.  *)
NothingSwallowed ==
  faults \subseteq {"expiry"} =>
    \A i \in seen : emitted[i] > 0 \/ \E s \in Sweeps : i \in new[s]

(* Where sweeps are begun again and again, by whoever runs the scheduler,   *)
(* an item that stays listed at a source that is not dead is pushed in the  *)
(* end, though the sources before it fail in every sweep.                   *)
Sweeping == []<>(\E s \in Sweeps : pc[s] = "collect")

ListedIsEmitted ==
  \A i \in Items :
    /\ Sweeping
    /\ faults \subseteq {"expiry"} /\ SourceOf[i] \notin dead /\ <>[](i \in listed)
    => <>(emitted[i] > 0)

=============================================================================
