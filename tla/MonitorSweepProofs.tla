------------------------- MODULE MonitorSweepProofs -------------------------
(***************************************************************************)
(* Proofs about MonitorSweep, for any sweeps, processes, items and sources *)
(* and every environment: what a seen set and the sweeps' hands hold       *)
(* together decides how often an item reaches the feed.                    *)
(***************************************************************************)
EXTENDS MonitorSweep, SequenceTheorems, TLAPS

(* The seen set a sweep asks when Redis is there for good or away for good. *)
Memory(s) == IF "away" \in faults THEN localSeen[home[s]] ELSE seen

(* At most once: one sweep of the process is between two awaits; what it    *)
(* found new was in no seen set, and is in one before it is pushed.         *)
Steady == OneProcess /\ faults \in {{}, {"crash"}, {"away"}}
OneBusy == \A s, x \in Sweeps : Busy(s) /\ Busy(x) => s = x
OnceInv ==
  /\ OneBusy
  /\ \A i \in Items : emitted[i] <= 1
  /\ \A s \in Sweeps, i \in Items : emitted[i] > 0 => i \in Memory(s)
  /\ \A s \in Sweeps : pc[s] = "mark" => new[s] \cap Memory(s) = {}
  /\ \A s \in Sweeps : pc[s] = "record" =>
       new[s] \subseteq Memory(s) /\ \A i \in new[s] : emitted[i] = 0

(* Nothing swallowed: what a sweep will mark without pushing it was seen, so *)
(* it is pushed or in another sweep's hands, though it may expire meanwhile. *)
Accounted(i) == emitted[i] > 0 \/ \E s \in Sweeps : i \in new[s]
HandsInv ==
  /\ \A s \in Sweeps : pc[s] \notin {"mark", "record"} => new[s] = {}
  /\ faults \subseteq {"expiry"} =>
       /\ \A i \in seen : Accounted(i)
       /\ \A s \in Sweeps : pc[s] = "mark" => \A i \in items[s] \ new[s] : Accounted(i)

-----------------------------------------------------------------------------
(* Steps *)

(* A sweep that is over has gone through its sources. *)
LEMMA OrderLength == Len(Order) \in Nat /\ Len(Order) >= 1
BY SourcesAssumption, EmptySeq

(* What Redis may answer in the environments that are told apart. *)
LEMMA AnswersCases ==
  /\ "away" \in faults => TRUE \notin Answers
  /\ "away" \notin faults /\ "redis" \notin faults => FALSE \notin Answers
BY DEF Answers

(* A sweep goes on to the next source, or ends. *)
LEMMA AdvanceEffect ==
  ASSUME TypeOK, NEW s \in Sweeps, Advance(s)
  PROVE  /\ next' \in [Sweeps -> 1..Len(Order)]
         /\ pc' \in [Sweeps -> {"idle", "collect", "filter", "mark", "record"}]
         /\ pc'[s] \in {"idle", "collect"} /\ \A x \in Sweeps \ {s} : pc'[x] = pc[x]
<1>1. CASE next[s] < Len(Order)
  <2>1. next[s] + 1 \in 1..Len(Order)
    BY <1>1, OrderLength DEF TypeOK
  <2> QED BY <1>1, <2>1 DEF Advance, TypeOK
<1>2. CASE ~(next[s] < Len(Order))
  <2>1. 1 \in 1..Len(Order)
    BY OrderLength
  <2> QED BY <1>2, <2>1 DEF Advance, TypeOK
<1> QED BY <1>1, <1>2

(* A push counts each item it is given, up to two. *)
LEMMA PushEffect ==
  ASSUME TypeOK, NEW is, Push(is)
  PROVE  /\ emitted' \in [Items -> 0..2]
         /\ \A i \in Items : IF i \in is THEN emitted'[i] > 0 /\ emitted'[i] <= emitted[i] + 1
                                        ELSE emitted'[i] = emitted[i]
<1>1. \A i \in Items : emitted'[i] = IF i \in is /\ emitted[i] < 2 THEN emitted[i] + 1 ELSE emitted[i]
  BY DEF Push
<1>2. \A i \in Items : emitted[i] \in 0..2
  BY DEF TypeOK
<1>3. \A i \in Items : emitted'[i] \in 0..2
  BY <1>1, <1>2
<1>4. emitted' = [i \in Items |-> emitted'[i]]
  BY DEF Push
<1> QED BY <1>1, <1>2, <1>3, <1>4

(* The new items are those the asked seen set does not have. *)
LEMMA FilterEffect ==
  ASSUME NEW s \in Sweeps, Filter(s)
  PROVE  \/ TRUE \in Answers /\ new' = [new EXCEPT ![s] = items[s] \ seen]
         \/ FALSE \in Answers /\ new' = [new EXCEPT ![s] = items[s] \ localSeen[home[s]]]
<1>1. PICK answers \in Answers : new' = [new EXCEPT ![s] = Unseen(s, answers)]
  BY DEF Filter
<1>2. CASE answers = TRUE
  BY <1>1, <1>2 DEF Unseen
<1>3. CASE answers = FALSE
  BY <1>1, <1>3 DEF Unseen
<1>4. answers = TRUE \/ answers = FALSE
  BY <1>1 DEF Answers
<1> QED BY <1>2, <1>3, <1>4

(* The steps a sweep takes keep the shapes. *)
LEMMA SweepType ==
  ASSUME TypeOK, UNCHANGED fixed, NEW s \in Sweeps, Begin(s) \/ SweepStep(s) PROVE TypeOK'
<1> USE DEF Busy
<1>0. /\ faults' = faults /\ home' = home /\ dead' = dead
  BY DEF fixed
<1>1. CASE Begin(s)
  <2>1. 1 \in 1..Len(Order)
    BY OrderLength
  <2> QED BY <1>0, <1>1, <2>1 DEF Begin, TypeOK
<1>2. CASE Collect(s)
  <2>1. items' \in [Sweeps -> SUBSET Items] /\ pc'[s] = "filter"
    BY <1>2 DEF Collect, TypeOK
  <2>2. ASSUME NEW x \in Sweeps PROVE (~Busy(x)' => items'[x] = {}) /\ new'[x] \subseteq items'[x]
    <3>1. new[s] = {}
      BY <1>2 DEF Collect, TypeOK
    <3>2. CASE x = s
      BY <1>2, <2>1, <3>1, <3>2 DEF Collect, TypeOK
    <3>3. CASE x # s
      BY <1>2, <3>3 DEF Collect, TypeOK
    <3> QED BY <3>2, <3>3
  <2>3. pc' \in [Sweeps -> {"idle", "collect", "filter", "mark", "record"}]
    BY <1>2 DEF Collect, TypeOK
  <2> QED BY <1>0, <1>2, <2>1, <2>2, <2>3 DEF Collect, TypeOK
<1>3. CASE CollectError(s)
  <2>1. ~Busy(s) /\ Advance(s)
    BY <1>3 DEF CollectError
  <2> QED BY <1>0, <1>3, <2>1, AdvanceEffect DEF CollectError, TypeOK
<1>4. CASE Filter(s)
  <2>1. PICK n \in SUBSET items[s] : new' = [new EXCEPT ![s] = n]
    BY <1>4, FilterEffect
  <2>2. new' \in [Sweeps -> SUBSET Items] /\ \A x \in Sweeps : new'[x] \subseteq items[x]
    BY <2>1 DEF TypeOK
  <2>3. pc' \in [Sweeps -> {"idle", "collect", "filter", "mark", "record"}]
        /\ \A x \in Sweeps : Busy(x)' <=> Busy(x)
    BY <1>4 DEF Filter, TypeOK
  <2> QED BY <1>0, <1>4, <2>2, <2>3 DEF Filter, TypeOK
<1>5. CASE Mark(s)
  <2>1. seen' \subseteq Items /\ localSeen' \in [Workers -> SUBSET Items]
    BY <1>5 DEF Mark, TypeOK
  <2>2. pc' \in [Sweeps -> {"idle", "collect", "filter", "mark", "record"}]
        /\ \A x \in Sweeps : Busy(x)' <=> Busy(x)
    BY <1>5 DEF Mark, TypeOK
  <2> QED BY <1>0, <1>5, <2>1, <2>2 DEF Mark, TypeOK
<1>6. CASE Record(s)
  <2>1. emitted' \in [Items -> 0..2]
    <3>1. CASE Push(new[s])
      BY <3>1, PushEffect
    <3>2. CASE emitted' = emitted
      BY <3>2 DEF TypeOK
    <3> QED BY <1>6, <3>1, <3>2 DEF Record
  <2>2. /\ items' \in [Sweeps -> SUBSET Items] /\ new' \in [Sweeps -> SUBSET Items]
        /\ items'[s] = {} /\ \A x \in Sweeps : new'[x] \subseteq items'[x]
        /\ \A x \in Sweeps \ {s} : items'[x] = items[x]
    BY <1>6 DEF Record, Forget, TypeOK
  <2>3. Advance(s)
    BY <1>6 DEF Record
  <2> QED BY <1>0, <1>6, <2>1, <2>2, <2>3, AdvanceEffect DEF Record, TypeOK
<1> QED BY <1>1, <1>2, <1>3, <1>4, <1>5, <1>6 DEF SweepStep

(* So do the sites, the seen sets' expiry and crashes. *)
LEMMA StepType == ASSUME TypeOK, [Next]_vars PROVE TypeOK'
<1>1. ASSUME NEW s \in Sweeps, Begin(s) \/ SweepStep(s), UNCHANGED fixed PROVE TypeOK'
  BY <1>1, SweepType
<1>2. ASSUME NEW i \in Items, Site(i), UNCHANGED fixed PROVE TypeOK'
  BY <1>2 DEF Site, Publish, Withdraw, TypeOK, Busy, fixed, sweepVars
<1>3. ASSUME NEW source, SeenExpire(source), UNCHANGED fixed PROVE TypeOK'
  BY <1>3 DEF SeenExpire, TypeOK, Busy, fixed, sweepVars
<1>4. ASSUME NEW w \in Workers, Crash(w), UNCHANGED fixed PROVE TypeOK'
  <2>1. 1 \in 1..Len(Order)
    BY OrderLength
  <2>2. /\ localSeen' \in [Workers -> SUBSET Items] /\ next' \in [Sweeps -> 1..Len(Order)]
        /\ pc' \in [Sweeps -> {"idle", "collect", "filter", "mark", "record"}]
        /\ items' \in [Sweeps -> SUBSET Items] /\ new' \in [Sweeps -> SUBSET Items]
    BY <1>4, <2>1 DEF Crash, TypeOK
  <2>3. \A s \in Sweeps : (~Busy(s)' => items'[s] = {}) /\ new'[s] \subseteq items'[s]
    BY <1>4 DEF Crash, TypeOK, Busy
  <2> QED BY <1>4, <2>2, <2>3 DEF Crash, TypeOK, fixed
<1>5. CASE UNCHANGED vars
  BY <1>5 DEF vars, TypeOK, Busy
<1> QED BY <1>1, <1>2, <1>3, <1>4, <1>5 DEF Next

-----------------------------------------------------------------------------
(* At most once *)

(* Steps that move no sweep to or from its calls leave the counts alone. *)
LEMMA RestOnce ==
  ASSUME Steady, OnceInv, UNCHANGED fixed, UNCHANGED <<seen, localSeen, emitted, new>>,
         \A x \in Sweeps : Busy(x)' => pc'[x] = pc[x]
  PROVE  OnceInv'
BY DEF OnceInv, OneBusy, Memory, Busy, fixed

(* One sweep's step, with the others of its process waiting. *)
LEMMA SweepOnce ==
  ASSUME TypeOK, Steady, OnceInv, UNCHANGED fixed, NEW s \in Sweeps, Begin(s) \/ SweepStep(s)
  PROVE  OnceInv'
<1>0. /\ faults' = faults /\ home' = home
      /\ \A x, y \in Sweeps : home[x] = home[y] /\ Memory(x) = Memory(y)
      /\ "redis" \notin faults /\ ("away" \notin faults => FALSE \notin Answers)
      /\ ("away" \in faults => TRUE \notin Answers)
  BY AnswersCases DEF fixed, Steady, OneProcess, Memory
<1>1. CASE Begin(s)
  BY <1>1, RestOnce DEF Begin, Busy, TypeOK
<1>2. CASE Collect(s)
  <2>1. \A x \in Sweeps : ~Busy(x)
    BY <1>0, <1>2 DEF Collect, Alone
  <2>2. /\ UNCHANGED <<seen, localSeen, emitted, new>> /\ pc'[s] = "filter"
        /\ \A x \in Sweeps \ {s} : pc'[x] = pc[x]
    BY <1>2 DEF Collect, TypeOK
  <2> QED BY <1>0, <2>1, <2>2 DEF OnceInv, OneBusy, Memory, Busy
<1>3. CASE CollectError(s)
  <2>1. /\ UNCHANGED <<seen, localSeen, emitted, new>> /\ Advance(s)
    BY <1>3 DEF CollectError
  <2>2. \A x \in Sweeps : Busy(x)' => pc'[x] = pc[x]
    BY <2>1, AdvanceEffect DEF Busy
  <2> QED BY <2>1, <2>2, RestOnce
<1>4. CASE Filter(s)
  <2>1. /\ UNCHANGED <<seen, localSeen, emitted>> /\ pc[s] = "filter" /\ pc'[s] = "mark"
        /\ \A x \in Sweeps \ {s} : pc'[x] = pc[x]
    BY <1>4 DEF Filter, TypeOK
  <2>2. \A x \in Sweeps \ {s} : ~Busy(x)
    BY <2>1 DEF OnceInv, OneBusy, Busy
  <2>3. new'[s] \cap Memory(s) = {}
    <3>1. CASE "away" \in faults
      <4>1. new' = [new EXCEPT ![s] = items[s] \ localSeen[home[s]]]
        BY <1>0, <1>4, <3>1, FilterEffect
      <4> QED BY <3>1, <4>1 DEF Memory, TypeOK
    <3>2. CASE "away" \notin faults
      <4>1. new' = [new EXCEPT ![s] = items[s] \ seen]
        BY <1>0, <1>4, <3>2, FilterEffect
      <4> QED BY <3>2, <4>1 DEF Memory, TypeOK
    <3> QED BY <3>1, <3>2
  <2> QED BY <1>0, <2>1, <2>2, <2>3 DEF OnceInv, OneBusy, Memory, Busy
<1>5. CASE Mark(s)
  <2>1. /\ emitted' = emitted /\ new' = new /\ pc[s] = "mark" /\ pc'[s] = "record"
        /\ \A x \in Sweeps \ {s} : pc'[x] = pc[x]
    BY <1>5 DEF Mark, TypeOK
  <2>2. \A x \in Sweeps \ {s} : ~Busy(x)
    BY <2>1 DEF OnceInv, OneBusy, Busy
  <2>3. \A x \in Sweeps : Memory(x)' = Memory(x) \cup items[s]
    <3>1. CASE "away" \in faults
      <4>1. localSeen' = [localSeen EXCEPT ![home[s]] = localSeen[home[s]] \cup items[s]]
        BY <1>0, <1>5, <3>1 DEF Mark
      <4>2. home[s] \in Workers
        BY SettingsAssumption DEF TypeOK
      <4> QED BY <1>0, <3>1, <4>1, <4>2 DEF Memory, TypeOK
    <3>2. CASE "away" \notin faults
      <4>1. seen' = seen \cup items[s]
        BY <1>0, <1>5, <3>2 DEF Mark
      <4> QED BY <1>0, <3>2, <4>1 DEF Memory
    <3> QED BY <3>1, <3>2
  <2>4. new[s] \subseteq items[s] /\ new[s] \subseteq Items /\ new[s] \cap Memory(s) = {}
    BY <2>1 DEF OnceInv, TypeOK
  <2>5. \A i \in new[s] : emitted[i] = 0
    BY <2>4 DEF OnceInv, TypeOK
  <2> QED BY <2>1, <2>2, <2>3, <2>4, <2>5 DEF OnceInv, OneBusy, Busy
<1>6. CASE Record(s)
  <2>1. /\ UNCHANGED <<seen, localSeen>> /\ pc[s] = "record" /\ Push(new[s]) /\ Advance(s)
        /\ \A x \in Sweeps \ {s} : new'[x] = new[x]
    BY <1>0, <1>6 DEF Record, Forget, TypeOK
  <2>2. /\ pc'[s] \in {"idle", "collect"} /\ \A x \in Sweeps \ {s} : pc'[x] = pc[x] /\ ~Busy(x)
    BY <2>1, AdvanceEffect DEF OnceInv, OneBusy, Busy
  <2>3. /\ \A i \in new[s] : emitted[i] = 0 /\ i \in Memory(s) /\ new[s] \subseteq Items
    BY <2>1 DEF OnceInv, TypeOK
  <2>4. \A i \in Items : emitted'[i] <= 1 /\ (emitted'[i] > 0 => i \in Memory(s))
    BY <2>1, <2>3, PushEffect DEF OnceInv, TypeOK
  <2>5. \A x \in Sweeps : Memory(x)' = Memory(s)
    BY <1>0, <2>1 DEF Memory
  <2> QED BY <2>2, <2>4, <2>5 DEF OnceInv, OneBusy, Busy
<1> QED BY <1>1, <1>2, <1>3, <1>4, <1>5, <1>6 DEF SweepStep

(* A crash forgets the process's hands, but no seen set that was asked. *)
LEMMA StepOnce == ASSUME TypeOK, Steady => OnceInv, [Next]_vars PROVE Steady' => OnceInv'
<1> SUFFICES ASSUME Steady' PROVE OnceInv'
  OBVIOUS
<1>0. UNCHANGED fixed /\ Steady /\ OnceInv
  <2>1. UNCHANGED fixed
    BY DEF Next, vars, fixed
  <2> QED BY <2>1 DEF Steady, OneProcess, fixed
<1>1. ASSUME NEW s \in Sweeps, Begin(s) \/ SweepStep(s) PROVE OnceInv'
  BY <1>0, <1>1, SweepOnce
<1>2. ASSUME NEW i \in Items, Site(i) PROVE OnceInv'
  BY <1>0, <1>2, RestOnce DEF Site, Publish, Withdraw, sweepVars
<1>3. ASSUME NEW source, SeenExpire(source) PROVE OnceInv'
  BY <1>0, <1>3 DEF SeenExpire, Steady
<1>4. ASSUME NEW w \in Workers, Crash(w) PROVE OnceInv'
  <2>1. "away" \notin faults /\ faults' = faults /\ UNCHANGED <<seen, emitted>>
    BY <1>0, <1>4 DEF Crash, Steady, fixed
  <2>2. \A x \in Sweeps : (Busy(x)' => Busy(x) /\ pc'[x] = pc[x] /\ new'[x] = new[x])
    BY <1>4 DEF Crash, Busy
  <2>3. \A x \in Sweeps : pc'[x] \in {"mark", "record"} => Busy(x)'
    BY DEF Busy
  <2> QED BY <1>0, <2>1, <2>2, <2>3 DEF OnceInv, OneBusy, Memory
<1>5. CASE UNCHANGED vars
  BY <1>0, <1>5, RestOnce DEF vars
<1> QED BY <1>1, <1>2, <1>3, <1>4, <1>5 DEF Next

-----------------------------------------------------------------------------
(* Nothing swallowed *)

(* Steps that touch neither the feed nor what a sweep holds; the seen set    *)
(* may lose what expires.                                                    *)
LEMMA RestHands ==
  ASSUME HandsInv, UNCHANGED fixed, UNCHANGED <<emitted, items, new>>, seen' \subseteq seen,
         \A x \in Sweeps : pc'[x] = pc[x] \/ {pc[x], pc'[x]} \cap {"mark", "record"} = {}
  PROVE  HandsInv'
<1>1. \A i : Accounted(i)' <=> Accounted(i)
  BY DEF Accounted
<1> QED BY <1>1 DEF HandsInv, fixed

(* An item leaves a sweep's hands by the push. *)
LEMMA SweepHands ==
  ASSUME TypeOK, HandsInv, UNCHANGED fixed, NEW s \in Sweeps, Begin(s) \/ SweepStep(s)
  PROVE  HandsInv'
<1>0. faults' = faults
      /\ (faults \subseteq {"expiry"} => "redis" \notin faults /\ FALSE \notin Answers)
  BY AnswersCases DEF fixed
<1>1. CASE Begin(s)
  BY <1>1, RestHands DEF Begin, TypeOK
<1>2. CASE Collect(s)
  <2>1. /\ UNCHANGED <<emitted, new, seen>> /\ pc[s] = "collect" /\ pc'[s] = "filter"
        /\ \A x \in Sweeps \ {s} : pc'[x] = pc[x] /\ items'[x] = items[x]
    BY <1>2 DEF Collect, TypeOK
  <2>2. \A i : Accounted(i)' <=> Accounted(i)
    BY <2>1 DEF Accounted
  <2> QED BY <1>0, <2>1, <2>2 DEF HandsInv
<1>3. CASE CollectError(s)
  BY <1>3, RestHands, AdvanceEffect DEF CollectError
<1>4. CASE Filter(s)
  <2>1. /\ UNCHANGED <<emitted, items, seen>> /\ pc[s] = "filter" /\ pc'[s] = "mark"
        /\ \A x \in Sweeps \ {s} : pc'[x] = pc[x] /\ new'[x] = new[x]
    BY <1>4, FilterEffect DEF Filter, TypeOK
  <2>2. new[s] = {}
    BY <2>1 DEF HandsInv
  <2>3. \A i : Accounted(i) => Accounted(i)'
    BY <2>1, <2>2 DEF Accounted
  <2>4. ASSUME faults \subseteq {"expiry"} PROVE items[s] \ new'[s] \subseteq seen
    <3>1. new' = [new EXCEPT ![s] = items[s] \ seen]
      BY <1>0, <1>4, <2>4, FilterEffect
    <3> QED BY <3>1 DEF TypeOK
  <2> QED BY <1>0, <2>1, <2>3, <2>4 DEF HandsInv
<1>5. CASE Mark(s)
  <2>1. /\ UNCHANGED <<emitted, items, new>> /\ pc[s] = "mark" /\ pc'[s] = "record"
        /\ \A x \in Sweeps \ {s} : pc'[x] = pc[x]
    BY <1>5 DEF Mark, TypeOK
  <2>2. \A i : Accounted(i)' <=> Accounted(i)
    BY <2>1 DEF Accounted
  <2>3. ASSUME faults \subseteq {"expiry"} PROVE seen' = seen \cup items[s]
    BY <1>0, <1>5, <2>3 DEF Mark
  <2>4. \A i \in new[s] : Accounted(i)
    BY DEF Accounted
  <2> QED BY <1>0, <2>1, <2>2, <2>3, <2>4 DEF HandsInv
<1>6. CASE Record(s)
  <2>1. /\ UNCHANGED seen /\ pc[s] = "record" /\ Advance(s)
        /\ (Push(new[s]) \/ (emitted' = emitted /\ "redis" \in faults))
        /\ new'[s] = {} /\ \A x \in Sweeps \ {s} : new'[x] = new[x] /\ items'[x] = items[x]
    BY <1>6 DEF Record, Forget, TypeOK
  <2>2. pc'[s] \in {"idle", "collect"} /\ \A x \in Sweeps \ {s} : pc'[x] = pc[x]
    BY <2>1, AdvanceEffect
  <2>3. ASSUME faults \subseteq {"expiry"}, NEW i \in Items, Accounted(i) PROVE Accounted(i)'
    <3>1. IF i \in new[s] THEN emitted'[i] > 0 ELSE emitted'[i] = emitted[i]
      BY <1>0, <2>1, <2>3, PushEffect
    <3>2. CASE i \in new[s]
      BY <3>1, <3>2 DEF Accounted
    <3>3. CASE i \notin new[s]
      BY <2>1, <2>3, <3>1, <3>3 DEF Accounted
    <3> QED BY <3>2, <3>3
  <2> QED BY <1>0, <2>1, <2>2, <2>3 DEF HandsInv, TypeOK
<1> QED BY <1>1, <1>2, <1>3, <1>4, <1>5, <1>6 DEF SweepStep

(* The steps around the sweeps swallow nothing either. *)
LEMMA StepHands == ASSUME TypeOK, HandsInv, [Next]_vars PROVE HandsInv'
<1>0. UNCHANGED fixed
  BY DEF Next, vars, fixed
<1>1. ASSUME NEW s \in Sweeps, Begin(s) \/ SweepStep(s) PROVE HandsInv'
  BY <1>0, <1>1, SweepHands
<1>2. ASSUME NEW i \in Items, Site(i) PROVE HandsInv'
  BY <1>0, <1>2, RestHands DEF Site, Publish, Withdraw, sweepVars
<1>3. ASSUME NEW source, SeenExpire(source) PROVE HandsInv'
  BY <1>0, <1>3, RestHands DEF SeenExpire, sweepVars
<1>4. ASSUME NEW w \in Workers, Crash(w) PROVE HandsInv'
  <2>1. ~(faults' \subseteq {"expiry"})
    BY <1>0, <1>4 DEF Crash, fixed
  <2>2. \A s \in Sweeps : pc'[s] \notin {"mark", "record"} => new'[s] = {}
    BY <1>4 DEF Crash, HandsInv
  <2> QED BY <2>1, <2>2 DEF HandsInv
<1>5. CASE UNCHANGED vars
  BY <1>0, <1>5, RestHands DEF vars
<1> QED BY <1>1, <1>2, <1>3, <1>4, <1>5 DEF Next

-----------------------------------------------------------------------------
(* Theorems *)

(* At first nothing is listed, seen, held or pushed. *)
LEMMA SweepInit == Init => TypeOK /\ OnceInv /\ HandsInv
<1> SUFFICES ASSUME Init PROVE TypeOK /\ OnceInv /\ HandsInv
  OBVIOUS
<1> USE DEF Init, Busy
<1>1. TypeOK
  <2>1. [faults |-> faults, home |-> home, dead |-> dead] \in Settings
    <3>1. PICK setting \in Settings : faults = setting.faults /\ home = setting.home /\ dead = setting.dead
      OBVIOUS
    <3>2. setting = [faults |-> setting.faults, home |-> setting.home, dead |-> setting.dead]
      BY SettingsAssumption
    <3> QED BY <3>1, <3>2
  <2>2. 1 \in 1..Len(Order)
    BY OrderLength
  <2> QED BY <2>1, <2>2 DEF TypeOK
<1>2. OnceInv
  BY DEF OnceInv, OneBusy
<1>3. HandsInv
  BY DEF HandsInv
<1> QED BY <1>1, <1>2, <1>3

(* The state is of its shape; a sweep holds items between two awaits only. *)
THEOREM SweepTypeCorrect == Spec => []TypeOK
BY SweepInit, StepType, PTL DEF Spec

(* Overlapping sweeps of one process push no item twice, wherever they die  *)
(* while Redis answers, and in the fallback while the process lives.        *)
THEOREM PushedAtMostOnce == Spec => []AtMostOnce
<1>1. TypeOK /\ (Steady => OnceInv) /\ [Next]_vars => (Steady => OnceInv)'
  BY StepOnce
<1>2. (Steady => OnceInv) => AtMostOnce
  BY DEF Steady, OnceInv, AtMostOnce
<1> QED BY <1>1, <1>2, SweepInit, SweepTypeCorrect, PTL DEF Spec

(* No interleaving of sweeps, in one process or several, and no expiry of a *)
(* seen set marks an item that nobody pushes.                               *)
THEOREM NothingIsSwallowed == Spec => []NothingSwallowed
<1>1. TypeOK /\ HandsInv /\ [Next]_vars => HandsInv'
  BY StepHands
<1>2. HandsInv => NothingSwallowed
  BY DEF HandsInv, Accounted, NothingSwallowed
<1> QED BY <1>1, <1>2, SweepInit, SweepTypeCorrect, PTL DEF Spec

=============================================================================
