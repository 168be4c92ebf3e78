------------------------- MODULE StatusStreamProofs -------------------------
(***************************************************************************)
(* Proofs about StatusStream, for any tasks, streams, cache size, TTL and  *)
(* intervals: the cache keeps its size, what it serves is never staler     *)
(* than a TTL, and no reader is taken back to an older version.            *)
(***************************************************************************)
EXTENDS StatusStream, FiniteSetTheorems, TLAPS

(* The cache is bounded, and stays a finite set. *)
RoomInv == IsFiniteSet(Cached) /\ Cardinality(Cached) <= MaxEntries

(* An entry that will live for another n ticks is at most CacheTtl - n behind. *)
LagInv ==
  /\ \A t \in Watched : LiveEntry(t) => behind[t] + taskCache[t].left <= CacheTtl
  /\ \A t \in Watched : shown[t].lag < CacheTtl

(* What was shown last is no newer than an entry that lives. *)
ForwardInv == \A t \in Watched : LiveEntry(t) => shown[t].version <= taskCache[t].version

(* While nothing goes wrong the tiers that have a record have the latest.   *)
SteadyInv ==
  troubles = {} =>
    /\ ~away
    /\ \A t \in Watched :
         /\ record[t] # Gone => record[t].version = latest[t]
         /\ durable[t] # Gone => durable[t].version = latest[t]
         /\ shown[t].version <= latest[t]
         /\ taskCache[t].left >= 0 => taskCache[t].version <= latest[t]

-----------------------------------------------------------------------------
(* The cache *)

(* The numbers among the constants. *)
LEMMA StreamNumbers ==
  /\ MaxEntries \in Nat /\ MaxEntries > 0 /\ CacheTtl \in Nat /\ CacheTtl > 0
  /\ PollInterval \in Nat /\ PollInterval > 0 /\ MaxDuration \in Nat /\ MaxDuration > 0
  /\ MaxVersion \in Nat /\ MaxVersion > 1
BY StreamAssumption

(* set stores one entry, and keeps or drops each other one. *)
LEMMA CacheSetEffect ==
  ASSUME NEW t \in Watched, NEW rec, CacheSet(t, rec)
  PROVE  /\ taskCache' = [k \in Watched |-> taskCache'[k]]
         /\ taskCache'[t] = [version |-> rec.version, status |-> rec.status, left |-> CacheTtl]
         /\ \A k \in Watched \ {t} : taskCache'[k] = taskCache[k] \/ taskCache'[k] = Uncached
BY DEF CacheSet

(* What _sweep keeps leaves room for one more entry. *)
LEMMA SweepMakesRoom ==
  ASSUME RoomInv, NEW keep \in Kept
  PROVE  IsFiniteSet(keep) /\ Cardinality(keep) <= MaxEntries - 1
<1> DEFINE live == {k \in Cached : LiveEntry(k)}
           overflow == Cardinality(live) - MaxEntries + 1
<1> USE StreamNumbers
<1>1. IsFiniteSet(live) /\ Cardinality(live) \in Nat
  BY FS_Subset, FS_CardinalityType DEF RoomInv
<1>2. CASE overflow <= 0
  <2>1. keep = live
    BY <1>2 DEF Kept
  <2> HIDE DEF live
  <2> QED BY <1>1, <1>2, <2>1
<1>3. CASE ~(overflow <= 0)
  <2>1. PICK oldest \in kSubset(overflow, live) : keep = live \ oldest
    BY <1>3 DEF Kept
  <2>2. oldest \subseteq live /\ Cardinality(oldest) = overflow
    BY <2>1 DEF kSubset
  <2> HIDE DEF live
  <2>3. IsFiniteSet(keep) /\ Cardinality(live \cap oldest) = overflow
    <3>1. live \cap oldest = oldest
      BY <2>2
    <3> QED BY <1>1, <2>1, <2>2, <3>1, FS_Difference
  <2>4. Cardinality(keep) = Cardinality(live) - overflow
    BY <1>1, <2>1, <2>3, FS_Difference
  <2> QED BY <1>1, <2>3, <2>4
<1> QED BY <1>2, <1>3

(* However full the cache was, it is bounded after an entry was added. *)
LEMMA CacheSetRoom ==
  ASSUME RoomInv, NEW t \in Watched, NEW rec, CacheSet(t, rec)
  PROVE  RoomInv'
<1> USE StreamNumbers
<1> DEFINE others == Cached \ {t}
<1>0. IsFiniteSet(others) /\ Cardinality(others) \in Nat
  BY FS_Subset, FS_CardinalityType DEF RoomInv
<1>1. PICK keep \in IF Cardinality(others) >= MaxEntries THEN Kept ELSE {Cached} :
        taskCache' = [k \in Watched |->
                        IF k = t THEN [version |-> rec.version, status |-> rec.status, left |-> CacheTtl]
                        ELSE IF k \in keep THEN taskCache[k] ELSE Uncached]
  BY DEF CacheSet
<1>2. IsFiniteSet(keep \ {t}) /\ Cardinality(keep \ {t}) \in Nat
                              /\ Cardinality(keep \ {t}) <= MaxEntries - 1
  <2>1. CASE Cardinality(others) >= MaxEntries
    <3>1. IsFiniteSet(keep) /\ Cardinality(keep) <= MaxEntries - 1
      BY <1>1, <2>1, SweepMakesRoom
    <3>2. /\ IsFiniteSet(keep \ {t}) /\ Cardinality(keep \ {t}) <= Cardinality(keep)
      <4>1. keep \ {t} \subseteq keep
        OBVIOUS
      <4> QED BY <3>1, <4>1, FS_Subset
    <3>3. Cardinality(keep) \in Nat /\ Cardinality(keep \ {t}) \in Nat
      BY <3>1, <3>2, FS_CardinalityType
    <3> QED BY <3>1, <3>2, <3>3
  <2>2. CASE ~(Cardinality(others) >= MaxEntries)
    <3>1. keep \ {t} = others
      BY <1>1, <2>2
    <3> HIDE DEF others
    <3> QED BY <1>0, <2>2, <3>1
  <2> QED BY <2>1, <2>2
<1>3. Cached' \subseteq (keep \ {t}) \cup {t}
  <2>1. ASSUME NEW k \in Watched, k # t, k \notin keep PROVE ~(taskCache'[k].left >= 0)
    BY <1>1, <2>1 DEF Uncached
  <2> QED BY <2>1 DEF Cached
<1>4. /\ IsFiniteSet((keep \ {t}) \cup {t})
      /\ Cardinality((keep \ {t}) \cup {t}) = Cardinality(keep \ {t}) + 1
  BY <1>2, FS_AddElement
<1>5. IsFiniteSet(Cached') /\ Cardinality(Cached') <= Cardinality((keep \ {t}) \cup {t})
  BY <1>3, <1>4, FS_Subset
<1>6. Cardinality(Cached') \in Nat
  BY <1>5, FS_CardinalityType
<1> QED BY <1>2, <1>4, <1>5, <1>6 DEF RoomInv

(* When entries only leave the cache, it stays bounded. *)
LEMMA FewerCached == ASSUME RoomInv, Cached' \subseteq Cached PROVE RoomInv'
<1>1. IsFiniteSet(Cached') /\ Cardinality(Cached') <= Cardinality(Cached)
  BY FS_Subset DEF RoomInv
<1>2. Cardinality(Cached') \in Nat /\ Cardinality(Cached) \in Nat
  BY <1>1, FS_CardinalityType DEF RoomInv
<1> QED BY <1>1, <1>2, StreamNumbers DEF RoomInv

-----------------------------------------------------------------------------
(* A read, by what it meets *)

(* a live entry *)
Hit(t) ==
  /\ LiveEntry(t) /\ taskCache' = taskCache /\ behind' = behind
  /\ shown' = shown \/ shown' = [shown EXCEPT ![t] = [version |-> taskCache[t].version, lag |-> behind[t]]]

(* no live entry, and a record *)
Found(t) ==
  /\ ~LiveEntry(t) /\ Stored(t) # Gone /\ CacheSet(t, Stored(t))
  /\ behind' = [behind EXCEPT ![t] = 0]
  /\ shown' = [shown EXCEPT ![t] = [version |-> Stored(t).version, lag |-> 0]]

(* neither *)
Missing(t) ==
  /\ taskCache' = [taskCache EXCEPT ![t] = Uncached]
  /\ behind' = [behind EXCEPT ![t] = 0] /\ shown' = shown

(* A read is one of the three. *)
LEMMA ReadCases ==
  ASSUME StreamTypeOK, NEW t \in Watched, ReadThrough(t) PROVE Hit(t) \/ Found(t) \/ Missing(t)
<1>1. CASE LiveEntry(t)
  <2>1. taskCache' = taskCache /\ behind' = [behind EXCEPT ![t] = behind[t]]
    BY <1>1 DEF ReadThrough
  <2>2. behind' = behind
    BY <2>1 DEF StreamTypeOK
  <2>3. Read(t).version = taskCache[t].version
    BY <1>1 DEF Read, Entry
  <2>4. shown' = shown \/ shown' = [shown EXCEPT ![t] = [version |-> Read(t).version, lag |-> behind[t]]]
    BY <1>1 DEF ReadThrough
  <2> QED BY <1>1, <2>1, <2>2, <2>3, <2>4 DEF Hit
<1>2. CASE ~LiveEntry(t) /\ Stored(t) # Gone
  BY <1>2 DEF ReadThrough, Read, Found
<1>3. CASE ~LiveEntry(t) /\ Stored(t) = Gone
  BY <1>3 DEF ReadThrough, Read, Missing
<1> QED BY <1>1, <1>2, <1>3

(* The shape of a cache entry, of what was shown and of a stream. *)
Entries == [version : 0..MaxVersion, status : Statuses \cup {"gone"}, left : -1..CacheTtl]
Shown == [version : 0..MaxVersion, lag : 0..CacheTtl]
OpenStreams == [task : Watched, left : 0..MaxDuration, sleep : 0..PollInterval,
                state : {"open", "timeout", "error", "completed", "failed"}]

(* What the store answers is a record or Gone. *)
LEMMA StoredType == ASSUME StreamTypeOK, NEW t \in Watched PROVE Stored(t) \in StreamRecords
BY DEF StreamTypeOK, Stored

(* A read keeps every entry, and everything shown, of its shape. *)
LEMMA ReadType ==
  ASSUME StreamTypeOK, NEW t \in Watched, ReadThrough(t)
  PROVE  /\ taskCache' \in [Watched -> Entries]
         /\ behind' \in [Watched -> 0..CacheTtl] /\ shown' \in [Watched -> Shown]
<1> USE StreamNumbers
<1>0. /\ taskCache \in [Watched -> Entries] /\ behind \in [Watched -> 0..CacheTtl]
      /\ shown \in [Watched -> Shown]
      /\ Stored(t) \in [version : 0..MaxVersion, status : Statuses \cup {"gone"}]
  BY StoredType DEF StreamTypeOK, StreamRecords, Entries, Shown
<1>1. Uncached \in Entries
  BY DEF Uncached, Entries
<1>2. CASE Hit(t)
  <2>1. [version |-> taskCache[t].version, lag |-> behind[t]] \in Shown
    BY <1>0 DEF Entries, Shown
  <2>2. shown' \in [Watched -> Shown]
    <3>1. CASE shown' = shown
      BY <1>0, <3>1
    <3>2. CASE shown' = [shown EXCEPT ![t] = [version |-> taskCache[t].version, lag |-> behind[t]]]
      BY <1>0, <2>1, <3>2
    <3> QED BY <1>2, <3>1, <3>2 DEF Hit
  <2>3. taskCache' = taskCache /\ behind' = behind
    BY <1>2 DEF Hit
  <2> QED BY <1>0, <2>2, <2>3
<1>3. CASE Found(t)
  <2>1. [version |-> Stored(t).version, status |-> Stored(t).status, left |-> CacheTtl] \in Entries
    BY <1>0 DEF Entries
  <2>2. taskCache' \in [Watched -> Entries]
    <3>1. \A k \in Watched : taskCache'[k] \in Entries
      BY <1>0, <1>1, <1>3, <2>1, CacheSetEffect DEF Found
    <3> QED BY <1>3, <3>1, CacheSetEffect DEF Found
  <2>3. [version |-> Stored(t).version, lag |-> 0] \in Shown
    BY <1>0 DEF Shown
  <2>4. behind' \in [Watched -> 0..CacheTtl]
    BY <1>0, <1>3 DEF Found
  <2>5. shown' \in [Watched -> Shown]
    BY <1>0, <1>3, <2>3 DEF Found
  <2> QED BY <2>2, <2>4, <2>5
<1>4. CASE Missing(t)
  BY <1>0, <1>1, <1>4 DEF Missing
<1> QED BY <1>2, <1>3, <1>4, ReadCases

-----------------------------------------------------------------------------
(* Steps *)

(* The steps of the next-state relation, by what they do to the readers' state. *)
Reads == \E t \in Watched : ReadThrough(t) /\ UNCHANGED <<tiers, away>>
Writes(t) == \E status \in Statuses, lands \in BOOLEAN : Write(t, status, lands)

(* Only reads, the record's writers and the clock touch what readers see. *)
LEMMA StepKinds ==
  ASSUME StreamTypeOK, [StreamNext]_streamVars
  PROVE  \/ Reads
         \/ \E t \in Watched : Forget(t) \/ Writes(t)
         \/ Tick
         \/ UNCHANGED <<tiers, taskCache, behind, shown>> /\ (troubles = {} => away' = away)
<1>1. ASSUME NEW s \in Streams, StreamRead(s) PROVE Reads
  <2>1. stream[s].task \in Watched
    BY DEF StreamTypeOK
  <2> QED BY <1>1, <2>1 DEF StreamRead, Reads
<1>2. ASSUME NEW s \in Streams, StreamTimeout(s) 
      PROVE  UNCHANGED <<tiers, taskCache, behind, shown>> /\ away' = away
  BY <1>2 DEF StreamTimeout
<1>3. ASSUME NEW t \in Watched, Poll(t) PROVE Reads
  BY <1>3 DEF Poll, Reads
<1>4. CASE Outage
  BY <1>4 DEF Outage
<1>5. CASE UNCHANGED streamVars
  BY <1>5 DEF streamVars, tiers
<1> QED BY <1>1, <1>2, <1>3, <1>4, <1>5 DEF StreamNext, StreamStep, Writes

(* The environment stays what it is. *)
LEMMA SameTroubles == ASSUME [StreamNext]_streamVars PROVE troubles' = troubles
BY DEF StreamNext, StreamStep, StreamRead, StreamTimeout, Poll, Forget, Write, Outage, Tick, streamVars

(* Every step keeps the shapes and the bounds. *)
LEMMA StreamStepType == ASSUME StreamTypeOK, [StreamNext]_streamVars PROVE StreamTypeOK'
<1> USE StreamNumbers
<1>1. ASSUME NEW t \in Watched, ReadThrough(t), UNCHANGED <<troubles, tiers, away>>,
             stream' \in [Streams -> OpenStreams]
      PROVE  StreamTypeOK'
  BY <1>1, ReadType DEF tiers, StreamTypeOK, Entries, Shown, OpenStreams
<1>2. ASSUME NEW t \in Watched, Poll(t) PROVE StreamTypeOK'
  BY <1>1, <1>2 DEF Poll, StreamTypeOK, OpenStreams
<1>3. ASSUME NEW s \in Streams, StreamRead(s) PROVE StreamTypeOK'
  <2>1. stream[s].task \in Watched
    BY DEF StreamTypeOK
  <2>2. stream' \in [Streams -> OpenStreams]
    <3> DEFINE rec == Read(stream[s].task)
    <3>1. \/ Ends(s, "error")
          \/ rec.status \in {"completed", "failed"} /\ Ends(s, rec.status)
          \/ stream' = [stream EXCEPT ![s].sleep = PollInterval]
      BY <1>3 DEF StreamRead
    <3>2. ASSUME NEW how \in {"timeout", "error", "completed", "failed"}, Ends(s, how)
          PROVE  stream' \in [Streams -> OpenStreams]
      BY <3>2 DEF Ends, StreamTypeOK, OpenStreams
    <3>3. CASE stream' = [stream EXCEPT ![s].sleep = PollInterval]
      <4>1. stream \in [Streams -> OpenStreams]
        BY DEF StreamTypeOK, OpenStreams
      <4>2. [stream[s] EXCEPT !.sleep = PollInterval] \in OpenStreams
        BY <4>1 DEF OpenStreams
      <4> QED BY <3>3, <4>1, <4>2
    <3> HIDE DEF rec
    <3> QED BY <3>1, <3>2, <3>3
  <2> QED BY <1>1, <1>3, <2>1, <2>2 DEF StreamRead
<1>4. ASSUME NEW s \in Streams, StreamTimeout(s) PROVE StreamTypeOK'
  BY <1>4 DEF tiers, StreamTimeout, Ends, StreamTypeOK
<1>5. ASSUME NEW t \in Watched, Forget(t) PROVE StreamTypeOK'
  BY <1>5 DEF Forget, Gone, StreamRecords, StreamTypeOK
<1>6. ASSUME NEW t \in Watched, NEW status \in Statuses, NEW lands \in BOOLEAN,
             Write(t, status, lands)
      PROVE  StreamTypeOK'
  <2>1. latest[t] + 1 \in 0..MaxVersion
    BY <1>6 DEF Write, StreamTypeOK
  <2>2. [version |-> latest[t] + 1, status |-> status] \in StreamRecords
    BY <2>1 DEF StreamRecords
  <2>3. record' \in [Watched -> StreamRecords] /\ durable' \in [Watched -> StreamRecords]
    BY <1>6, <2>2 DEF Write, StreamTypeOK
  <2>4. latest' \in [Watched -> 0..MaxVersion]
    BY <1>6, <2>1 DEF Write, StreamTypeOK
  <2> QED BY <1>6, <2>3, <2>4 DEF Write, StreamTypeOK
<1>7. CASE Outage
  BY <1>7 DEF tiers, Outage, StreamTypeOK
<1>8. CASE Tick
  <2>1. taskCache' \in [Watched -> Entries]
    <3>1. taskCache \in [Watched -> Entries]
      BY DEF StreamTypeOK, Entries
    <3>2. ASSUME NEW e \in Entries PROVE [e EXCEPT !.left = Less(@)] \in Entries
      BY DEF Entries, Less
    <3> QED BY <1>8, <3>1, <3>2 DEF Tick
  <2>2. stream' \in [Streams -> OpenStreams]
    <3>1. stream \in [Streams -> OpenStreams]
      BY DEF StreamTypeOK, OpenStreams
    <3>2. ASSUME NEW e \in OpenStreams
          PROVE  [e EXCEPT !.left = Less(@), !.sleep = Less(@)] \in OpenStreams
      <4>1. Less(e.left) \in 0..MaxDuration /\ Less(e.sleep) \in 0..PollInterval
        BY DEF OpenStreams, Less
      <4> QED BY <4>1 DEF OpenStreams
    <3> QED BY <1>8, <3>1, <3>2 DEF Tick
  <2>3. behind' \in [Watched -> 0..CacheTtl]
    <3>1. ASSUME NEW t \in Watched PROVE behind'[t] = behind[t] \/ (behind'[t] = behind[t] + 1 /\ behind[t] < CacheTtl)
      BY <1>8 DEF Tick
    <3>2. \A t \in Watched : behind[t] \in 0..CacheTtl
      BY DEF StreamTypeOK
    <3>3. \A t \in Watched : behind'[t] \in 0..CacheTtl
      BY <3>1, <3>2
    <3>4. behind' = [t \in Watched |-> behind'[t]]
      BY <1>8 DEF Tick
    <3> QED BY <3>3, <3>4
  <2> QED BY <1>8, <2>1, <2>2, <2>3 DEF tiers, Tick, StreamTypeOK, Entries, OpenStreams
<1>9. CASE UNCHANGED streamVars
  BY <1>9 DEF streamVars, StreamTypeOK
<1> QED
  BY <1>2, <1>3, <1>4, <1>5, <1>6, <1>7, <1>8, <1>9 DEF StreamNext, StreamStep

(* The values the shapes allow, task by task. *)
LEMMA TaskTypes ==
  ASSUME StreamTypeOK
  PROVE  /\ DOMAIN taskCache = Watched /\ DOMAIN behind = Watched /\ DOMAIN shown = Watched
         /\ \A t \in Watched :
              /\ record[t].version \in Nat /\ durable[t].version \in Nat /\ latest[t] \in Nat
              /\ Stored(t).version \in Nat /\ taskCache[t].version \in Nat
              /\ taskCache[t].left \in Int /\ taskCache[t].left >= -1
              /\ behind[t] \in Nat /\ shown[t].version \in Nat /\ shown[t].lag \in Nat
BY StreamNumbers, StoredType DEF StreamTypeOK, StreamRecords

(* What each kind of read leaves behind, task by task. *)
LEMMA HitEffect ==
  ASSUME StreamTypeOK, NEW t \in Watched, Hit(t)
  PROVE  /\ taskCache[t].left > 0 /\ taskCache' = taskCache /\ behind' = behind
         /\ shown'[t] = shown[t] \/ (shown'[t].version = taskCache[t].version /\ shown'[t].lag = behind[t])
         /\ \A k \in Watched \ {t} : shown'[k] = shown[k]
BY TaskTypes DEF Hit, LiveEntry

(* A read of the store replaces the entry of its task, and may evict others. *)
LEMMA FoundEffect ==
  ASSUME StreamTypeOK, NEW t \in Watched, Found(t)
  PROVE  /\ ~LiveEntry(t) /\ Stored(t) # Gone
         /\ taskCache'[t].version = Stored(t).version /\ taskCache'[t].left = CacheTtl
         /\ behind'[t] = 0 /\ shown'[t].version = Stored(t).version /\ shown'[t].lag = 0
         /\ \A k \in Watched \ {t} :
              /\ taskCache'[k] = taskCache[k] \/ taskCache'[k].left = -1
              /\ behind'[k] = behind[k] /\ shown'[k] = shown[k]
<1>1. /\ taskCache'[t] = [version |-> Stored(t).version, status |-> Stored(t).status, left |-> CacheTtl]
      /\ \A k \in Watched \ {t} : taskCache'[k] = taskCache[k] \/ taskCache'[k] = Uncached
  BY CacheSetEffect DEF Found
<1>2. /\ behind'[t] = 0 /\ shown'[t] = [version |-> Stored(t).version, lag |-> 0]
      /\ \A k \in Watched \ {t} : behind'[k] = behind[k] /\ shown'[k] = shown[k]
  BY TaskTypes DEF Found
<1>3. Uncached.left = -1
  BY DEF Uncached
<1> QED BY <1>1, <1>2, <1>3 DEF Found

(* A read that finds nothing leaves no entry. *)
LEMMA MissingEffect ==
  ASSUME StreamTypeOK, NEW t \in Watched, Missing(t)
  PROVE  /\ taskCache'[t].left = -1 /\ behind'[t] = 0 /\ shown' = shown
         /\ \A k \in Watched \ {t} : taskCache'[k] = taskCache[k] /\ behind'[k] = behind[k]
BY TaskTypes DEF Missing, Uncached

(* A tick ages the entries and changes none. *)
LEMMA TickEffect ==
  ASSUME StreamTypeOK, Tick
  PROVE  /\ UNCHANGED <<tiers, away>> /\ shown' = shown
         /\ \A t \in Watched :
              /\ taskCache'[t].version = taskCache[t].version
              /\ taskCache'[t].left = Less(taskCache[t].left)
              /\ behind'[t] = behind[t] \/ behind'[t] = behind[t] + 1
<1>1. ASSUME NEW t \in Watched
      PROVE  /\ taskCache'[t].version = taskCache[t].version
             /\ taskCache'[t].left = Less(taskCache[t].left)
  <2>1. taskCache'[t] = [taskCache[t] EXCEPT !.left = Less(@)]
    BY DEF Tick
  <2>2. taskCache[t] \in Entries
    BY DEF StreamTypeOK, Entries
  <2> QED BY <2>1, <2>2 DEF Entries
<1>2. ASSUME NEW t \in Watched PROVE behind'[t] = behind[t] \/ behind'[t] = behind[t] + 1
  BY DEF Tick
<1> QED BY <1>1, <1>2 DEF Tick

(* The cache keeps its size. *)
LEMMA StepRoom == ASSUME StreamTypeOK, RoomInv, [StreamNext]_streamVars PROVE RoomInv'
<1>1. ASSUME NEW t \in Watched, ReadThrough(t) PROVE RoomInv'
  <2>1. CASE Hit(t)
    BY <2>1, FewerCached DEF Hit, Cached
  <2>2. CASE Found(t)
    BY <2>2, CacheSetRoom DEF Found
  <2>3. CASE Missing(t)
    <3>1. Cached' \subseteq Cached
      BY <2>3, MissingEffect DEF Cached
    <3> QED BY <3>1, FewerCached
  <2> QED BY <1>1, <2>1, <2>2, <2>3, ReadCases
<1>2. CASE Tick
  <2>1. Cached' \subseteq Cached
    BY <1>2, TickEffect, TaskTypes DEF Less, Cached
  <2> QED BY <2>1, FewerCached
<1>3. CASE UNCHANGED taskCache
  BY <1>3, FewerCached DEF Cached
<1> QED
  BY <1>1, <1>2, <1>3, StepKinds DEF Reads, Writes, Forget, Write

(* Every tick an entry gains on its record, it loses of its time. *)
LEMMA StepLag == ASSUME StreamTypeOK, LagInv, [StreamNext]_streamVars PROVE LagInv'
<1> USE StreamNumbers, TaskTypes DEF LiveEntry, LagInv
<1>1. ASSUME NEW t \in Watched, ReadThrough(t) PROVE LagInv'
  <2>1. CASE Hit(t)
    BY <2>1, HitEffect
  <2>2. CASE Found(t)
    BY <2>2, FoundEffect
  <2>3. CASE Missing(t)
    BY <2>3, MissingEffect
  <2> QED BY <1>1, <2>1, <2>2, <2>3, ReadCases
<1>2. CASE Tick
  BY <1>2, TickEffect DEF Less
<1>3. CASE UNCHANGED <<taskCache, behind, shown>>
  BY <1>3
<1> QED
  BY <1>1, <1>2, <1>3, StepKinds DEF Reads, Writes, Forget, Write

(* A read shows what is in the entry it leaves. *)
LEMMA StepForward == ASSUME StreamTypeOK, ForwardInv, [StreamNext]_streamVars PROVE ForwardInv'
<1> USE StreamNumbers, TaskTypes DEF LiveEntry, ForwardInv
<1>1. ASSUME NEW t \in Watched, ReadThrough(t) PROVE ForwardInv'
  <2>1. CASE Hit(t)
    BY <2>1, HitEffect
  <2>2. CASE Found(t)
    BY <2>2, FoundEffect
  <2>3. CASE Missing(t)
    BY <2>3, MissingEffect
  <2> QED BY <1>1, <2>1, <2>2, <2>3, ReadCases
<1>2. CASE Tick
  BY <1>2, TickEffect DEF Less
<1>3. CASE UNCHANGED <<taskCache, shown>>
  BY <1>3
<1> QED
  BY <1>1, <1>2, <1>3, StepKinds DEF Reads, Writes, Forget, Write

(* In quiet times the store answers with the latest record. *)
LEMMA StoredIsLatest ==
  ASSUME SteadyInv, troubles = {}, NEW t \in Watched, Stored(t) # Gone
  PROVE  Stored(t).version = latest[t]
BY DEF SteadyInv, Stored

(* Nothing that is shown or cached is ahead of the latest record. *)
LEMMA StepSteady ==
  ASSUME StreamTypeOK, SteadyInv, [StreamNext]_streamVars PROVE SteadyInv'
<1> USE StreamNumbers, TaskTypes
<1> SUFFICES ASSUME troubles = {}, troubles' = {} PROVE SteadyInv'
  BY SameTroubles DEF SteadyInv
<1> DEFINE Ordered ==
      \A t \in Watched :
         /\ shown[t].version <= latest[t]
         /\ taskCache[t].left >= 0 => taskCache[t].version <= latest[t]
<1>0. Ordered
  BY DEF SteadyInv
<1>1. ASSUME NEW t \in Watched, ReadThrough(t), UNCHANGED <<tiers, away>> PROVE SteadyInv'
  <2>1. CASE Hit(t)
    BY <1>0, <1>1, <2>1, HitEffect DEF tiers, SteadyInv
  <2>2. CASE Found(t)
    <3>1. Stored(t).version = latest[t]
      BY <2>2, StoredIsLatest DEF Found
    <3> QED BY <1>0, <1>1, <2>2, <3>1, FoundEffect DEF tiers, SteadyInv
  <2>3. CASE Missing(t)
    BY <1>0, <1>1, <2>3, MissingEffect DEF tiers, SteadyInv
  <2> QED BY <1>1, <2>1, <2>2, <2>3, ReadCases
<1>2. ASSUME NEW t \in Watched, Forget(t) PROVE SteadyInv'
  BY <1>2 DEF Forget, SteadyInv, StreamTypeOK
<1>3. ASSUME NEW t \in Watched, Writes(t) PROVE SteadyInv'
  <2>1. PICK status \in Statuses, lands \in BOOLEAN : Write(t, status, lands)
    BY <1>3 DEF Writes
  <2>2. lands /\ durable[t] = Gone /\ away' = away /\ UNCHANGED <<taskCache, shown>>
    BY <2>1 DEF Write
  <2>3. latest'[t] = latest[t] + 1 /\ \A k \in Watched \ {t} : latest'[k] = latest[k]
    BY <2>1 DEF Write, StreamTypeOK
  <2>4. record'[t].version = latest'[t] /\ \A k \in Watched \ {t} : record'[k] = record[k]
    BY <2>1, <2>2, <2>3 DEF Write, StreamTypeOK
  <2>5. /\ durable'[t] # Gone => durable'[t].version = latest'[t]
        /\ \A k \in Watched \ {t} : durable'[k] = durable[k]
    BY <2>1, <2>2, <2>3 DEF Write, StreamTypeOK
  <2> QED BY <2>2, <2>3, <2>4, <2>5 DEF SteadyInv
<1>4. CASE Tick
  BY <1>0, <1>4, TickEffect DEF Less, tiers, SteadyInv
<1>5. CASE UNCHANGED <<tiers, taskCache, shown, away>>
  BY <1>5 DEF tiers, SteadyInv
<1> QED
  BY <1>1, <1>2, <1>3, <1>4, <1>5, StepKinds DEF Reads

-----------------------------------------------------------------------------
(* Theorems *)

(* The larger of two numbers. *)
LEMMA MaxOfTwo ==
  ASSUME NEW a \in Nat, NEW b \in Nat
  PROVE  Max({a, b}) \in {a, b} /\ Max({a, b}) >= a /\ Max({a, b}) >= b
<1>1. \E x \in {a, b} : \A y \in {a, b} : x >= y
  BY a >= b \/ b >= a
<1> QED BY <1>1 DEF Max

(* The first state has an empty cache and nothing shown. *)
LEMMA StreamInitInv ==
  StreamInit => StreamTypeOK /\ RoomInv /\ LagInv /\ ForwardInv /\ SteadyInv
<1> SUFFICES ASSUME StreamInit PROVE StreamTypeOK /\ RoomInv /\ LagInv /\ ForwardInv /\ SteadyInv
  OBVIOUS
<1> USE StreamNumbers DEF StreamInit
<1>0. ASSUME NEW t \in Watched
      PROVE  /\ record[t].version \in 0..2 /\ local[t].version \in 0..2
             /\ latest[t] \in 0..2 /\ latest[t] >= record[t].version
             /\ troubles = {} => latest[t] = record[t].version
  <2>1. record[t].version \in 0..2 /\ local[t].version \in 0..2
    BY DEF Gone
  <2>2. latest[t] = Max({record[t].version, local[t].version})
    OBVIOUS
  <2>3. latest[t] \in {record[t].version, local[t].version} /\ latest[t] >= record[t].version
    BY <2>1, <2>2, MaxOfTwo
  <2>4. troubles = {} => local[t].version = 0
    BY DEF Posted, Gone
  <2> QED BY <2>1, <2>3, <2>4
<1>1. StreamTypeOK
  <2>1. stream \in [Streams -> OpenStreams]
    BY DEF OpenStreams
  <2>2. taskCache \in [Watched -> Entries]
    BY DEF Entries, Uncached
  <2>3. /\ record \in [Watched -> StreamRecords] /\ local \in [Watched -> StreamRecords]
        /\ durable \in [Watched -> StreamRecords]
    <3>1. /\ Gone \in StreamRecords /\ [version |-> 1, status |-> "running"] \in StreamRecords
          /\ [version |-> 2, status |-> "failed"] \in StreamRecords
      BY DEF Gone, StreamRecords, Statuses
    <3> QED BY <3>1
  <2>4. behind \in [Watched -> 0..CacheTtl] /\ shown \in [Watched -> Shown]
    BY DEF Shown
  <2>5. away \in BOOLEAN /\ troubles \in TroubleSets
    OBVIOUS
  <2>6. latest \in [Watched -> 0..MaxVersion]
    BY <1>0
  <2> QED BY <2>1, <2>2, <2>3, <2>4, <2>5, <2>6 DEF StreamTypeOK, OpenStreams, Entries, Shown
<1>2. RoomInv
  <2>1. Cached = {}
    BY DEF Cached, Uncached
  <2> QED BY <2>1, FS_EmptySet DEF RoomInv
<1>3. LagInv
  BY DEF LagInv, LiveEntry, Uncached
<1>4. ForwardInv
  BY DEF ForwardInv, LiveEntry, Uncached
<1>5. SteadyInv
  <2>1. \A t \in Watched : ~(taskCache[t].left >= 0) /\ shown[t].version = 0 /\ durable[t] = Gone
    BY DEF Uncached
  <2>2. \A t \in Watched : shown[t].version <= latest[t]
    BY <1>0, <2>1
  <2> QED BY <1>0, <2>1, <2>2 DEF SteadyInv
<1> QED BY <1>1, <1>2, <1>3, <1>4, <1>5

(* The state of the readers is of its shape. *)
THEOREM StreamTypeCorrect == StreamSpec => []StreamTypeOK
BY StreamInitInv, StreamStepType, PTL DEF StreamSpec

(* The cache never holds more than MaxEntries records, whatever is read. *)
THEOREM CacheIsBounded == StreamSpec => []CacheBounded
<1>1. StreamTypeOK /\ RoomInv /\ [StreamNext]_streamVars => RoomInv'
  BY StepRoom
<1>2. RoomInv => CacheBounded
  BY DEF RoomInv, CacheBounded
<1> QED BY <1>1, <1>2, StreamInitInv, StreamTypeCorrect, PTL DEF StreamSpec

(* No reader is given a version overwritten a TTL ago or earlier: a read of *)
(* the cache does not renew the entry it finds.                             *)
THEOREM ShownIsRecent == StreamSpec => []ShownRecent
<1>1. StreamTypeOK /\ LagInv /\ [StreamNext]_streamVars => LagInv'
  BY StepLag
<1>2. LagInv => ShownRecent
  BY DEF LagInv, ShownRecent
<1> QED BY <1>1, <1>2, StreamInitInv, StreamTypeCorrect, PTL DEF StreamSpec

(* Readers of one task, polling or streaming, never go back to an older      *)
(* version while nothing goes wrong, and never through the cache.            *)
THEOREM ReadersGoForward == StreamSpec => ReadsForward
<1>1. StreamTypeOK /\ ForwardInv /\ [StreamNext]_streamVars => ForwardInv'
  BY StepForward
<1>2. StreamTypeOK /\ SteadyInv /\ [StreamNext]_streamVars => SteadyInv'
  BY StepSteady
<1>3. StreamTypeOK /\ ForwardInv /\ SteadyInv /\ [StreamNext]_streamVars
        => [\A t \in Watched :
              shown'[t].version < shown[t].version => troubles # {} /\ ~LiveEntry(t)]_shown
  <2> SUFFICES ASSUME StreamTypeOK, ForwardInv, SteadyInv, [StreamNext]_streamVars
               PROVE  \/ \A t \in Watched :
                           shown'[t].version < shown[t].version => troubles # {} /\ ~LiveEntry(t)
                      \/ shown' = shown
    OBVIOUS
  <2>1. ASSUME NEW k \in Watched, ReadThrough(k)
        PROVE  \A t \in Watched :
                 shown'[t].version < shown[t].version => troubles # {} /\ ~LiveEntry(t)
    <3>1. CASE Hit(k)
      BY <3>1, HitEffect, TaskTypes DEF ForwardInv, LiveEntry
    <3>2. CASE Found(k)
      <4>1. troubles = {} => shown[k].version <= Stored(k).version
        BY <3>2, StoredIsLatest DEF Found, SteadyInv
      <4> QED BY <3>2, <4>1, FoundEffect, TaskTypes
    <3>3. CASE Missing(k)
      BY <3>3, MissingEffect, TaskTypes
    <3> QED BY <2>1, <3>1, <3>2, <3>3, ReadCases
  <2> QED BY <2>1, StepKinds DEF Reads, Writes, Forget, Write, Tick
<1> QED BY <1>1, <1>2, <1>3, StreamInitInv, StreamTypeCorrect, PTL DEF StreamSpec, ReadsForward

=============================================================================
