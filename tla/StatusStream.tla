---------------------------- MODULE StatusStream ----------------------------
(***************************************************************************)
(* The readers of a research task in the API process                       *)
(* (src/src/api/routers/research.py): GET /status polls and SSE streams,   *)
(* which share one bounded cache of task records in front of the store.    *)
(* A read (cache, then store, then cache again) has no await in it and is  *)
(* one step; between two reads of a stream lie its sleep, the store's      *)
(* writers, the clock and every other reader.                              *)
(*                                                                         *)
(* A record is its version, counted by the writes to it, and its status.   *)
(* The store answers from the tiers this process sees: Redis, or its own   *)
(* fallback while Redis is away, and the durable copy after both.  A write *)
(* is one step here; what happens within it is in ResearchStore.           *)
(*                                                                         *)
(* troubles, fixed for a behaviour, names what may go wrong in it:         *)
(*   outage   Redis comes and goes, and may fail any write                 *)
(*   redo     a completed task is executed again, to whatever end          *)
(***************************************************************************)
EXTENDS Integers, FiniteSets, FiniteSetsExt

CONSTANTS
  Watched,         \* tasks
  Streams,         \* open streams
  MaxEntries,      \* _TaskCache._MAX_ENTRIES
  CacheTtl,        \* STATUS_CACHE_TTL_SECONDS, in ticks
  PollInterval,    \* SSE_POLL_INTERVAL_SECONDS, in ticks
  MaxDuration,     \* SSE_MAX_DURATION_SECONDS, in ticks
  MaxVersion,      \* bound: writes of one record
  TroubleSets      \* the environments considered: each a set of troubles

ASSUME StreamAssumption ==
  /\ MaxEntries \in Nat \ {0} /\ CacheTtl \in Nat \ {0}
  /\ {PollInterval, MaxDuration} \subseteq Nat \ {0}
  /\ MaxVersion \in Nat \ {0, 1}
  /\ TroubleSets \subseteq SUBSET {"outage", "redo"}

VARIABLES
  troubles,   \* what may go wrong in this behaviour
  record,     \* task -> its record in Redis, or Gone
  durable,    \* task -> its durable copy, or Gone
  local,      \* task -> its record in the fallback of this process, or Gone
  latest,     \* task -> how often its record was written
  away,       \* Redis cannot be reached
  taskCache,  \* the cache: task -> its entry, or Uncached
  stream,     \* stream -> its task, its state, the time to its deadline and to its next read
  behind,     \* history: task -> ticks for which the store has had another version
  shown       \* history: task -> the last version any reader was given, and how old it was

tiers == <<record, durable, local, latest>>
streamVars == <<troubles, record, durable, local, latest, away, taskCache, stream, behind, shown>>

Statuses == {"running", "queued_waiting_llm", "completed", "failed"}
Gone == [version |-> 0, status |-> "gone"]
Uncached == [version |-> 0, status |-> "gone", left |-> -1]
Cached == {t \in Watched : taskCache[t].left >= 0}

(* What POST /run leaves of a task: the running record, then a failed one   *)
(* if it could not be enqueued.  A client asks for a task only when that is *)
(* over, and nothing else this process does writes a record; where Redis    *)
(* fails a write, applied or not, the record is in the fallback.            *)
Posted(redis, fallback) ==
  LET posted == {[version |-> 1, status |-> "running"], [version |-> 2, status |-> "failed"]} IN
  IF "outage" \in troubles
  THEN /\ {redis, fallback} \subseteq posted \cup {Gone}
       /\ {redis, fallback} # {Gone}
  ELSE redis \in posted /\ fallback = Gone

StreamInit ==
  /\ troubles \in TroubleSets
  /\ LET kept == {Gone, [version |-> 1, status |-> "running"], [version |-> 2, status |-> "failed"]}
     IN record \in [Watched -> kept] /\ local \in [Watched -> kept]
  /\ \A t \in Watched : Posted(record[t], local[t])
  /\ durable = [t \in Watched |-> Gone]
  /\ latest = [t \in Watched |-> Max({record[t].version, local[t].version})]
  /\ away = FALSE
  /\ taskCache = [t \in Watched |-> Uncached]
  /\ stream \in [Streams -> [task : Watched, state : {"open"}, left : {MaxDuration}, sleep : {0}]]
  /\ behind = [t \in Watched |-> 0]
  /\ shown = [t \in Watched |-> [version |-> 0, lag |-> 0]]

-----------------------------------------------------------------------------
(* The cache *)

Expired(t) == taskCache[t].left = 0
LiveOrExpiring(t) == taskCache[t].left >= 0     \* Mutant: an entry outlives its TTL

LiveEntry(t) == taskCache[t].left > 0

(* Mutant: the sweep makes no room for the entry to come *)
KeptAll == {{k \in Cached : LiveEntry(k)}}

(* _sweep: the expired entries go, then the oldest, until there is room for one *)
Kept ==
  LET live == {k \in Cached : LiveEntry(k)}
      overflow == Cardinality(live) - MaxEntries + 1
  IN IF overflow <= 0 THEN {live}
     ELSE {live \ oldest : oldest \in
            {S \in kSubset(overflow, live) :
               \A k \in S, m \in live \ S : taskCache[k].left <= taskCache[m].left}}

(* set: sweep when the cache is full, then store the entry with a full TTL *)
CacheSet(t, rec) ==
  \E keep \in IF Cardinality(Cached \ {t}) >= MaxEntries THEN Kept ELSE {Cached} :
    taskCache' = [k \in Watched |->
                    IF k = t THEN [version |-> rec.version, status |-> rec.status, left |-> CacheTtl]
                    ELSE IF k \in keep THEN taskCache[k] ELSE Uncached]

(* get_task, as far as this process can see *)
Stored(t) ==
  LET tier == IF away THEN local[t] ELSE record[t]
  IN IF tier # Gone THEN tier ELSE durable[t]

(* get, and on a miss get_task and set: an expired entry is dropped, nothing is *)
(* cached of a record that is not found                                         *)
Entry(t) == [version |-> taskCache[t].version, status |-> taskCache[t].status]
(* Mutant: a failure is shown at once, past the cache *)
ReadFailedNow(t) == IF LiveEntry(t) /\ Stored(t).status # "failed" THEN Entry(t) ELSE Stored(t)

Read(t) == IF LiveEntry(t) THEN Entry(t) ELSE Stored(t)
ReadThrough(t) ==
  /\ IF LiveEntry(t) THEN taskCache' = taskCache
     ELSE IF Stored(t) # Gone THEN CacheSet(t, Stored(t))
     ELSE taskCache' = [taskCache EXCEPT ![t] = Uncached]
  /\ LET lag == IF LiveEntry(t) THEN behind[t] ELSE 0 IN
       /\ shown' = IF Read(t) = Gone THEN shown
                   ELSE [shown EXCEPT ![t] = [version |-> Read(t).version, lag |-> lag]]
       /\ behind' = [behind EXCEPT ![t] = lag]

-----------------------------------------------------------------------------
(* Readers *)

(* GET /status/{id} of the owner; to another tenant the answer is 404 *)
Poll(t) == ReadThrough(t) /\ UNCHANGED <<troubles, tiers, away, stream>>

Ends(s, how) == stream' = [stream EXCEPT ![s].state = how]

(* Mutant: the deadline is for running tasks *)
StreamTimeoutRunning(s) ==
  /\ stream[s].state = "open" /\ stream[s].sleep = 0
  /\ stream[s].left = 0 /\ Read(stream[s].task).status = "running"
  /\ Ends(s, "timeout")
  /\ UNCHANGED <<troubles, tiers, away, taskCache, behind, shown>>

(* the deadline is looked at before each read *)
StreamTimeout(s) ==
  /\ stream[s].state = "open" /\ stream[s].sleep = 0
  /\ stream[s].left = 0
  /\ Ends(s, "timeout")
  /\ UNCHANGED <<troubles, tiers, away, taskCache, behind, shown>>

(* One round of event_generator: a record that is not found, completed or failed *)
(* ends the stream, any other is reported when it changed and awaited.           *)
StreamRead(s) ==
  /\ stream[s].state = "open" /\ stream[s].sleep = 0 /\ stream[s].left > 0
  /\ LET rec == Read(stream[s].task) IN
       IF rec = Gone THEN Ends(s, "error")
       ELSE IF rec.status \in {"completed", "failed"} THEN Ends(s, rec.status)
       ELSE stream' = [stream EXCEPT ![s].sleep = PollInterval]
  /\ ReadThrough(stream[s].task)
  /\ UNCHANGED <<troubles, tiers, away>>

-----------------------------------------------------------------------------
(* The world: writers, Redis, the clock *)

(* A worker's write.  A running record may be gone by now, a failed one may *)
(* be overwritten (kiq can raise after the message was delivered), and a    *)
(* completed one is when the task is executed again.  If the write to Redis *)
(* fails, the record goes to the fallback of the worker, which this process *)
(* does not see; completed is copied whether it failed or not.              *)
Write(t, status, lands) ==
  /\ latest[t] < MaxVersion
  /\ durable[t] = Gone \/ "redo" \in troubles
  /\ IF lands THEN ~away ELSE "outage" \in troubles
  /\ LET new == [version |-> latest[t] + 1, status |-> status] IN
       /\ record' = IF lands THEN [record EXCEPT ![t] = new] ELSE record
       /\ durable' = IF status = "completed" THEN [durable EXCEPT ![t] = new] ELSE durable
  /\ latest' = [latest EXCEPT ![t] = @ + 1]
  /\ UNCHANGED <<troubles, local, away, taskCache, stream, behind, shown>>

(* the record reaches its TTL; the durable copy of a completed one stays *)
Forget(t) ==
  /\ ~away /\ record[t] # Gone
  /\ record' = [record EXCEPT ![t] = Gone]
  /\ UNCHANGED <<troubles, durable, local, latest, away, taskCache, stream, behind, shown>>

Outage ==
  /\ "outage" \in troubles
  /\ away' = ~away
  /\ UNCHANGED <<troubles, tiers, taskCache, stream, behind, shown>>

Less(n) == IF n > 0 THEN n - 1 ELSE n

Tick ==
  /\ taskCache' = [t \in Watched |-> [taskCache[t] EXCEPT !.left = Less(@)]]
  /\ stream' = [s \in Streams |-> [stream[s] EXCEPT !.left = Less(@), !.sleep = Less(@)]]
  /\ behind' = [t \in Watched |->
                  IF t \in Cached /\ taskCache[t].version # Stored(t).version /\ behind[t] < CacheTtl
                    THEN behind[t] + 1 ELSE behind[t]]
  /\ UNCHANGED <<troubles, tiers, away, shown>>

StreamStep(s) == StreamTimeout(s) \/ StreamRead(s)

StreamNext ==
  \/ \E s \in Streams : StreamStep(s)
  \/ \E t \in Watched : Poll(t) \/ Forget(t)
  \/ \E t \in Watched, status \in Statuses, lands \in BOOLEAN : Write(t, status, lands)
  \/ Outage \/ Tick

StreamSpec == StreamInit /\ [][StreamNext]_streamVars

(* time passes, and the event loop resumes a generator whose sleep is over *)
StreamFairSpec ==
  StreamSpec /\ WF_streamVars(Tick) /\ \A s \in Streams : WF_streamVars(StreamStep(s))

-----------------------------------------------------------------------------
(* What the readers must keep *)

(* Shapes, within the bounds. *)
StreamRecords == [version : 0..MaxVersion, status : Statuses \cup {"gone"}]

StreamTypeOK ==
  /\ troubles \in TroubleSets
  /\ record \in [Watched -> StreamRecords] /\ durable \in [Watched -> StreamRecords]
  /\ local \in [Watched -> StreamRecords] /\ latest \in [Watched -> 0..MaxVersion]
  /\ away \in BOOLEAN
  /\ taskCache \in [Watched -> [version : 0..MaxVersion, status : Statuses \cup {"gone"},
                                left : -1..CacheTtl]]
  /\ stream \in [Streams -> [task : Watched, left : 0..MaxDuration, sleep : 0..PollInterval,
                             state : {"open", "timeout", "error", "completed", "failed"}]]
  /\ behind \in [Watched -> 0..CacheTtl]
  /\ shown \in [Watched -> [version : 0..MaxVersion, lag : 0..CacheTtl]]

(* However many tasks are polled and abandoned, the cache holds no more than *)
(* MaxEntries records: what _sweep is for.                                   *)
CacheBounded == Cardinality(Cached) <= MaxEntries

(* A version a reader is given is the store's own, or was until less than a   *)
(* TTL ago, however the reads of other readers refill the cache in between.   *)
ShownRecent == \A t \in Watched : shown[t].lag < CacheTtl

(* What the readers of a task are given never goes back to an older version:   *)
(* they share the cache, an entry is replaced by a later read only, and the    *)
(* store itself goes forward when a record is overwritten, copied and expires. *)
(* Where Redis fails a write, or a completed task is executed again, the tiers *)
(* differ and the store may go back; an entry of the cache never does.         *)
ReadsForward ==
  [][\A t \in Watched :
       shown'[t].version < shown[t].version => troubles # {} /\ ~LiveEntry(t)]_shown

(* Every stream ends: with the task's end, an error, or at its own deadline. *)
StreamsEnd == \A s \in Streams : <>(stream[s].state # "open")

=============================================================================
