--------------------------- MODULE ResearchStore ---------------------------
(***************************************************************************)
(* One record of research_store in its three tiers: the Redis key with its *)
(* 24h TTL, the fallback dictionary of each process, and the durable copy  *)
(* of a completed record, written to a temporary file and renamed.         *)
(* set_task is synchronous: a process is in one call at a time, but the    *)
(* processes interleave between any two calls to Redis or the file system. *)
(*                                                                         *)
(* faults, fixed for a behaviour, names what may go wrong in it:           *)
(*   redis    a call to Redis raises (a write may have been applied)       *)
(*   disk     a file operation raises                                      *)
(*   crash    a process dies and restarts                                  *)
(*   expiry   the Redis key reaches its TTL                                *)
(*   redo     a settled task is executed again, to whatever end            *)
(*   overlap  a task is executed twice at once, so two calls may overlap   *)
(***************************************************************************)
EXTENDS Naturals, FiniteSets

CONSTANTS Procs, Api, Inodes, None,
          FaultSets  \* the environments considered: each a set of faults

ASSUME ProcsAssumption == Api \in Procs /\ None \notin Inodes
ASSUME FaultsAssumption ==
  FaultSets \subseteq SUBSET {"redis", "disk", "crash", "expiry", "redo", "overlap"}

VARIABLES
  faults,  \* what may go wrong in this behaviour
  redis,   \* the record under research:task:<id>
  local,   \* process -> its entry in _local_fallback
  data,    \* inode -> its content: a record, or Torn while it is written
  path,    \* the inode called <id>.json, or None
  tmp,     \* the inode called <id>.json.tmp, or None
  pc,      \* process -> where it is in set_task
  merged,  \* process -> the record it is writing
  fd,      \* process -> the inode it has open for writing
  minted,  \* POST /run has created the task
  told,    \* history: what the calls made so far say the record is
  kept     \* history: the last completed record they said, or Absent

fileVars == <<data, path, tmp, fd>>
callVars == <<pc, merged>>
ghostVars == <<minted, told, kept>>
vars == <<faults, redis, local, data, path, tmp, pc, merged, fd, minted,
          told, kept>>

Statuses == {"absent", "running", "queued_waiting_llm", "completed", "failed"}

(* stamped: the record has the fields POST /run gave it *)
Records == [status : Statuses, stamped : BOOLEAN]
Absent == [status |-> "absent", stamped |-> FALSE]
Torn == [status |-> "torn", stamped |-> FALSE]

(* The outcomes of a call to Redis *)
Answers == IF "redis" \in faults THEN BOOLEAN ELSE {TRUE}

(* _load_from_disk: a file that does not parse reads as no record *)
Disk == IF path = None \/ data[path] = Torn THEN Absent ELSE data[path]

(* get_task, by the process and by whether Redis answers it *)
GetTask(p, answers) ==
  LET tier == IF answers THEN redis ELSE local[p]
  IN IF tier = Absent THEN Disk ELSE tier

(* Mutant: the patch replaces the record *)
MergePatchOnly(old, patch) == patch

Merge(old, patch) ==
  [status |-> patch.status, stamped |-> old.stamped \/ patch.stamped]

-----------------------------------------------------------------------------
Init ==
  /\ faults \in FaultSets
  /\ redis = Absent
  /\ local = [p \in Procs |-> Absent]
  /\ data = [i \in Inodes |-> Torn]
  /\ path = None /\ tmp = None
  /\ pc = [p \in Procs |-> "idle"]
  /\ merged = [p \in Procs |-> Absent]
  /\ fd = [p \in Procs |-> None]
  /\ minted = FALSE
  /\ told = Absent /\ kept = Absent

(* The patches the callers make, by what has been said of the task.  POST   *)
(* /run creates it; the API, an executor or a supervisor then moves it on.  *)
(* Two callers do not know what has been said: an execution, or a pass of   *)
(* the supervisor, that outlives the record, and the execution of a settled *)
(* task again, which may park or fail what was completed.                   *)
Creation == [status |-> "running", stamped |-> TRUE]

Patch(status) == [status |-> status, stamped |-> FALSE]

Patches ==
  CASE ~minted -> {Creation}
    [] minted /\ (told.status = "absent" \/ {"redo", "overlap"} \cap faults # {}) ->
         {Patch(s) : s \in Statuses \ {"absent"}}
    [] told.status = "running" -> {Patch(s) : s \in {"queued_waiting_llm", "completed", "failed"}}
    [] told.status = "queued_waiting_llm" -> {Patch("running")}
    [] OTHER -> {}

(* The history's own account of a call, whatever the code merges *)
Said(patch) == [status |-> patch.status, stamped |-> told.stamped \/ patch.stamped]

(* set_task's first half: read and merge.  The API creates tasks and fails *)
(* those it cannot enqueue; the workers do the rest, once it is created.   *)
Call(p, patch) ==
  /\ pc[p] = "idle"
  /\ \/ \A q \in Procs : pc[q] = "idle"
     \/ "overlap" \in faults /\ merged[Api] # Creation
  /\ IF p = Api THEN patch \in {Creation, Patch("failed")} ELSE minted
  /\ minted' = TRUE
  /\ told' = Said(patch)
  /\ kept' = IF patch.status = "completed" THEN Said(patch) ELSE kept
  /\ \E answers \in Answers :
       merged' = [merged EXCEPT ![p] = Merge(GetTask(p, answers), patch)]
  /\ pc' = [pc EXCEPT ![p] = "write"]
  /\ UNCHANGED <<redis, local, fileVars>>

Return(p) ==
  /\ pc' = [pc EXCEPT ![p] = "idle"]
  /\ merged' = [merged EXCEPT ![p] = Absent]

(* Mutant: a completed record is not copied *)
AfterWriteNothing(p) == Return(p)

(* What follows the write to Redis: the durable copy of a completed record *)
AfterWrite(p) ==
  IF merged[p].status = "completed"
  THEN pc' = [pc EXCEPT ![p] = "open"] /\ UNCHANGED merged
  ELSE Return(p)

Write(p) ==
  /\ pc[p] = "write"
  /\ redis' = merged[p]
  /\ AfterWrite(p)
  /\ UNCHANGED <<local, fileVars, ghostVars>>

(* Mutant: the fallback branch returns without the durable copy *)
WriteLocalOnly(p) ==
  /\ "redis" \in faults
  /\ pc[p] = "write"
  /\ local' = [local EXCEPT ![p] = merged[p]]
  /\ redis' \in {redis, merged[p]}
  /\ Return(p)
  /\ UNCHANGED <<fileVars, ghostVars>>

(* The write raises, applied or not: the record goes to the fallback *)
WriteLocal(p) ==
  /\ "redis" \in faults
  /\ pc[p] = "write"
  /\ local' = [local EXCEPT ![p] = merged[p]]
  /\ redis' \in {redis, merged[p]}
  /\ AfterWrite(p)
  /\ UNCHANGED <<fileVars, ghostVars>>

-----------------------------------------------------------------------------
(* _persist_to_disk *)

Free(i) == i # path /\ i # tmp /\ \A p \in Procs : fd[p] # i

(* Mutant: the durable copy is written in place *)
OpenInPlace(p) ==
  /\ pc[p] = "open"
  /\ \E i \in Inodes :
       /\ IF path = None THEN Free(i) ELSE i = path
       /\ path' = i
       /\ data' = [data EXCEPT ![i] = Torn]
       /\ fd' = [fd EXCEPT ![p] = i]
  /\ pc' = [pc EXCEPT ![p] = "fill"]
  /\ UNCHANGED <<redis, local, tmp, merged, ghostVars>>

(* open(tmp, "w"): the existing temporary file, truncated, or a new one *)
Open(p) ==
  /\ pc[p] = "open"
  /\ \E i \in Inodes :
       /\ IF tmp = None THEN Free(i) ELSE i = tmp
       /\ tmp' = i
       /\ data' = [data EXCEPT ![i] = Torn]
       /\ fd' = [fd EXCEPT ![p] = i]
  /\ pc' = [pc EXCEPT ![p] = "fill"]
  /\ UNCHANGED <<redis, local, path, merged, ghostVars>>

Fill(p) ==
  /\ pc[p] = "fill"
  /\ data' = [data EXCEPT ![fd[p]] = merged[p]]
  /\ fd' = [fd EXCEPT ![p] = None]
  /\ pc' = [pc EXCEPT ![p] = "replace"]
  /\ UNCHANGED <<redis, local, path, tmp, merged, ghostVars>>

(* os.replace; it raises, and is logged, if the other call renamed the file *)
Replace(p) ==
  /\ pc[p] = "replace"
  /\ path' = IF tmp = None THEN path ELSE tmp
  /\ tmp' = None
  /\ Return(p)
  /\ UNCHANGED <<redis, local, data, fd, ghostVars>>

(* Mutant: the file is left open *)
DiskErrorLeak(p) ==
  /\ "disk" \in faults
  /\ pc[p] \in {"open", "fill", "replace"}
  /\ Return(p)
  /\ UNCHANGED <<redis, local, fileVars, ghostVars>>

(* A file operation raises: logged, no durable copy *)
DiskError(p) ==
  /\ "disk" \in faults
  /\ pc[p] \in {"open", "fill", "replace"}
  /\ Return(p)
  /\ fd' = [fd EXCEPT ![p] = None]
  /\ UNCHANGED <<redis, local, data, path, tmp, ghostVars>>

-----------------------------------------------------------------------------
(* The process restarts with an empty fallback; files stay as they are *)
Crash(p) ==
  /\ "crash" \in faults
  /\ Return(p)
  /\ fd' = [fd EXCEPT ![p] = None]
  /\ local' = [local EXCEPT ![p] = Absent]
  /\ UNCHANGED <<redis, data, path, tmp, ghostVars>>

(* Every write sets the TTL anew and a call takes far less than that.  What *)
(* is left of a task is the last completed record.                         *)
Expire ==
  /\ "expiry" \in faults
  /\ redis # Absent /\ \A p \in Procs : pc[p] = "idle"
  /\ redis' = Absent
  /\ told' = kept
  /\ UNCHANGED <<local, fileVars, callVars, minted, kept>>

SetTask(p) ==
  \/ \E patch \in Patches : Call(p, patch)
  \/ Write(p) \/ WriteLocal(p)
  \/ Open(p) \/ Fill(p) \/ Replace(p) \/ DiskError(p)

Next ==
  /\ (\E p \in Procs : SetTask(p) \/ Crash(p)) \/ Expire
  /\ UNCHANGED faults

Spec == Init /\ [][Next]_vars

-----------------------------------------------------------------------------
(* Types.  The tiers hold records, and a process in _persist_to_disk is     *)
(* writing a completed one.                                                 *)
TypeOK ==
  /\ faults \in FaultSets
  /\ redis \in Records
  /\ local \in [Procs -> Records]
  /\ data \in [Inodes -> Records \cup {Torn}]
  /\ path \in Inodes \cup {None} /\ tmp \in Inodes \cup {None}
  /\ pc \in [Procs -> {"idle", "write", "open", "fill", "replace"}]
  /\ merged \in [Procs -> Records]
  /\ fd \in [Procs -> Inodes \cup {None}]
  /\ minted \in BOOLEAN /\ told \in Records /\ kept \in Records
  /\ \A p \in Procs : pc[p] \in {"open", "fill", "replace"} => merged[p].status = "completed"
  /\ \A p \in Procs : pc[p] = "fill" <=> fd[p] # None

Quiet == \A p \in Procs : pc[p] = "idle"

Healthy == faults \subseteq {"expiry", "redo"}

(* While Redis answers and nobody dies, every process reads from the store  *)
(* between calls what the calls have said: the latest record until it       *)
(* expires, then the last completed one, also where a repeated execution    *)
(* had parked or failed the task since.  The durable copy is "symmetric     *)
(* with what Redis would have returned" (set_task).                         *)
ReadsLatest == Healthy /\ Quiet => \A p \in Procs : GetTask(p, TRUE) = told

(* Nobody who opens <id>.json finds it half-written, whatever fails or      *)
(* crashes, unless a task is executed twice at once (_persist_to_disk).     *)
NoTornRead == "overlap" \notin faults => (path # None => data[path] # Torn)

(* A set_task(completed) that has returned leaves a completed durable copy, *)
(* also when Redis was away for all of it, and no later call takes it away. *)
FinishedIsDurable ==
  faults \subseteq {"redis", "expiry", "redo"} =>
    (Quiet /\ kept # Absent => Disk.status = "completed")

(* A record in Redis keeps the tenant, the query and the mode POST /run     *)
(* gave it (set_task: "Preserves fields not present in the patch").         *)
StampKept == redis # Absent => redis.stamped

(* The store is one atomic record while Redis answers and no process dies:  *)
(* what Api reads, and the completed record that the call under way is      *)
(* about to copy or the last one has copied.                                *)
Copied ==
  IF \E p \in Procs : pc[p] \in {"open", "fill", "replace"} THEN redis ELSE Disk

Register == INSTANCE RecordRegister
  WITH value <- IF Healthy THEN GetTask(Api, TRUE) ELSE Absent,
       kept <- IF Healthy THEN Copied ELSE Absent,
       Patches <- {Creation} \cup {Patch(s) : s \in Statuses \ {"absent"}}

Refines == Register!Spec

=============================================================================
