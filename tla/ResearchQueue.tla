--------------------------- MODULE ResearchQueue ---------------------------
(***************************************************************************)
(* The life of research tasks across the processes that share Redis: the   *)
(* API process (POST /run), the taskiq worker processes, each running      *)
(* execute_research_task in several slots, and the LLM-health supervisor   *)
(* loop every worker process runs.  A task whose LLM endpoint is down is   *)
(* parked (queued_waiting_llm) and a supervisor drains it back to the      *)
(* queue under a Redis lock with a time to live (try_claim_drain).         *)
(*                                                                         *)
(* Redis answers every call here; ResearchStore is where it does not.      *)
(* Four switches name what the environment may do:                         *)
(*   SlowPasses   a drain pass may outlast the TTL of a drain lock         *)
(*   LostReplies  an enqueue may reach the list and still raise in kiq     *)
(*   Crashes      processes may die and restart                            *)
(*   Expiry       a record may reach its 24h TTL in Redis                  *)
(***************************************************************************)
EXTENDS Naturals, FiniteSets

CONSTANTS Tasks, Tenants, Workers, Slots, Configs, Urls, NoTask,
          TaskTenant,   \* the tenant that submits the task
          TaskConfig,   \* its llm_provider_config: a base_url and a key
          ConfigUrl,    \* the base_url of a configuration
          SlotWorker,   \* the worker process an execution slot belongs to
          Cap,          \* Principal.concurrent_research
          SlowPasses, LostReplies, Crashes, Expiry

ASSUME TasksAssumption == NoTask \notin Tasks /\ IsFiniteSet(Tasks)
ASSUME TopologyAssumption ==
  /\ TaskTenant \in [Tasks -> Tenants]
  /\ TaskConfig \in [Tasks -> Configs]
  /\ ConfigUrl \in [Configs -> Urls]
  /\ SlotWorker \in [Slots -> Workers]
ASSUME CapAssumption == Cap \in [Tenants -> Nat]
ASSUME SwitchAssumption == {SlowPasses, LostReplies, Crashes, Expiry} \subseteq BOOLEAN

VARIABLES
  minted,     \* task ids POST /run has created
  redis,      \* task -> the record under research:task:<id>
  disk,       \* task -> the durable copy under RESEARCH_STORE_DIR
  queue,      \* task -> its messages in the taskiq list
  apiPending, \* tasks whose kiq the API process is awaiting
  slotPc, slotTask,  \* where each execution slot is, and its task
  supPc,      \* where each supervisor is in the inner loop of its pass
  todo,       \* its snapshot: waiting tasks of groups it has not probed yet
  group,      \* the tasks left in the group it is draining
  cur,        \* the task it has claimed and is re-enqueueing
  locks,      \* tasks whose drainlock key exists
  up,         \* configuration -> would GET /models with it answer < 400
  cache,      \* worker -> URL -> its unexpired _probe_cache entry
  stale       \* history: snapshot entries another supervisor has claimed

storeVars == <<redis, disk>>
slotVars  == <<slotPc, slotTask>>
supVars   == <<supPc, todo, group, cur, stale>>
vars == <<minted, redis, disk, queue, apiPending, slotPc, slotTask,
          supPc, todo, group, cur, locks, up, cache, stale>>

Statuses == {"absent", "running", "queued_waiting_llm", "completed", "failed"}
Verdicts == {"unknown", "up", "down"}

(* owned: the record has the tenant_id POST /run stamped it with *)
Absent == [status |-> "absent", owned |-> FALSE]
Records == {r \in [status : Statuses, owned : BOOLEAN] : r.status = "absent" => ~r.owned}

Url(t) == ConfigUrl[TaskConfig[t]]

-----------------------------------------------------------------------------
(* research_store: reads fall through to disk, writes merge into what a    *)
(* read returns.                                                           *)

GetTask(t) == IF redis[t].status # "absent" THEN redis[t] ELSE disk[t]

(* Mutant: the patch replaces the record instead of being merged into it *)
SetTaskUnmerged(t, status) ==
  redis' = [redis EXCEPT ![t] = [status |-> status, owned |-> FALSE]]

SetTask(t, status) ==
  redis' = [redis EXCEPT ![t] = [status |-> status, owned |-> GetTask(t).owned]]

(* Mutant: the scan filters on _ACTIVE_STATUSES *)
WaitingOrRunning == {t \in Tasks : redis[t].status \in {"running", "queued_waiting_llm"}}

Waiting == {t \in Tasks : redis[t].status = "queued_waiting_llm"}

ActiveStatuses == {"running", "queued_waiting_llm"}

ActiveOf(tenant) ==
  {t \in Tasks : /\ redis[t].status \in ActiveStatuses
                 /\ redis[t].owned
                 /\ TaskTenant[t] = tenant}

(* What check_llm_reachable answers: a forced probe asks the endpoint, the *)
(* other kind first looks in the cache, which is keyed by the URL alone.   *)
Probe(c) == IF up[c] THEN "up" ELSE "down"

CachedProbe(w, c) ==
  IF cache[w][ConfigUrl[c]] = "unknown" THEN Probe(c) ELSE cache[w][ConfigUrl[c]]

Remember(w, c, verdict) == cache' = [cache EXCEPT ![w][ConfigUrl[c]] = verdict]

(* Mutant: the enqueue is repeated after it succeeded *)
DeliverTwice(t) == queue' = [queue EXCEPT ![t] = @ + 2]

Deliver(t) == queue' = [queue EXCEPT ![t] = @ + 1]

-----------------------------------------------------------------------------
Init ==
  /\ minted = {}
  /\ redis = [t \in Tasks |-> Absent]
  /\ disk = [t \in Tasks |-> Absent]
  /\ queue = [t \in Tasks |-> 0]
  /\ apiPending = {}
  /\ slotPc = [s \in Slots |-> "idle"]
  /\ slotTask = [s \in Slots |-> NoTask]
  /\ supPc = [w \in Workers |-> "pass"]
  /\ todo = [w \in Workers |-> {}]
  /\ group = [w \in Workers |-> {}]
  /\ cur = [w \in Workers |-> NoTask]
  /\ locks = {}
  /\ up \in [Configs -> BOOLEAN]
  /\ cache = [w \in Workers |-> [u \in Urls |-> "unknown"]]
  /\ stale = [w \in Workers |-> {}]

-----------------------------------------------------------------------------
(* POST /run.  Counting, comparing with the cap and writing the record     *)
(* never yield to the event loop, and the API is one process: one step.    *)

(* Mutant: the cap is compared with > instead of >= *)
SubmitOverCap(t) ==
  /\ t \notin minted
  /\ Cardinality(ActiveOf(TaskTenant[t])) <= Cap[TaskTenant[t]]
  /\ minted' = minted \cup {t}
  /\ redis' = [redis EXCEPT ![t] = [status |-> "running", owned |-> TRUE]]
  /\ apiPending' = apiPending \cup {t}
  /\ UNCHANGED <<disk, queue, slotVars, supVars, locks, up, cache>>

Submit(t) ==
  /\ t \notin minted
  /\ Cardinality(ActiveOf(TaskTenant[t])) < Cap[TaskTenant[t]]
  /\ minted' = minted \cup {t}
  /\ redis' = [redis EXCEPT ![t] = [status |-> "running", owned |-> TRUE]]
  /\ apiPending' = apiPending \cup {t}
  /\ UNCHANGED <<disk, queue, slotVars, supVars, locks, up, cache>>

ApiEnqueueOk(t) ==
  /\ t \in apiPending
  /\ Deliver(t)
  /\ apiPending' = apiPending \ {t}
  /\ UNCHANGED <<minted, storeVars, slotVars, supVars, locks, up, cache>>

(* The LPUSH is applied but its reply is lost: kiq is about to raise.  The  *)
(* guard bounds the copies: one in the list at a time.                      *)
ApiEnqueueUnacked(t) ==
  /\ LostReplies
  /\ t \in apiPending /\ queue[t] = 0
  /\ Deliver(t)
  /\ UNCHANGED <<minted, storeVars, apiPending, slotVars, supVars, locks, up, cache>>

ApiEnqueueFail(t) ==
  /\ t \in apiPending
  /\ SetTask(t, "failed")
  /\ apiPending' = apiPending \ {t}
  /\ UNCHANGED <<minted, disk, queue, slotVars, supVars, locks, up, cache>>

-----------------------------------------------------------------------------
(* execute_research_task.  BRPOP removes the message before the task runs.  *)

Receive(s, t) ==
  /\ slotPc[s] = "idle"
  /\ queue[t] > 0
  /\ queue' = [queue EXCEPT ![t] = @ - 1]
  /\ slotPc' = [slotPc EXCEPT ![s] = "received"]
  /\ slotTask' = [slotTask EXCEPT ![s] = t]
  /\ UNCHANGED <<minted, storeVars, apiPending, supVars, locks, up, cache>>

Free(s) ==
  /\ slotPc' = [slotPc EXCEPT ![s] = "idle"]
  /\ slotTask' = [slotTask EXCEPT ![s] = NoTask]

Goto(s, pc) == slotPc' = [slotPc EXCEPT ![s] = pc] /\ UNCHANGED slotTask

(* get_task finds a record, whatever its status *)
BeginFound(s) ==
  /\ slotPc[s] = "received"
  /\ GetTask(slotTask[s]).status # "absent"
  /\ Goto(s, "gate")
  /\ UNCHANGED <<minted, storeVars, queue, apiPending, supVars, locks, up, cache>>

BeginMissing(s) ==
  /\ slotPc[s] = "received"
  /\ GetTask(slotTask[s]).status = "absent"
  /\ SetTask(slotTask[s], "failed")
  /\ Free(s)
  /\ UNCHANGED <<minted, disk, queue, apiPending, supVars, locks, up, cache>>

(* The pre-flight gate: park, or run the agent *)
GatePass(s) ==
  LET w == SlotWorker[s]
      c == TaskConfig[slotTask[s]]
  IN /\ slotPc[s] = "gate"
     /\ CachedProbe(w, c) = "up"
     /\ Remember(w, c, "up")
     /\ Goto(s, "agent")
     /\ UNCHANGED <<minted, storeVars, queue, apiPending, supVars, locks, up>>

GatePark(s) ==
  LET w == SlotWorker[s]
      c == TaskConfig[slotTask[s]]
  IN /\ slotPc[s] = "gate"
     /\ CachedProbe(w, c) = "down"
     /\ Remember(w, c, "down")
     /\ SetTask(slotTask[s], "queued_waiting_llm")
     /\ Free(s)
     /\ UNCHANGED <<minted, disk, queue, apiPending, supVars, locks, up>>

(* run_research returns a report.  If LLM calls failed on the way, a fresh  *)
(* probe decides whether the report is kept.                                *)
AgentReport(s) ==
  LET c == TaskConfig[slotTask[s]]
  IN /\ slotPc[s] = "agent"
     /\ \/ UNCHANGED cache                                  \* no failed call
        \/ up[c] /\ Remember(SlotWorker[s], c, "up")        \* degraded
     /\ SetTask(slotTask[s], "completed")
     /\ Goto(s, "persist")
     /\ UNCHANGED <<minted, disk, queue, apiPending, supVars, locks, up>>

(* The endpoint is down after a degraded report or an exception: re-park *)
AgentRepark(s) ==
  LET c == TaskConfig[slotTask[s]]
  IN /\ slotPc[s] = "agent"
     /\ ~up[c] /\ Remember(SlotWorker[s], c, "down")
     /\ SetTask(slotTask[s], "queued_waiting_llm")
     /\ Free(s)
     /\ UNCHANGED <<minted, disk, queue, apiPending, supVars, locks, up>>

(* run_research raises although the endpoint is up *)
AgentError(s) ==
  LET c == TaskConfig[slotTask[s]]
  IN /\ slotPc[s] = "agent"
     /\ up[c] /\ Remember(SlotWorker[s], c, "up")
     /\ SetTask(slotTask[s], "failed")
     /\ Free(s)
     /\ UNCHANGED <<minted, disk, queue, apiPending, supVars, locks, up>>

(* Mutant: no durable copy is written *)
PersistNothing(s) ==
  /\ slotPc[s] = "persist"
  /\ Free(s)
  /\ UNCHANGED <<minted, storeVars, queue, apiPending, supVars, locks, up, cache>>

(* set_task's tail for a completed record: the copy on disk *)
Persist(s) ==
  LET t == slotTask[s]
  IN /\ slotPc[s] = "persist"
     /\ disk' = [disk EXCEPT ![t] = [status |-> "completed", owned |-> redis[t].owned]]
     /\ Free(s)
     /\ UNCHANGED <<minted, redis, queue, apiPending, supVars, locks, up, cache>>

-----------------------------------------------------------------------------
(* run_supervisor_once.  Snap is what the pass still has to look at.       *)

Snap(w) == todo[w] \cup group[w]

Resting(w) == Snap(w) = {} /\ cur[w] = NoTask

SupScan(w) ==
  /\ Resting(w)
  /\ Waiting # {}
  /\ todo' = [todo EXCEPT ![w] = Waiting]
  /\ stale' = [stale EXCEPT ![w] = {t \in Waiting : \E v \in Workers : cur[v] = t}]
  /\ UNCHANGED <<minted, storeVars, queue, apiPending, slotVars, supPc, group,
                 cur, locks, up, cache>>

GroupOf(w, t) == {x \in todo[w] : Url(x) = Url(t)}

(* Probe the next group with the configuration of its first task, then     *)
(* drain it or leave it.  SCAN order is arbitrary, so is "first".          *)
SupProbe(w) ==
  /\ cur[w] = NoTask /\ group[w] = {}
  /\ \E first \in todo[w] :
       LET c == TaskConfig[first]
           g == GroupOf(w, first)
       IN /\ Remember(w, c, Probe(c))
          /\ todo' = [todo EXCEPT ![w] = @ \ g]
          /\ IF up[c]
             THEN group' = [group EXCEPT ![w] = g] /\ UNCHANGED stale
             ELSE stale' = [stale EXCEPT ![w] = @ \ g] /\ UNCHANGED group
  /\ UNCHANGED <<minted, storeVars, queue, apiPending, slotVars, supPc, cur, locks, up>>

(* try_claim_drain: SET NX EX *)
SupSkip(w, t) ==
  /\ cur[w] = NoTask /\ t \in group[w]
  /\ t \in locks
  /\ group' = [group EXCEPT ![w] = @ \ {t}]
  /\ stale' = [stale EXCEPT ![w] = @ \ {t}]
  /\ UNCHANGED <<minted, storeVars, queue, apiPending, slotVars, supPc, todo,
                 cur, locks, up, cache>>

(* Mutant: the claim does not look whether the lock exists *)
SupClaimAnyway(w, t) ==
  /\ cur[w] = NoTask /\ t \in group[w]
  /\ locks' = locks \cup {t}
  /\ cur' = [cur EXCEPT ![w] = t]
  /\ supPc' = [supPc EXCEPT ![w] = "mark"]
  /\ group' = [group EXCEPT ![w] = @ \ {t}]
  /\ stale' = [v \in Workers |->
                 IF v = w THEN stale[v] \ {t}
                 ELSE IF t \in Snap(v) THEN stale[v] \cup {t} ELSE stale[v]]
  /\ UNCHANGED <<minted, storeVars, queue, apiPending, slotVars, todo, up, cache>>

SupClaim(w, t) ==
  /\ cur[w] = NoTask /\ t \in group[w]
  /\ t \notin locks
  /\ locks' = locks \cup {t}
  /\ cur' = [cur EXCEPT ![w] = t]
  /\ supPc' = [supPc EXCEPT ![w] = "mark"]
  /\ group' = [group EXCEPT ![w] = @ \ {t}]
  /\ stale' = [v \in Workers |->
                 IF v = w THEN stale[v] \ {t}
                 ELSE IF t \in Snap(v) THEN stale[v] \cup {t} ELSE stale[v]]
  /\ UNCHANGED <<minted, storeVars, queue, apiPending, slotVars, todo, up, cache>>

SupMark(w) ==
  /\ supPc[w] = "mark"
  /\ SetTask(cur[w], "running")
  /\ supPc' = [supPc EXCEPT ![w] = "kiq"]
  /\ UNCHANGED <<minted, disk, queue, apiPending, slotVars, todo, group, cur,
                 stale, locks, up, cache>>

(* Mutant: the pass goes on without forgetting the task it handled *)
ReleaseDirty(w) == supPc' = [supPc EXCEPT ![w] = "pass"] /\ UNCHANGED cur

Release(w) ==
  /\ supPc' = [supPc EXCEPT ![w] = "pass"]
  /\ cur' = [cur EXCEPT ![w] = NoTask]

SupEnqueueOk(w) ==
  /\ supPc[w] = "kiq"
  /\ Deliver(cur[w])
  /\ Release(w)
  /\ UNCHANGED <<minted, storeVars, apiPending, slotVars, todo, group, stale,
                 locks, up, cache>>

SupEnqueueUnacked(w) ==
  /\ LostReplies
  /\ supPc[w] = "kiq" /\ queue[cur[w]] = 0
  /\ Deliver(cur[w])
  /\ UNCHANGED <<minted, storeVars, apiPending, slotVars, supVars, locks, up, cache>>

(* Mutant: the record is not put back when kiq raises *)
SupEnqueueFailSilent(w) ==
  /\ supPc[w] = "kiq"
  /\ Release(w)
  /\ UNCHANGED <<minted, storeVars, queue, apiPending, slotVars, todo, group, stale,
                 locks, up, cache>>

SupEnqueueFail(w) ==
  /\ supPc[w] = "kiq"
  /\ SetTask(cur[w], "queued_waiting_llm")
  /\ Release(w)
  /\ UNCHANGED <<minted, disk, queue, apiPending, slotVars, todo, group, stale,
                 locks, up, cache>>

-----------------------------------------------------------------------------
(* Time and the environment *)

(* Mutant: the drain lock is set without a TTL *)
LockExpireNever(t) == FALSE /\ UNCHANGED vars

(* 120 s after the claim.  Unless SlowPasses, the claimer is done with the *)
(* task by then, and whoever took its snapshot before the claimer marked   *)
(* the record running has finished its pass.                               *)
LockExpire(t) ==
  /\ t \in locks
  /\ SlowPasses \/ \A w \in Workers : t \notin stale[w] /\ cur[w] # t
  /\ locks' = locks \ {t}
  /\ UNCHANGED <<minted, storeVars, queue, apiPending, slotVars, supVars, up, cache>>

(* Mutant: the age of a probe cache entry is not compared with the limit *)
CacheExpireNever(w, u) == FALSE /\ UNCHANGED vars

(* LLM_HEALTH_PROBE_CACHE_SECONDS have passed *)
CacheExpire(w, u) ==
  /\ cache[w][u] # "unknown"
  /\ cache' = [cache EXCEPT ![w][u] = "unknown"]
  /\ UNCHANGED <<minted, storeVars, queue, apiPending, slotVars, supVars, locks, up>>

(* A handler is between two steps on t.  Each of those writes the record   *)
(* or takes far less than its 24 hours; a message that waits may not.      *)
InHand(t) ==
  \/ t \in apiPending
  \/ \E s \in Slots : slotTask[s] = t /\ slotPc[s] # "received"
  \/ \E w \in Workers : cur[w] = t

RecordExpire(t) ==
  /\ Expiry
  /\ redis[t].status # "absent" /\ ~InHand(t)
  /\ redis' = [redis EXCEPT ![t] = Absent]
  /\ UNCHANGED <<minted, disk, queue, apiPending, slotVars, supVars, locks, up, cache>>

EndpointFlip(c) ==
  /\ up' = [up EXCEPT ![c] = ~@]
  /\ UNCHANGED <<minted, storeVars, queue, apiPending, slotVars, supVars, locks, cache>>

(* A worker process dies and restarts: its slots, its supervisor and its   *)
(* probe cache are gone, what it popped from the list is not put back.     *)
WorkerCrash(w) ==
  /\ Crashes
  /\ slotPc' = [s \in Slots |-> IF SlotWorker[s] = w THEN "idle" ELSE slotPc[s]]
  /\ slotTask' = [s \in Slots |-> IF SlotWorker[s] = w THEN NoTask ELSE slotTask[s]]
  /\ supPc' = [supPc EXCEPT ![w] = "pass"]
  /\ todo' = [todo EXCEPT ![w] = {}]
  /\ group' = [group EXCEPT ![w] = {}]
  /\ cur' = [cur EXCEPT ![w] = NoTask]
  /\ stale' = [stale EXCEPT ![w] = {}]
  /\ cache' = [cache EXCEPT ![w] = [u \in Urls |-> "unknown"]]
  /\ UNCHANGED <<minted, storeVars, queue, apiPending, locks, up>>

ApiCrash ==
  /\ Crashes
  /\ apiPending # {}
  /\ apiPending' = {}
  /\ UNCHANGED <<minted, storeVars, queue, slotVars, supVars, locks, up, cache>>

-----------------------------------------------------------------------------
ApiStep(t) == Submit(t) \/ ApiEnqueueOk(t) \/ ApiEnqueueUnacked(t) \/ ApiEnqueueFail(t)

SlotStep(s) ==
  \/ BeginFound(s) \/ BeginMissing(s)
  \/ GatePass(s) \/ GatePark(s)
  \/ AgentReport(s) \/ AgentRepark(s) \/ AgentError(s)
  \/ Persist(s)

(* What a supervisor does by itself; the broker decides how kiq ends *)
SupStep(w) ==
  \/ SupScan(w) \/ SupProbe(w)
  \/ \E t \in Tasks : SupSkip(w, t) \/ SupClaim(w, t)
  \/ SupMark(w)

SupEnqueue(w) == SupEnqueueOk(w) \/ SupEnqueueUnacked(w) \/ SupEnqueueFail(w)

Environment ==
  \/ \E t \in Tasks : LockExpire(t) \/ RecordExpire(t)
  \/ \E w \in Workers, u \in Urls : CacheExpire(w, u)
  \/ \E c \in Configs : EndpointFlip(c)
  \/ \E w \in Workers : WorkerCrash(w)
  \/ ApiCrash

Next ==
  \/ \E t \in Tasks : ApiStep(t)
  \/ \E s \in Slots, t \in Tasks : Receive(s, t)
  \/ \E s \in Slots : SlotStep(s)
  \/ \E w \in Workers : SupStep(w) \/ SupEnqueue(w)
  \/ Environment

Spec == Init /\ [][Next]_vars

(***************************************************************************)
(* Fairness.  Every await in the handlers has a timeout (the probe 5 s, the *)
(* agent its deadline), so a started handler goes on.  The list is FIFO and *)
(* slots free up, so a queued message is received in the end.  A broker    *)
(* that answers infinitely often accepts the message infinitely often.     *)
(* TTLs run out.                                                           *)
(***************************************************************************)
ApiAnswered(t) == ApiEnqueueOk(t) \/ ApiEnqueueFail(t)
Received(t) == \E s \in Slots : Receive(s, t)
Reenqueued(t) == \E w \in Workers : cur[w] = t /\ SupEnqueueOk(w)

Fairness ==
  /\ \A t \in Tasks :
       /\ WF_vars(ApiAnswered(t)) /\ WF_vars(LockExpire(t))
       /\ SF_vars(Received(t)) /\ SF_vars(Reenqueued(t))
  /\ \A s \in Slots : WF_vars(SlotStep(s))
  /\ \A w \in Workers : WF_vars(SupStep(w)) /\ WF_vars(SupEnqueue(w))
  /\ \A w \in Workers, u \in Urls : WF_vars(CacheExpire(w, u))

FairSpec == Spec /\ Fairness

-----------------------------------------------------------------------------
(* Types.  Every record, list, program counter, snapshot, lock and cache    *)
(* entry keeps its shape.                                                   *)
TypeOK ==
  /\ minted \subseteq Tasks
  /\ redis \in [Tasks -> Records]
  /\ disk \in [Tasks -> Records]
  /\ queue \in [Tasks -> Nat]
  /\ apiPending \subseteq Tasks
  /\ slotPc \in [Slots -> {"idle", "received", "gate", "agent", "persist"}]
  /\ slotTask \in [Slots -> Tasks \cup {NoTask}]
  /\ supPc \in [Workers -> {"pass", "mark", "kiq"}]
  /\ todo \in [Workers -> SUBSET Tasks]
  /\ group \in [Workers -> SUBSET Tasks]
  /\ cur \in [Workers -> Tasks \cup {NoTask}]
  /\ locks \subseteq Tasks
  /\ up \in [Configs -> BOOLEAN]
  /\ cache \in [Workers -> [Urls -> Verdicts]]
  /\ stale \in [Workers -> SUBSET Tasks]
  /\ \A s \in Slots : slotPc[s] = "idle" <=> slotTask[s] = NoTask
  /\ \A w \in Workers : supPc[w] = "pass" <=> cur[w] = NoTask

(* One execution of a task at a time, over all slots of all workers: what  *)
(* try_claim_drain is for (llm_health.py, "else both workers would run the *)
(* same drained task").                                                    *)
SingleFlight ==
  \A s1, s2 \in Slots :
    slotTask[s1] # NoTask /\ slotTask[s1] = slotTask[s2] => s1 = s2

(* A task that a poll could have seen completed or failed never becomes    *)
(* active again: no late park, drain or re-execution of an answered task.  *)
Final(t) == GetTask(t).status \in {"completed", "failed"}

NoResurrection ==
  [][\A t \in Tasks : Final(t) => GetTask(t)'.status \notin ActiveStatuses]_vars

(* The concurrency cap of POST /run holds at all times, parked and drained *)
(* tasks included, not only when a task is admitted.                       *)
ActiveWithinCap == \A n \in Tenants : Cardinality(ActiveOf(n)) <= Cap[n]

(* Once GET /status could answer completed, it always can: the disk copy   *)
(* takes over when the Redis record expires.                               *)
CompletedResolves ==
  [][\A t \in Tasks : GetTask(t).status = "completed" => GetTask(t)'.status = "completed"]_vars

(* The agent never runs on a record that has lost the fields POST /run     *)
(* wrote (tenant_id, query, mode): set_task preserves what is not in the   *)
(* patch.                                                                  *)
OwnedRuns ==
  \A s \in Slots : slotPc[s] = "agent" => GetTask(slotTask[s]).owned

(* Somebody holds every task whose record says running: the API about to   *)
(* enqueue it, a message, a slot or a supervisor.  A running record nobody *)
(* holds keeps its tenant's concurrency slot for 24 hours.                 *)
Held(t) ==
  \/ t \in apiPending \/ queue[t] > 0
  \/ \E s \in Slots : slotTask[s] = t
  \/ \E w \in Workers : cur[w] = t

RunningIsHeld == \A t \in Tasks : redis[t].status = "running" => Held(t)

(* A parked task whose own endpoint answers from some time on is run       *)
(* again: gate, probe cache, drain lock and snapshot cannot starve it.     *)
(* (Or it is answered: an enqueue that did arrive raises and fails it.)    *)
Executing(t) == \E s \in Slots : slotTask[s] = t /\ slotPc[s] = "agent"

ParkedDrains ==
  \A t \in Tasks :
    <>[]up[TaskConfig[t]] =>
      (redis[t].status = "queued_waiting_llm" ~> Executing(t) \/ Final(t))

(* An accepted task whose endpoint answers from some time on ends          *)
(* completed or failed, which gives its concurrency slot back.             *)
AcceptedSettles ==
  \A t \in Tasks : <>[]up[TaskConfig[t]] => (t \in minted ~> Final(t))

(* The promise of TaskLifecycle, with each task's phase read off the       *)
(* record and off who holds the task.                                      *)
PhaseOf(t) ==
  IF t \notin minted THEN "new"
  ELSE CASE GetTask(t).status = "completed" -> "done"
         [] GetTask(t).status = "failed" -> "failed"
         [] GetTask(t).status = "queued_waiting_llm" -> "parked"
         [] GetTask(t).status = "absent" -> "gone"
         [] GetTask(t).status = "running" ->
              IF Executing(t) THEN "executing"
              ELSE IF Held(t) THEN "queued" ELSE "lost"

Lifecycle == INSTANCE TaskLifecycle WITH phase <- [t \in Tasks |-> PhaseOf(t)]

Refines == Lifecycle!Spec
-----------------------------------------------------------------------------
(* The inductive strengthening of SingleFlight and NoResurrection when      *)
(* passes fit the lock and replies are not lost.  A task is held by one     *)
(* party at most, a waiting one only by the supervisor that has claimed it. *)
Unheld(t) == ~Held(t)

SoleHolder ==
  /\ \A t \in Tasks : queue[t] <= 1
  /\ \A t \in apiPending : queue[t] = 0
  /\ \A s \in Slots : slotTask[s] # NoTask =>
       /\ queue[slotTask[s]] = 0 /\ slotTask[s] \notin apiPending
       /\ \A x \in Slots : slotTask[x] = slotTask[s] => x = s
       /\ \A w \in Workers : cur[w] # slotTask[s]
  /\ \A w \in Workers : cur[w] # NoTask =>
       /\ queue[cur[w]] = 0 /\ cur[w] \notin apiPending
       /\ \A v \in Workers : cur[v] = cur[w] => v = w

(* What the record says while each kind of party holds the task *)
HolderStatus ==
  /\ \A t \in apiPending : redis[t].status = "running"
  /\ \A t \in Tasks : queue[t] > 0 => redis[t].status \in {"running", "absent"}
  /\ \A s \in Slots : slotPc[s] = "received" =>
       redis[slotTask[s]].status \in {"running", "absent"}
  /\ \A s \in Slots : slotPc[s] \in {"gate", "agent"} =>
       redis[slotTask[s]].status = "running"
  /\ \A s \in Slots : slotPc[s] = "persist" =>
       redis[slotTask[s]].status = "completed"
  /\ \A w \in Workers : supPc[w] = "mark" =>
       redis[cur[w]].status \in {"queued_waiting_llm", "absent"}
  /\ \A w \in Workers : supPc[w] = "kiq" => redis[cur[w]].status = "running"

(* A fresh snapshot entry is still free to claim; a stale one is locked.    *)
FreshOrLocked ==
  /\ \A w \in Workers : todo[w] \cap group[w] = {}
  /\ \A w \in Workers : stale[w] \subseteq Snap(w) /\ stale[w] \subseteq locks
  /\ \A w \in Workers : cur[w] # NoTask => cur[w] \in locks
  /\ \A w \in Workers : \A t \in Snap(w) \ stale[w] :
       redis[t].status \in {"queued_waiting_llm", "absent"} /\ Unheld(t)

(* A durable copy belongs to a completed task nobody works on any more.     *)
DiskIsFinal ==
  \A t \in Tasks : disk[t].status # "absent" =>
    /\ disk[t].status = "completed"
    /\ redis[t].status \in {"completed", "absent"}
    /\ Unheld(t) /\ \A w \in Workers : t \in Snap(w) => t \in stale[w]

UnmintedIsBlank ==
  \A t \in Tasks \ minted :
    /\ redis[t].status = "absent" /\ disk[t].status = "absent" /\ Unheld(t)
    /\ \A w \in Workers : t \notin Snap(w)

WaitingIsUnheld ==
  \A t \in Waiting :
    /\ t \notin apiPending /\ queue[t] = 0
    /\ \A s \in Slots : slotTask[s] # t
    /\ \A w \in Workers : cur[w] = t => supPc[w] = "mark"

IInv ==
  /\ TypeOK /\ SoleHolder /\ HolderStatus /\ FreshOrLocked
  /\ DiskIsFinal /\ UnmintedIsBlank /\ WaitingIsUnheld

=============================================================================
