------------------------ MODULE ResearchQueueProofs ------------------------
(***************************************************************************)
(* Proofs about ResearchQueue, for every set of tasks, workers, slots and  *)
(* endpoints.  Type correctness needs no assumption on the environment.    *)
(* SingleFlight, NoResurrection, the cap, CompletedResolves and the        *)
(* refinement of TaskLifecycle assume that a drain pass fits the TTL of    *)
(* the drain lock and that kiq raises only when nothing was enqueued: IInv *)
(* then says that a task has one holder at most, and that a snapshot entry *)
(* is either still free or locked.  RunningIsHeld and OwnedRuns do without *)
(* both, and assume no crash or no expiring record instead.                *)
(***************************************************************************)
EXTENDS ResearchQueue, FiniteSetTheorems, TLAPS

(* The initial state is well typed.                                        *)
LEMMA InitType == Init => TypeOK
  BY TasksAssumption DEF Init, TypeOK, Records, Statuses, Absent, Verdicts

(* get_task returns a record, from Redis or from disk.                     *)
LEMMA GetTaskType == TypeOK => \A t \in Tasks : GetTask(t) \in Records
  BY DEF TypeOK, GetTask

(* set_task writes a well-formed record. *)
LEMMA SetTaskType ==
  ASSUME TypeOK, NEW t \in Tasks, NEW status \in Statuses \ {"absent"}, SetTask(t, status)
  PROVE  redis' \in [Tasks -> Records]
<1>1. GetTask(t).owned \in BOOLEAN
  BY GetTaskType DEF Records
<1>2. [status |-> status, owned |-> GetTask(t).owned] \in Records
  BY <1>1 DEF Records
<1> QED
  BY <1>2 DEF TypeOK, SetTask

(* A verdict stored in the probe cache is a verdict.                       *)
LEMMA RememberType ==
  ASSUME TypeOK, NEW w \in Workers, NEW c \in Configs, NEW verdict \in Verdicts,
         Remember(w, c, verdict)
  PROVE  cache' \in [Workers -> [Urls -> Verdicts]]
BY TopologyAssumption DEF TypeOK, Remember

(* POST /run keeps the types.                                              *)
LEMMA ApiType == ASSUME TypeOK, NEW t \in Tasks, ApiStep(t) PROVE TypeOK'
<1> USE TasksAssumption DEF Deliver, storeVars, slotVars, supVars
<1>1. CASE Submit(t)
  BY <1>1 DEF TypeOK, Submit, Records, Statuses
<1>2. CASE ApiEnqueueOk(t)
  BY <1>2 DEF TypeOK, ApiEnqueueOk
<1>3. CASE ApiEnqueueUnacked(t)
  BY <1>3 DEF TypeOK, ApiEnqueueUnacked
<1>4. CASE ApiEnqueueFail(t)
  <2>1. redis' \in [Tasks -> Records]
    BY <1>4, SetTaskType DEF ApiEnqueueFail, Statuses
  <2> QED BY <1>4, <2>1 DEF TypeOK, ApiEnqueueFail
<1> QED BY <1>1, <1>2, <1>3, <1>4 DEF ApiStep

(* execute_research_task keeps the types.                                  *)
LEMMA SlotType == ASSUME TypeOK, NEW s \in Slots, SlotStep(s) PROVE TypeOK'
<1> DEFINE c == TaskConfig[slotTask[s]]
<1> USE TasksAssumption DEF Free, Goto, storeVars, slotVars, supVars
<1>w. slotPc[s] # "idle" =>
        slotTask[s] \in Tasks /\ SlotWorker[s] \in Workers /\ c \in Configs
  BY TopologyAssumption DEF TypeOK
<1>1. CASE BeginFound(s)
  BY <1>1 DEF TypeOK, BeginFound
<1>2. CASE BeginMissing(s)
  <2>1. redis' \in [Tasks -> Records]
    BY <1>2, <1>w, SetTaskType DEF BeginMissing, Statuses
  <2> QED BY <1>2, <2>1, <1>w DEF TypeOK, BeginMissing
<1>3. CASE GatePass(s)
  <2>1. cache' \in [Workers -> [Urls -> Verdicts]]
    BY <1>3, <1>w, RememberType DEF GatePass, Verdicts
  <2> QED BY <1>3, <2>1, <1>w DEF TypeOK, GatePass
<1>4. CASE GatePark(s)
  <2>1. redis' \in [Tasks -> Records]
    BY <1>4, <1>w, SetTaskType DEF GatePark, Statuses
  <2>2. cache' \in [Workers -> [Urls -> Verdicts]]
    BY <1>4, <1>w, RememberType DEF GatePark, Verdicts
  <2> QED BY <1>4, <2>1, <2>2, <1>w DEF TypeOK, GatePark
<1>5. CASE AgentReport(s)
  <2>1. redis' \in [Tasks -> Records]
    BY <1>5, <1>w, SetTaskType DEF AgentReport, Statuses
  <2>2. cache' \in [Workers -> [Urls -> Verdicts]]
    <3>1. CASE UNCHANGED cache BY <3>1 DEF TypeOK
    <3>2. CASE Remember(SlotWorker[s], c, "up")
      BY <3>2, <1>5, <1>w, RememberType DEF AgentReport, Verdicts
    <3> QED BY <1>5, <3>1, <3>2 DEF AgentReport
  <2> QED BY <1>5, <2>1, <2>2, <1>w DEF TypeOK, AgentReport
<1>6. CASE AgentRepark(s)
  <2>1. redis' \in [Tasks -> Records]
    BY <1>6, <1>w, SetTaskType DEF AgentRepark, Statuses
  <2>2. cache' \in [Workers -> [Urls -> Verdicts]]
    BY <1>6, <1>w, RememberType DEF AgentRepark, Verdicts
  <2> QED BY <1>6, <2>1, <2>2, <1>w DEF TypeOK, AgentRepark
<1>7. CASE AgentError(s)
  <2>1. redis' \in [Tasks -> Records]
    BY <1>7, <1>w, SetTaskType DEF AgentError, Statuses
  <2>2. cache' \in [Workers -> [Urls -> Verdicts]]
    BY <1>7, <1>w, RememberType DEF AgentError, Verdicts
  <2> QED BY <1>7, <2>1, <2>2, <1>w DEF TypeOK, AgentError
<1>8. CASE Persist(s)
  BY <1>8, <1>w DEF TypeOK, Persist, Records, Statuses
<1> QED BY <1>1, <1>2, <1>3, <1>4, <1>5, <1>6, <1>7, <1>8, Zenon DEF SlotStep

(* A drain pass keeps the types.                                           *)
LEMMA SupType == ASSUME TypeOK, NEW w \in Workers, SupStep(w) \/ SupEnqueue(w) PROVE TypeOK'
<1> USE TasksAssumption DEF Deliver, Release, storeVars, slotVars, supVars
<1>w. supPc[w] # "pass" => cur[w] \in Tasks
  BY DEF TypeOK
<1>1. CASE SupScan(w)
  BY <1>1 DEF TypeOK, SupScan, Waiting
<1>2. CASE SupProbe(w)
  <2>1. PICK first \in todo[w] :
          LET c == TaskConfig[first]
              g == GroupOf(w, first)
          IN /\ Remember(w, c, Probe(c))
             /\ todo' = [todo EXCEPT ![w] = @ \ g]
             /\ IF up[c]
                THEN group' = [group EXCEPT ![w] = g] /\ UNCHANGED stale
                ELSE stale' = [stale EXCEPT ![w] = @ \ g] /\ UNCHANGED group
    BY <1>2 DEF SupProbe
  <2>2. TaskConfig[first] \in Configs
    BY TopologyAssumption DEF TypeOK
  <2>3. cache' \in [Workers -> [Urls -> Verdicts]]
    BY <2>1, <2>2, RememberType DEF Probe, Verdicts
  <2>4. /\ todo' \in [Workers -> SUBSET Tasks]
        /\ group' \in [Workers -> SUBSET Tasks]
        /\ stale' \in [Workers -> SUBSET Tasks]
    <3>1. CASE up[TaskConfig[first]] BY <2>1, <3>1 DEF TypeOK, GroupOf
    <3>2. CASE ~up[TaskConfig[first]] BY <2>1, <3>2 DEF TypeOK, GroupOf
    <3> QED BY <3>1, <3>2
  <2> QED BY <1>2, <2>3, <2>4 DEF TypeOK, SupProbe
<1>3. ASSUME NEW t \in Tasks, SupSkip(w, t) PROVE TypeOK'
  BY <1>3 DEF TypeOK, SupSkip
<1>4. ASSUME NEW t \in Tasks, SupClaim(w, t) PROVE TypeOK'
  BY <1>4 DEF TypeOK, SupClaim
<1>5. CASE SupMark(w)
  <2>1. redis' \in [Tasks -> Records]
    BY <1>5, <1>w, SetTaskType DEF SupMark, Statuses
  <2> QED BY <1>5, <2>1, <1>w DEF TypeOK, SupMark
<1>6. CASE SupEnqueueOk(w)
  BY <1>6, <1>w DEF TypeOK, SupEnqueueOk
<1>7. CASE SupEnqueueUnacked(w)
  BY <1>7, <1>w DEF TypeOK, SupEnqueueUnacked
<1>8. CASE SupEnqueueFail(w)
  <2>1. redis' \in [Tasks -> Records]
    BY <1>8, <1>w, SetTaskType DEF SupEnqueueFail, Statuses
  <2> QED BY <1>8, <2>1, <1>w DEF TypeOK, SupEnqueueFail
<1> QED BY <1>1, <1>2, <1>3, <1>4, <1>5, <1>6, <1>7, <1>8 DEF SupStep, SupEnqueue

(* TTLs, endpoints and crashes keep the types.                             *)
LEMMA EnvironmentType == ASSUME TypeOK, Environment PROVE TypeOK'
<1> USE TasksAssumption DEF storeVars, slotVars, supVars
<1>1. ASSUME NEW t \in Tasks, LockExpire(t) PROVE TypeOK'
  BY <1>1 DEF TypeOK, LockExpire
<1>2. ASSUME NEW t \in Tasks, RecordExpire(t) PROVE TypeOK'
  <2>1. Absent \in Records
    BY DEF Absent, Records, Statuses
  <2> QED BY <1>2, <2>1 DEF TypeOK, RecordExpire
<1>3. ASSUME NEW w \in Workers, NEW u \in Urls, CacheExpire(w, u) PROVE TypeOK'
  BY <1>3 DEF TypeOK, CacheExpire, Verdicts
<1>4. ASSUME NEW c \in Configs, EndpointFlip(c) PROVE TypeOK'
  BY <1>4 DEF TypeOK, EndpointFlip
<1>5. ASSUME NEW w \in Workers, WorkerCrash(w) PROVE TypeOK'
  BY <1>5 DEF TypeOK, WorkerCrash, Verdicts
<1>6. CASE ApiCrash
  BY <1>6 DEF TypeOK, ApiCrash
<1> QED BY <1>1, <1>2, <1>3, <1>4, <1>5, <1>6 DEF Environment

(* Every step keeps the types.                                             *)
LEMMA StepType == ASSUME TypeOK, [Next]_vars PROVE TypeOK'
<1>1. ASSUME NEW s \in Slots, NEW t \in Tasks, Receive(s, t) PROVE TypeOK'
  BY <1>1, TasksAssumption DEF TypeOK, Receive, storeVars, supVars
<1>2. CASE UNCHANGED vars
  BY <1>2 DEF TypeOK, vars
<1> QED BY <1>1, <1>2, ApiType, SlotType, SupType, EnvironmentType DEF Next

(* Records, counters, program counters, snapshots and caches keep their    *)
(* shape whatever the environment does.                                    *)
THEOREM TypeCorrect == Spec => []TypeOK
  BY InitType, StepType, PTL DEF Spec

(* What IInv says does not depend on endpoints and probe caches. *)
LEMMA QuietInv ==
  ASSUME IInv, TypeOK',
         UNCHANGED <<minted, storeVars, queue, apiPending, slotVars, supVars, locks>>
  PROVE  IInv'
<1> USE DEF storeVars, slotVars, supVars
<1>1. \A t \in Tasks : Unheld(t)' <=> Unheld(t)
  BY DEF Unheld, Held
<1>2. SoleHolder' /\ HolderStatus'
  BY DEF IInv, SoleHolder, HolderStatus
<1>3. FreshOrLocked' /\ DiskIsFinal' /\ UnmintedIsBlank'
  BY <1>1 DEF IInv, TypeOK, FreshOrLocked, DiskIsFinal, UnmintedIsBlank, Snap
<1>4. WaitingIsUnheld'
  BY DEF IInv, WaitingIsUnheld, Waiting
<1> QED BY <1>2, <1>3, <1>4 DEF IInv

(* POST /run and its enqueue *)
LEMMA ApiInv ==
  ASSUME IInv, TypeOK', ~SlowPasses, ~LostReplies, NEW t \in Tasks, ApiStep(t)
  PROVE  IInv'
<1> USE TasksAssumption DEF IInv
<1>1. CASE Submit(t)
  <2>1. SoleHolder'
    BY <1>1 DEF TypeOK, SoleHolder, UnmintedIsBlank, slotVars, supVars, Snap, Unheld,
      Held, Submit
  <2>2. HolderStatus'
    BY <1>1 DEF TypeOK, HolderStatus, UnmintedIsBlank, slotVars, supVars, Snap, Unheld,
      Held, Submit
  <2>3. FreshOrLocked'
    BY <1>1 DEF FreshOrLocked, UnmintedIsBlank, slotVars, supVars, Snap, Unheld, Held,
      Submit
  <2>4. DiskIsFinal'
    BY <1>1 DEF DiskIsFinal, UnmintedIsBlank, slotVars, supVars, Snap, Unheld, Held,
      Submit
  <2>5. UnmintedIsBlank'
    BY <1>1 DEF UnmintedIsBlank, slotVars, supVars, Snap, Unheld, Held, Submit
  <2>6. WaitingIsUnheld'
    BY <1>1 DEF TypeOK, WaitingIsUnheld, slotVars, supVars, Waiting, Submit
  <2> QED BY <2>1, <2>2, <2>3, <2>4, <2>5, <2>6
<1>2. CASE ApiEnqueueOk(t)
  <2>1. SoleHolder'
    BY <1>2 DEF SoleHolder, storeVars, slotVars, supVars, Deliver, ApiEnqueueOk
  <2>2. HolderStatus'
    BY <1>2 DEF HolderStatus, storeVars, slotVars, supVars, Deliver, ApiEnqueueOk
  <2>3. FreshOrLocked'
    BY <1>2 DEF FreshOrLocked, storeVars, slotVars, supVars, Deliver, Snap, Unheld, Held,
      ApiEnqueueOk
  <2>4. DiskIsFinal'
    BY <1>2 DEF DiskIsFinal, storeVars, slotVars, supVars, Deliver, Snap, Unheld, Held,
      ApiEnqueueOk
  <2>5. UnmintedIsBlank'
    BY <1>2 DEF UnmintedIsBlank, storeVars, slotVars, supVars, Deliver, Snap, Unheld,
      Held, ApiEnqueueOk
  <2>6. WaitingIsUnheld'
    BY <1>2 DEF WaitingIsUnheld, storeVars, slotVars, supVars, Deliver, Waiting,
      ApiEnqueueOk
  <2> QED BY <2>1, <2>2, <2>3, <2>4, <2>5, <2>6
<1>3. CASE ApiEnqueueFail(t)
  <2>1. SoleHolder'
    BY <1>3 DEF SoleHolder, slotVars, supVars, SetTask, GetTask, ApiEnqueueFail
  <2>2. HolderStatus'
    BY <1>3 DEF SoleHolder, HolderStatus, slotVars, supVars, SetTask, GetTask,
      ApiEnqueueFail
  <2>3. FreshOrLocked'
    BY <1>3 DEF FreshOrLocked, slotVars, supVars, SetTask, GetTask, Snap, Unheld, Held,
      ApiEnqueueFail
  <2>4. DiskIsFinal'
    BY <1>3 DEF DiskIsFinal, slotVars, supVars, SetTask, GetTask, Snap, Unheld, Held,
      ApiEnqueueFail
  <2>5. UnmintedIsBlank'
    BY <1>3 DEF UnmintedIsBlank, slotVars, supVars, SetTask, GetTask, Snap, Unheld, Held,
      ApiEnqueueFail
  <2>6. WaitingIsUnheld'
    BY <1>3 DEF WaitingIsUnheld, slotVars, supVars, SetTask, GetTask, Waiting,
      ApiEnqueueFail
  <2> QED BY <2>1, <2>2, <2>3, <2>4, <2>5, <2>6
<1> QED BY <1>1, <1>2, <1>3 DEF ApiStep, ApiEnqueueUnacked

(* execute_research_task *)
LEMMA SlotInv ==
  ASSUME IInv, TypeOK', ~SlowPasses, ~LostReplies, NEW s \in Slots, SlotStep(s)
  PROVE  IInv'
<1> USE TasksAssumption DEF IInv
<1>1. CASE BeginFound(s)
  <2>1. SoleHolder'
    BY <1>1 DEF SoleHolder, storeVars, supVars, Goto, GetTask, BeginFound
  <2>2. HolderStatus'
    BY <1>1 DEF TypeOK, SoleHolder, HolderStatus, DiskIsFinal, storeVars, supVars, Goto,
      GetTask, Snap, Unheld, Held, BeginFound
  <2>3. FreshOrLocked'
    BY <1>1 DEF FreshOrLocked, storeVars, supVars, Goto, GetTask, Snap, Unheld, Held,
      BeginFound
  <2>4. DiskIsFinal'
    BY <1>1 DEF DiskIsFinal, storeVars, supVars, Goto, GetTask, Snap, Unheld, Held,
      BeginFound
  <2>5. UnmintedIsBlank'
    BY <1>1 DEF UnmintedIsBlank, storeVars, supVars, Goto, GetTask, Snap, Unheld, Held,
      BeginFound
  <2>6. WaitingIsUnheld'
    BY <1>1 DEF WaitingIsUnheld, storeVars, supVars, Goto, GetTask, Waiting, BeginFound
  <2> QED BY <2>1, <2>2, <2>3, <2>4, <2>5, <2>6
<1>2. CASE BeginMissing(s)
  <2>1. SoleHolder'
    BY <1>2 DEF SoleHolder, supVars, Free, SetTask, GetTask, BeginMissing
  <2>2. HolderStatus'
    BY <1>2 DEF TypeOK, SoleHolder, HolderStatus, supVars, Free, SetTask, GetTask,
      BeginMissing
  <2>3. FreshOrLocked'
    BY <1>2 DEF TypeOK, FreshOrLocked, supVars, Free, SetTask, GetTask, Snap, Unheld,
      Held, BeginMissing
  <2>4. DiskIsFinal'
    BY <1>2 DEF DiskIsFinal, supVars, Free, SetTask, GetTask, Snap, Unheld, Held,
      BeginMissing
  <2>5. UnmintedIsBlank'
    BY <1>2 DEF UnmintedIsBlank, supVars, Free, SetTask, GetTask, Snap, Unheld, Held,
      BeginMissing
  <2>6. WaitingIsUnheld'
    BY <1>2 DEF WaitingIsUnheld, supVars, Free, SetTask, GetTask, Waiting, BeginMissing
  <2> QED BY <2>1, <2>2, <2>3, <2>4, <2>5, <2>6
<1>3. CASE GatePass(s)
  <2>1. SoleHolder'
    BY <1>3 DEF SoleHolder, storeVars, supVars, Goto, GatePass
  <2>2. HolderStatus'
    BY <1>3 DEF HolderStatus, storeVars, supVars, Goto, GatePass
  <2>3. FreshOrLocked'
    BY <1>3 DEF FreshOrLocked, storeVars, supVars, Goto, Snap, Unheld, Held, GatePass
  <2>4. DiskIsFinal'
    BY <1>3 DEF TypeOK, DiskIsFinal, storeVars, supVars, Goto, Snap, Unheld, Held,
      GatePass
  <2>5. UnmintedIsBlank'
    BY <1>3 DEF UnmintedIsBlank, storeVars, supVars, Goto, Snap, Unheld, Held, GatePass
  <2>6. WaitingIsUnheld'
    BY <1>3 DEF WaitingIsUnheld, storeVars, supVars, Goto, Waiting, GatePass
  <2> QED BY <2>1, <2>2, <2>3, <2>4, <2>5, <2>6
<1>4. CASE GatePark(s)
  <2>1. SoleHolder'
    BY <1>4 DEF SoleHolder, supVars, Free, SetTask, GetTask, GatePark
  <2>2. HolderStatus'
    BY <1>4 DEF TypeOK, SoleHolder, HolderStatus, supVars, Free, SetTask, GetTask,
      GatePark
  <2>3. FreshOrLocked'
    BY <1>4 DEF TypeOK, FreshOrLocked, supVars, Free, SetTask, GetTask, Snap, Unheld,
      Held, GatePark
  <2>4. DiskIsFinal'
    BY <1>4 DEF DiskIsFinal, supVars, Free, SetTask, GetTask, Snap, Unheld, Held, GatePark
  <2>5. UnmintedIsBlank'
    BY <1>4 DEF UnmintedIsBlank, supVars, Free, SetTask, GetTask, Snap, Unheld, Held,
      GatePark
  <2>6. WaitingIsUnheld'
    BY <1>4 DEF TypeOK, SoleHolder, WaitingIsUnheld, supVars, Free, SetTask, GetTask,
      Waiting, GatePark
  <2> QED BY <2>1, <2>2, <2>3, <2>4, <2>5, <2>6
<1>5. CASE AgentReport(s)
  <2>1. SoleHolder'
    BY <1>5 DEF SoleHolder, supVars, Goto, SetTask, GetTask, AgentReport
  <2>2. HolderStatus'
    BY <1>5 DEF TypeOK, SoleHolder, HolderStatus, supVars, Goto, SetTask, GetTask,
      AgentReport
  <2>3. FreshOrLocked'
    BY <1>5 DEF FreshOrLocked, supVars, Goto, SetTask, GetTask, Snap, Unheld, Held,
      AgentReport
  <2>4. DiskIsFinal'
    BY <1>5 DEF DiskIsFinal, supVars, Goto, SetTask, GetTask, Snap, Unheld, Held,
      AgentReport
  <2>5. UnmintedIsBlank'
    BY <1>5 DEF UnmintedIsBlank, supVars, Goto, SetTask, GetTask, Snap, Unheld, Held,
      AgentReport
  <2>6. WaitingIsUnheld'
    BY <1>5 DEF WaitingIsUnheld, supVars, Goto, SetTask, GetTask, Waiting, AgentReport
  <2> QED BY <2>1, <2>2, <2>3, <2>4, <2>5, <2>6
<1>6. CASE AgentRepark(s)
  <2>1. SoleHolder'
    BY <1>6 DEF SoleHolder, supVars, Free, SetTask, GetTask, AgentRepark
  <2>2. HolderStatus'
    BY <1>6 DEF TypeOK, SoleHolder, HolderStatus, supVars, Free, SetTask, GetTask,
      AgentRepark
  <2>3. FreshOrLocked'
    BY <1>6 DEF TypeOK, FreshOrLocked, supVars, Free, SetTask, GetTask, Snap, Unheld,
      Held, AgentRepark
  <2>4. DiskIsFinal'
    BY <1>6 DEF DiskIsFinal, supVars, Free, SetTask, GetTask, Snap, Unheld, Held,
      AgentRepark
  <2>5. UnmintedIsBlank'
    BY <1>6 DEF UnmintedIsBlank, supVars, Free, SetTask, GetTask, Snap, Unheld, Held,
      AgentRepark
  <2>6. WaitingIsUnheld'
    BY <1>6 DEF TypeOK, SoleHolder, WaitingIsUnheld, supVars, Free, SetTask, GetTask,
      Waiting, AgentRepark
  <2> QED BY <2>1, <2>2, <2>3, <2>4, <2>5, <2>6
<1>7. CASE AgentError(s)
  <2>1. SoleHolder'
    BY <1>7 DEF SoleHolder, supVars, Free, SetTask, GetTask, AgentError
  <2>2. HolderStatus'
    BY <1>7 DEF TypeOK, SoleHolder, HolderStatus, supVars, Free, SetTask, GetTask,
      AgentError
  <2>3. FreshOrLocked'
    BY <1>7 DEF TypeOK, FreshOrLocked, supVars, Free, SetTask, GetTask, Snap, Unheld,
      Held, AgentError
  <2>4. DiskIsFinal'
    BY <1>7 DEF DiskIsFinal, supVars, Free, SetTask, GetTask, Snap, Unheld, Held,
      AgentError
  <2>5. UnmintedIsBlank'
    BY <1>7 DEF UnmintedIsBlank, supVars, Free, SetTask, GetTask, Snap, Unheld, Held,
      AgentError
  <2>6. WaitingIsUnheld'
    BY <1>7 DEF WaitingIsUnheld, supVars, Free, SetTask, GetTask, Waiting, AgentError
  <2> QED BY <2>1, <2>2, <2>3, <2>4, <2>5, <2>6
<1>8. CASE Persist(s)
  <2>1. SoleHolder'
    BY <1>8 DEF SoleHolder, supVars, Free, Snap, Persist
  <2>2. HolderStatus'
    BY <1>8 DEF TypeOK, HolderStatus, supVars, Free, Snap, Persist
  <2>3. FreshOrLocked'
    BY <1>8 DEF TypeOK, FreshOrLocked, supVars, Free, Snap, Unheld, Held, Persist
  <2>4. DiskIsFinal'
    BY <1>8 DEF TypeOK, SoleHolder, HolderStatus, FreshOrLocked, DiskIsFinal, supVars,
      Free, Snap, Unheld, Held, Persist
  <2>5. UnmintedIsBlank'
    BY <1>8 DEF UnmintedIsBlank, supVars, Free, Snap, Unheld, Held, Persist
  <2>6. WaitingIsUnheld'
    BY <1>8 DEF WaitingIsUnheld, supVars, Free, Snap, Waiting, Persist
  <2> QED BY <2>1, <2>2, <2>3, <2>4, <2>5, <2>6
<1> QED BY <1>1, <1>2, <1>3, <1>4, <1>5, <1>6, <1>7, <1>8, Zenon DEF SlotStep

(* A drain pass *)
LEMMA SupInv ==
  ASSUME IInv, TypeOK', ~SlowPasses, ~LostReplies, NEW w \in Workers, SupStep(w) \/ SupEnqueue(w)
  PROVE  IInv'
<1> USE TasksAssumption DEF IInv
<1>1. CASE SupScan(w)
  <2>1. SoleHolder'
    BY <1>1 DEF SoleHolder, storeVars, slotVars, Snap, Waiting, Resting, SupScan
  <2>2. HolderStatus'
    BY <1>1 DEF HolderStatus, storeVars, slotVars, Snap, Waiting, Resting, SupScan
  <2>3. FreshOrLocked'
    <3> DEFINE claimed == {t \in Waiting : \E v \in Workers : cur[v] = t}
    <3>1. /\ todo' = [todo EXCEPT ![w] = Waiting] /\ todo[w] = {} /\ group[w] = {}
          /\ stale' = [stale EXCEPT ![w] = claimed]
          /\ UNCHANGED <<group, cur, locks, redis, queue, apiPending, slotTask>>
      BY <1>1 DEF SupScan, Resting, Snap, storeVars, slotVars
    <3>2. claimed \subseteq Waiting /\ claimed \subseteq locks
      BY TasksAssumption DEF FreshOrLocked, Waiting
    <3>3. \A t \in Waiting \ claimed : Unheld(t)
      BY DEF WaitingIsUnheld, Unheld, Held, TypeOK, Waiting
    <3>4. \A t \in Tasks : Unheld(t)' <=> Unheld(t)
      BY <3>1 DEF Unheld, Held
    <3>5. ASSUME NEW v \in Workers
          PROVE  /\ todo'[v] \cap group'[v] = {}
                 /\ stale'[v] \subseteq todo'[v] \cup group'[v] /\ stale'[v] \subseteq locks'
                 /\ \A t \in (todo'[v] \cup group'[v]) \ stale'[v] :
                      redis'[t].status \in {"queued_waiting_llm", "absent"} /\ Unheld(t)'
      <4>1. CASE v = w
        BY <4>1, <3>1, <3>2, <3>3, <3>4 DEF TypeOK, Waiting
      <4>2. CASE v # w
        BY <4>2, <3>1, <3>4 DEF TypeOK, FreshOrLocked, Snap
      <4> QED BY <4>1, <4>2
    <3> QED BY <3>1, <3>5 DEF FreshOrLocked, Snap
  <2>4. DiskIsFinal'
    BY <1>1 DEF DiskIsFinal, storeVars, slotVars, Snap, Unheld, Held, Waiting, Resting,
      SupScan
  <2>5. UnmintedIsBlank'
    BY <1>1 DEF UnmintedIsBlank, storeVars, slotVars, Snap, Unheld, Held, Waiting,
      Resting, SupScan
  <2>6. WaitingIsUnheld'
    BY <1>1 DEF WaitingIsUnheld, storeVars, slotVars, Snap, Waiting, Resting, SupScan
  <2> QED BY <2>1, <2>2, <2>3, <2>4, <2>5, <2>6
<1>2. CASE SupProbe(w)
  <2>1. SoleHolder'
    BY <1>2 DEF SoleHolder, storeVars, slotVars, GroupOf, SupProbe
  <2>2. HolderStatus'
    BY <1>2 DEF HolderStatus, storeVars, slotVars, GroupOf, SupProbe
  <2>3. FreshOrLocked'
    BY <1>2 DEF TypeOK, FreshOrLocked, storeVars, slotVars, Snap, Unheld, Held, GroupOf,
      SupProbe
  <2>4. DiskIsFinal'
    BY <1>2 DEF TypeOK, DiskIsFinal, storeVars, slotVars, Snap, Unheld, Held, GroupOf,
      SupProbe
  <2>5. UnmintedIsBlank'
    BY <1>2 DEF TypeOK, UnmintedIsBlank, storeVars, slotVars, Snap, Unheld, Held,
      GroupOf, SupProbe
  <2>6. WaitingIsUnheld'
    BY <1>2 DEF WaitingIsUnheld, storeVars, slotVars, Waiting, GroupOf, SupProbe
  <2> QED BY <2>1, <2>2, <2>3, <2>4, <2>5, <2>6
<1>3. ASSUME NEW t \in Tasks, SupSkip(w, t) PROVE IInv'
  <2>1. SoleHolder'
    BY <1>3 DEF SoleHolder, storeVars, slotVars, SupSkip
  <2>2. HolderStatus'
    BY <1>3 DEF HolderStatus, storeVars, slotVars, SupSkip
  <2>3. FreshOrLocked'
    BY <1>3 DEF TypeOK, FreshOrLocked, storeVars, slotVars, Snap, Unheld, Held, SupSkip
  <2>4. DiskIsFinal'
    BY <1>3 DEF TypeOK, FreshOrLocked, DiskIsFinal, storeVars, slotVars, Snap, Unheld,
      Held, SupSkip
  <2>5. UnmintedIsBlank'
    BY <1>3 DEF UnmintedIsBlank, storeVars, slotVars, Snap, Unheld, Held, SupSkip
  <2>6. WaitingIsUnheld'
    BY <1>3 DEF WaitingIsUnheld, storeVars, slotVars, Waiting, SupSkip
  <2> QED BY <2>1, <2>2, <2>3, <2>4, <2>5, <2>6
<1>4. ASSUME NEW t \in Tasks, SupClaim(w, t) PROVE IInv'
  <2>1. SoleHolder'
    BY <1>4 DEF TypeOK, SoleHolder, FreshOrLocked, storeVars, slotVars, Snap, Unheld,
      Held, SupClaim
  <2>2. HolderStatus'
    BY <1>4 DEF TypeOK, SoleHolder, HolderStatus, FreshOrLocked, storeVars, slotVars,
      Snap, Unheld, Held, SupClaim
  <2>3. FreshOrLocked'
    BY <1>4 DEF TypeOK, FreshOrLocked, storeVars, slotVars, Snap, Unheld, Held, SupClaim
  <2>4. DiskIsFinal'
    BY <1>4 DEF FreshOrLocked, DiskIsFinal, storeVars, slotVars, Snap, Unheld, Held,
      SupClaim
  <2>5. UnmintedIsBlank'
    BY <1>4 DEF UnmintedIsBlank, storeVars, slotVars, Snap, Unheld, Held, SupClaim
  <2>6. WaitingIsUnheld'
    BY <1>4 DEF TypeOK, WaitingIsUnheld, storeVars, slotVars, Snap, Waiting, SupClaim
  <2> QED BY <2>1, <2>2, <2>3, <2>4, <2>5, <2>6
<1>5. CASE SupMark(w)
  <2>1. SoleHolder'
    BY <1>5 DEF SoleHolder, slotVars, SetTask, GetTask, SupMark
  <2>2. HolderStatus'
    BY <1>5 DEF TypeOK, SoleHolder, HolderStatus, slotVars, SetTask, GetTask, SupMark
  <2>3. FreshOrLocked'
    BY <1>5 DEF FreshOrLocked, slotVars, SetTask, GetTask, Snap, Unheld, Held, SupMark
  <2>4. DiskIsFinal'
    BY <1>5 DEF DiskIsFinal, slotVars, SetTask, GetTask, Snap, Unheld, Held, SupMark
  <2>5. UnmintedIsBlank'
    BY <1>5 DEF UnmintedIsBlank, slotVars, SetTask, GetTask, Snap, Unheld, Held, SupMark
  <2>6. WaitingIsUnheld'
    BY <1>5 DEF TypeOK, WaitingIsUnheld, slotVars, SetTask, GetTask, Waiting, SupMark
  <2> QED BY <2>1, <2>2, <2>3, <2>4, <2>5, <2>6
<1>6. CASE SupEnqueueOk(w)
  <2>1. SoleHolder'
    BY <1>6 DEF TypeOK, SoleHolder, storeVars, slotVars, Release, Deliver, SupEnqueueOk
  <2>2. HolderStatus'
    BY <1>6 DEF TypeOK, HolderStatus, storeVars, slotVars, Release, Deliver, SupEnqueueOk
  <2>3. FreshOrLocked'
    BY <1>6 DEF TypeOK, SoleHolder, FreshOrLocked, storeVars, slotVars, Release, Deliver,
      Snap, Unheld, Held, SupEnqueueOk
  <2>4. DiskIsFinal'
    BY <1>6 DEF DiskIsFinal, storeVars, slotVars, Release, Deliver, Snap, Unheld, Held,
      SupEnqueueOk
  <2>5. UnmintedIsBlank'
    BY <1>6 DEF UnmintedIsBlank, storeVars, slotVars, Release, Deliver, Snap, Unheld,
      Held, SupEnqueueOk
  <2>6. WaitingIsUnheld'
    BY <1>6 DEF WaitingIsUnheld, storeVars, slotVars, Release, Deliver, Waiting,
      SupEnqueueOk
  <2> QED BY <2>1, <2>2, <2>3, <2>4, <2>5, <2>6
<1>7. CASE SupEnqueueFail(w)
  <2>1. SoleHolder'
    BY <1>7 DEF SoleHolder, slotVars, Release, SetTask, GetTask, SupEnqueueFail
  <2>2. HolderStatus'
    BY <1>7 DEF TypeOK, SoleHolder, HolderStatus, slotVars, Release, SetTask, GetTask,
      SupEnqueueFail
  <2>3. FreshOrLocked'
    BY <1>7 DEF TypeOK, FreshOrLocked, slotVars, Release, SetTask, GetTask, Snap, Unheld,
      Held, SupEnqueueFail
  <2>4. DiskIsFinal'
    BY <1>7 DEF DiskIsFinal, slotVars, Release, SetTask, GetTask, Snap, Unheld, Held,
      SupEnqueueFail
  <2>5. UnmintedIsBlank'
    BY <1>7 DEF UnmintedIsBlank, slotVars, Release, SetTask, GetTask, Snap, Unheld, Held,
      SupEnqueueFail
  <2>6. WaitingIsUnheld'
    BY <1>7 DEF TypeOK, SoleHolder, HolderStatus, WaitingIsUnheld, slotVars, Release,
      SetTask, GetTask, Waiting, SupEnqueueFail
  <2> QED BY <2>1, <2>2, <2>3, <2>4, <2>5, <2>6
<1> QED BY <1>1, <1>2, <1>3, <1>4, <1>5, <1>6, <1>7 DEF SupStep, SupEnqueue, SupEnqueueUnacked

(* TTLs, expiry and crashes *)
LEMMA EnvironmentInv ==
  ASSUME IInv, TypeOK', ~SlowPasses, ~LostReplies, Environment
  PROVE  IInv'
<1> USE TasksAssumption DEF IInv
<1>1. ASSUME NEW t \in Tasks, LockExpire(t) PROVE IInv'
  <2>1. SoleHolder'
    BY <1>1 DEF SoleHolder, storeVars, slotVars, supVars, LockExpire
  <2>2. HolderStatus'
    BY <1>1 DEF HolderStatus, storeVars, slotVars, supVars, LockExpire
  <2>3. FreshOrLocked'
    BY <1>1 DEF FreshOrLocked, storeVars, slotVars, supVars, Snap, Unheld, Held,
      LockExpire
  <2>4. DiskIsFinal'
    BY <1>1 DEF DiskIsFinal, storeVars, slotVars, supVars, Snap, Unheld, Held, LockExpire
  <2>5. UnmintedIsBlank'
    BY <1>1 DEF UnmintedIsBlank, storeVars, slotVars, supVars, Snap, Unheld, Held,
      LockExpire
  <2>6. WaitingIsUnheld'
    BY <1>1 DEF WaitingIsUnheld, storeVars, slotVars, supVars, Waiting, LockExpire
  <2> QED BY <2>1, <2>2, <2>3, <2>4, <2>5, <2>6
<1>2. ASSUME NEW t \in Tasks, RecordExpire(t) PROVE IInv'
  <2>1. SoleHolder'
    BY <1>2 DEF SoleHolder, slotVars, supVars, Absent, InHand, RecordExpire
  <2>2. HolderStatus'
    BY <1>2 DEF HolderStatus, slotVars, supVars, Absent, InHand, RecordExpire
  <2>3. FreshOrLocked'
    BY <1>2 DEF FreshOrLocked, slotVars, supVars, Absent, Snap, Unheld, Held, InHand,
      RecordExpire
  <2>4. DiskIsFinal'
    BY <1>2 DEF DiskIsFinal, slotVars, supVars, Absent, Snap, Unheld, Held, InHand,
      RecordExpire
  <2>5. UnmintedIsBlank'
    BY <1>2 DEF UnmintedIsBlank, slotVars, supVars, Absent, Snap, Unheld, Held, InHand,
      RecordExpire
  <2>6. WaitingIsUnheld'
    BY <1>2 DEF WaitingIsUnheld, slotVars, supVars, Absent, Waiting, InHand, RecordExpire
  <2> QED BY <2>1, <2>2, <2>3, <2>4, <2>5, <2>6
<1>3. ASSUME NEW w \in Workers, WorkerCrash(w) PROVE IInv'
  <2>1. SoleHolder'
    BY <1>3 DEF SoleHolder, storeVars, WorkerCrash
  <2>2. HolderStatus'
    BY <1>3 DEF TypeOK, HolderStatus, storeVars, WorkerCrash
  <2>3. FreshOrLocked'
    BY <1>3 DEF TypeOK, FreshOrLocked, storeVars, Snap, Unheld, Held, WorkerCrash
  <2>4. DiskIsFinal'
    BY <1>3 DEF TypeOK, DiskIsFinal, storeVars, Snap, Unheld, Held, WorkerCrash
  <2>5. UnmintedIsBlank'
    BY <1>3 DEF UnmintedIsBlank, storeVars, Snap, Unheld, Held, WorkerCrash
  <2>6. WaitingIsUnheld'
    BY <1>3 DEF TypeOK, WaitingIsUnheld, storeVars, Waiting, WorkerCrash
  <2> QED BY <2>1, <2>2, <2>3, <2>4, <2>5, <2>6
<1>4. CASE ApiCrash
  <2>1. SoleHolder'
    BY <1>4 DEF SoleHolder, storeVars, slotVars, supVars, ApiCrash
  <2>2. HolderStatus'
    BY <1>4 DEF HolderStatus, storeVars, slotVars, supVars, ApiCrash
  <2>3. FreshOrLocked'
    BY <1>4 DEF FreshOrLocked, storeVars, slotVars, supVars, Snap, Unheld, Held, ApiCrash
  <2>4. DiskIsFinal'
    BY <1>4 DEF DiskIsFinal, storeVars, slotVars, supVars, Snap, Unheld, Held, ApiCrash
  <2>5. UnmintedIsBlank'
    BY <1>4 DEF UnmintedIsBlank, storeVars, slotVars, supVars, Snap, Unheld, Held,
      ApiCrash
  <2>6. WaitingIsUnheld'
    BY <1>4 DEF WaitingIsUnheld, storeVars, slotVars, supVars, Waiting, ApiCrash
  <2> QED BY <2>1, <2>2, <2>3, <2>4, <2>5, <2>6
<1>5. ASSUME \/ \E w \in Workers, u \in Urls : CacheExpire(w, u)
            \/ \E c \in Configs : EndpointFlip(c)
       PROVE IInv'
  BY <1>5, QuietInv DEF CacheExpire, EndpointFlip
<1> QED BY <1>1, <1>2, <1>3, <1>4, <1>5 DEF Environment

(* A slot takes a message off the list *)
LEMMA ReceiveInv ==
  ASSUME IInv, TypeOK', NEW s \in Slots, NEW t \in Tasks, Receive(s, t)
  PROVE  IInv'
<1> USE TasksAssumption DEF IInv
<1>1. SoleHolder'
  BY DEF TypeOK, SoleHolder, storeVars, supVars, Receive
<1>2. HolderStatus'
  BY DEF TypeOK, HolderStatus, storeVars, supVars, Receive
<1>3. FreshOrLocked'
  BY DEF FreshOrLocked, storeVars, supVars, Snap, Unheld, Held, Receive
<1>4. DiskIsFinal'
  BY DEF DiskIsFinal, storeVars, supVars, Snap, Unheld, Held, Receive
<1>5. UnmintedIsBlank'
  BY DEF UnmintedIsBlank, storeVars, supVars, Snap, Unheld, Held, Receive
<1>6. WaitingIsUnheld'
  BY DEF WaitingIsUnheld, storeVars, supVars, Waiting, Receive
<1> QED BY <1>1, <1>2, <1>3, <1>4, <1>5, <1>6

(* The inductive invariant holds at the start: nothing is held.            *)
LEMMA InitInv == Init => IInv
<1> SUFFICES ASSUME Init PROVE IInv
  OBVIOUS
<1>1. TypeOK
  BY InitType
<1>2. \A t \in Tasks : Unheld(t)
  BY TasksAssumption DEF Init, Unheld, Held
<1>3. Waiting = {}
  BY DEF Init, Waiting, Absent
<1>4. SoleHolder /\ HolderStatus
  BY DEF Init, SoleHolder, HolderStatus
<1>5. FreshOrLocked /\ WaitingIsUnheld
  BY <1>3 DEF Init, FreshOrLocked, WaitingIsUnheld, Snap
<1>6. DiskIsFinal /\ UnmintedIsBlank
  BY <1>2 DEF Init, DiskIsFinal, UnmintedIsBlank, Absent, Snap
<1> QED BY <1>1, <1>4, <1>5, <1>6 DEF IInv

(* Every step keeps the inductive invariant.                               *)
LEMMA StepInv == ASSUME IInv, [Next]_vars, ~SlowPasses, ~LostReplies PROVE IInv'
<1>1. TypeOK'
  BY StepType DEF IInv
<1>2. CASE UNCHANGED vars
  BY <1>1, <1>2, QuietInv DEF vars, storeVars, slotVars, supVars
<1> QED BY <1>1, <1>2, ApiInv, ReceiveInv, SlotInv, SupInv, EnvironmentInv DEF Next

(* The inductive invariant holds in every state. *)
THEOREM Invariance == ASSUME ~SlowPasses, ~LostReplies PROVE Spec => []IInv
  BY InitInv, StepInv, PTL DEF Spec

(* No task is executed in two slots at once, whatever crashes or expires. *)
THEOREM SingleFlightHolds == ASSUME ~SlowPasses, ~LostReplies PROVE Spec => []SingleFlight
<1>1. IInv => SingleFlight
  BY DEF IInv, SoleHolder, SingleFlight
<1> QED BY <1>1, Invariance, PTL

-----------------------------------------------------------------------------
(* Where an active record comes from.  Only POST /run makes one out of      *)
(* nothing; every other step leaves it, rewrites an active one or, when a   *)
(* record expired under a drain pass, recreates it without an owner.        *)
Came(t) ==
  redis'[t].status \in ActiveStatuses =>
    \/ redis[t].status \in ActiveStatuses /\ redis'[t].owned = redis[t].owned
    \/ GetTask(t).status = "absent" /\ ~redis'[t].owned

(* set_task makes no active record that was not active or parked before.   *)
LEMMA SetTaskCame ==
  ASSUME TypeOK, NEW t \in Tasks, NEW status, SetTask(t, status),
         \/ status \notin ActiveStatuses
         \/ redis[t].status \in ActiveStatuses
         \/ GetTask(t).status = "absent" /\ ~GetTask(t).owned
  PROVE  \A x \in Tasks : Came(x)
<1>1. redis'[t] = [status |-> status, owned |-> GetTask(t).owned]
      /\ \A x \in Tasks \ {t} : redis'[x] = redis[x]
  BY DEF SetTask, TypeOK
<1>2. redis[t].status \in ActiveStatuses => GetTask(t) = redis[t]
  BY DEF GetTask, ActiveStatuses
<1> QED BY <1>1, <1>2 DEF Came

(* A step that leaves Redis alone brings nothing.                          *)
LEMMA SameCame == ASSUME UNCHANGED redis PROVE \A x \in Tasks : Came(x)
  BY DEF Came

(* execute_research_task only writes an active record over an active one.  *)
LEMMA SlotCame ==
  ASSUME IInv, NEW s \in Slots, SlotStep(s) PROVE \A x \in Tasks : Came(x)
<1> USE DEF storeVars
<1>0. TypeOK /\ HolderStatus
  BY DEF IInv
<1>1. slotPc[s] # "idle" => slotTask[s] \in Tasks
  BY <1>0 DEF TypeOK
<1>2. slotPc[s] \in {"gate", "agent"} => redis[slotTask[s]].status \in ActiveStatuses
  BY <1>0 DEF HolderStatus, ActiveStatuses
<1>3. CASE BeginFound(s) \/ GatePass(s) \/ Persist(s)
  BY <1>3, SameCame DEF BeginFound, GatePass, Persist
<1>4. CASE BeginMissing(s)
  BY <1>0, <1>1, <1>4, SetTaskCame DEF BeginMissing, ActiveStatuses
<1>5. CASE GatePark(s)
  BY <1>0, <1>1, <1>2, <1>5, SetTaskCame DEF GatePark
<1>6. CASE AgentReport(s)
  BY <1>0, <1>1, <1>2, <1>6, SetTaskCame DEF AgentReport
<1>7. CASE AgentRepark(s)
  BY <1>0, <1>1, <1>2, <1>7, SetTaskCame DEF AgentRepark
<1>8. CASE AgentError(s)
  BY <1>0, <1>1, <1>2, <1>8, SetTaskCame DEF AgentError
<1> QED BY <1>3, <1>4, <1>5, <1>6, <1>7, <1>8, Zenon DEF SlotStep

(* A drain pass only writes an active record over an active or expired one. *)
LEMMA SupCame ==
  ASSUME IInv, NEW w \in Workers, SupStep(w) \/ SupEnqueue(w)
  PROVE  \A x \in Tasks : Came(x)
<1> USE DEF storeVars
<1>0. TypeOK /\ HolderStatus /\ DiskIsFinal
  BY DEF IInv
<1>1. supPc[w] # "pass" => cur[w] \in Tasks
  BY <1>0 DEF TypeOK
<1>2. CASE SupMark(w)
  <2>1. redis[cur[w]].status \in {"queued_waiting_llm", "absent"}
    BY <1>0, <1>2 DEF SupMark, HolderStatus
  <2>2. disk[cur[w]].status = "absent"
    BY <1>0, <1>1, <1>2 DEF SupMark, DiskIsFinal, Unheld, Held
  <2>3. redis[cur[w]].status = "absent" => GetTask(cur[w]).status = "absent"
    BY <2>2 DEF GetTask
  <2>4. GetTask(cur[w]).status = "absent" => ~GetTask(cur[w]).owned
    BY <1>0, <1>1, <1>2, GetTaskType DEF SupMark, Records
  <2> QED BY <1>0, <1>1, <1>2, <2>1, <2>3, <2>4, SetTaskCame DEF SupMark, ActiveStatuses
<1>3. CASE SupEnqueueFail(w)
  <2>1. redis[cur[w]].status \in ActiveStatuses
    BY <1>0, <1>3 DEF SupEnqueueFail, HolderStatus, ActiveStatuses
  <2> QED BY <1>0, <1>1, <1>3, <2>1, SetTaskCame DEF SupEnqueueFail
<1>4. CASE SupScan(w) \/ SupProbe(w) \/ \E t \in Tasks : SupSkip(w, t) \/ SupClaim(w, t)
  BY <1>4, SameCame DEF SupScan, SupProbe, SupSkip, SupClaim
<1>5. CASE SupEnqueueOk(w) \/ SupEnqueueUnacked(w)
  BY <1>5, SameCame DEF SupEnqueueOk, SupEnqueueUnacked
<1> QED BY <1>2, <1>3, <1>4, <1>5 DEF SupStep, SupEnqueue

(* So does every step that is not a submission.                            *)
LEMMA StepCame ==
  ASSUME IInv, [Next]_vars, \A t \in Tasks : ~Submit(t)
  PROVE  \A x \in Tasks : Came(x)
<1> USE DEF storeVars
<1>0. TypeOK
  BY DEF IInv
<1>1. ASSUME NEW t \in Tasks, ApiStep(t) PROVE \A x \in Tasks : Came(x)
  <2>1. CASE ApiEnqueueFail(t)
    BY <1>0, <2>1, SetTaskCame DEF ApiEnqueueFail, ActiveStatuses
  <2> QED BY <1>1, <2>1, SameCame DEF ApiStep, ApiEnqueueOk, ApiEnqueueUnacked
<1>2. ASSUME NEW t \in Tasks, RecordExpire(t) PROVE \A x \in Tasks : Came(x)
  BY <1>0, <1>2 DEF RecordExpire, Came, TypeOK, Absent, ActiveStatuses
<1>3. ASSUME NEW s \in Slots, NEW t \in Tasks, Receive(s, t) PROVE \A x \in Tasks : Came(x)
  BY <1>3, SameCame DEF Receive
<1>4. CASE UNCHANGED vars
  BY <1>4, SameCame DEF vars
<1>5. ASSUME \/ \E t \in Tasks : LockExpire(t)
             \/ \E w \in Workers, u \in Urls : CacheExpire(w, u)
             \/ \E c \in Configs : EndpointFlip(c)
             \/ \E w \in Workers : WorkerCrash(w)
             \/ ApiCrash
      PROVE \A x \in Tasks : Came(x)
  BY <1>5, SameCame DEF LockExpire, CacheExpire, EndpointFlip, WorkerCrash, ApiCrash
<1> QED BY <1>1, <1>2, <1>3, <1>4, <1>5, SlotCame, SupCame DEF Next, Environment

(* POST /run writes a record for a new id and touches no other.            *)
LEMMA SubmitFresh ==
  ASSUME IInv, NEW t \in Tasks, Submit(t)
  PROVE  /\ GetTask(t).status = "absent"
         /\ redis'[t].status = "running"
         /\ \A x \in Tasks \ {t} : redis'[x] = redis[x]
  BY DEF IInv, TypeOK, UnmintedIsBlank, Submit, GetTask

(* A settled task stays out of the active statuses.                         *)
LEMMA StepFinal ==
  ASSUME IInv, IInv', [Next]_vars, NEW t \in Tasks, Final(t)
  PROVE  GetTask(t)'.status \notin ActiveStatuses
<1>1. GetTask(t).status \notin ActiveStatuses \cup {"absent"}
  BY DEF Final, ActiveStatuses
<1>2. redis[t].status \notin ActiveStatuses
  BY <1>1 DEF GetTask, ActiveStatuses
<1>3. redis'[t].status \notin ActiveStatuses
  <2>1. CASE \A x \in Tasks : ~Submit(x)
    BY <1>1, <1>2, <2>1, StepCame DEF Came
  <2>2. ASSUME NEW x \in Tasks, Submit(x) PROVE redis'[t].status \notin ActiveStatuses
    BY <1>1, <1>2, <2>2, SubmitFresh
  <2> QED BY <2>1, <2>2
<1>4. disk'[t].status \notin ActiveStatuses
  BY DEF IInv, DiskIsFinal, ActiveStatuses
<1> QED BY <1>3, <1>4 DEF GetTask

(* A poll that saw completed or failed is never followed by one that sees   *)
(* the task active again.                                                   *)
THEOREM SettledStaysSettled ==
  ASSUME ~SlowPasses, ~LostReplies PROVE Spec => NoResurrection
<1>1. IInv /\ IInv' /\ [Next]_vars =>
        [\A t \in Tasks : Final(t) => GetTask(t)'.status \notin ActiveStatuses]_vars
  BY StepFinal
<1> QED BY <1>1, Invariance, PTL DEF Spec, NoResurrection

-----------------------------------------------------------------------------
(* The concurrency cap.  ActiveOf grows by POST /run alone, one at a time.  *)

(* No task is active at the start.                                         *)
LEMMA InitCap == Init => ActiveWithinCap
<1> SUFFICES ASSUME Init, NEW n \in Tenants PROVE Cardinality(ActiveOf(n)) <= Cap[n]
  BY DEF ActiveWithinCap
<1>1. ActiveOf(n) = {}
  BY DEF Init, ActiveOf, Absent
<1> QED BY <1>1, FS_EmptySet, CapAssumption

(* Every step keeps the cap.                                               *)
LEMMA StepCap ==
  ASSUME IInv, ActiveWithinCap, [Next]_vars PROVE ActiveWithinCap'
<1> SUFFICES ASSUME NEW n \in Tenants PROVE Cardinality(ActiveOf(n)') <= Cap[n]
  BY DEF ActiveWithinCap
<1>1. IsFiniteSet(ActiveOf(n)) /\ Cardinality(ActiveOf(n)) \in Nat
  <2>1. ActiveOf(n) \subseteq Tasks BY DEF ActiveOf
  <2> QED BY <2>1, TasksAssumption, FS_Subset, FS_CardinalityType
<1>2. Cardinality(ActiveOf(n)) <= Cap[n] /\ Cap[n] \in Nat
  BY CapAssumption DEF ActiveWithinCap
<1>3. ASSUME ActiveOf(n)' \subseteq ActiveOf(n) PROVE Cardinality(ActiveOf(n)') <= Cap[n]
  <2>1. /\ Cardinality(ActiveOf(n)') <= Cardinality(ActiveOf(n))
        /\ Cardinality(ActiveOf(n)') \in Nat
    BY <1>1, <1>3, FS_Subset, FS_CardinalityType
  <2> QED BY <1>1, <1>2, <2>1
<1>4. CASE \A t \in Tasks : ~Submit(t)
  <2>1. ActiveOf(n)' \subseteq ActiveOf(n)
    BY <1>4, StepCame DEF ActiveOf, Came
  <2> QED BY <1>3, <2>1
<1>5. ASSUME NEW t \in Tasks, Submit(t) PROVE Cardinality(ActiveOf(n)') <= Cap[n]
  <2>1. CASE TaskTenant[t] # n
    <3>1. ActiveOf(n)' \subseteq ActiveOf(n)
      BY <1>5, <2>1, SubmitFresh DEF ActiveOf
    <3> QED BY <1>3, <3>1
  <2>2. CASE TaskTenant[t] = n
    <3>1. ActiveOf(n)' \subseteq ActiveOf(n) \cup {t}
      BY <1>5, SubmitFresh DEF ActiveOf
    <3>2. Cardinality(ActiveOf(n)) < Cap[n]
      BY <1>5, <2>2 DEF Submit
    <3>3. /\ IsFiniteSet(ActiveOf(n) \cup {t})
          /\ Cardinality(ActiveOf(n) \cup {t}) <= Cardinality(ActiveOf(n)) + 1
          /\ Cardinality(ActiveOf(n) \cup {t}) \in Nat
      <4>1. /\ IsFiniteSet(ActiveOf(n) \cup {t})
            /\ Cardinality(ActiveOf(n) \cup {t}) =
                 IF t \in ActiveOf(n) THEN Cardinality(ActiveOf(n))
                 ELSE Cardinality(ActiveOf(n)) + 1
        BY <1>1, FS_AddElement, Zenon
      <4> QED BY <1>1, <4>1
    <3>4. /\ Cardinality(ActiveOf(n)') <= Cardinality(ActiveOf(n) \cup {t})
          /\ Cardinality(ActiveOf(n)') \in Nat
      BY <3>1, <3>3, FS_Subset, FS_CardinalityType
    <3> QED BY <1>1, <1>2, <3>2, <3>3, <3>4
  <2> QED BY <2>1, <2>2
<1> QED BY <1>4, <1>5

(* The cap compared at admission holds in every state: parking, draining    *)
(* and retrying never take a tenant past it.                                *)
THEOREM CapHolds == ASSUME ~SlowPasses, ~LostReplies PROVE Spec => []ActiveWithinCap
  BY InitCap, StepCap, Invariance, PTL DEF Spec

-----------------------------------------------------------------------------
(* Running records and who holds them.  A slot that has answered the task   *)
(* does not count: what it still does is the copy on disk.                  *)
Working(t) ==
  \/ t \in apiPending \/ queue[t] > 0
  \/ \E s \in Slots : slotTask[s] = t /\ slotPc[s] # "persist"
  \/ \E w \in Workers : cur[w] = t

KeptInv == \A t \in Tasks : redis[t].status = "running" => Working(t)

(* What set_task leaves under the key, and that it touches no other.       *)
LEMMA SetTaskWrites ==
  ASSUME TypeOK, NEW t \in Tasks, NEW status, SetTask(t, status)
  PROVE  /\ redis'[t].status = status /\ redis'[t].owned = GetTask(t).owned
         /\ \A x \in Tasks : x # t => redis'[x] = redis[x]
  BY DEF SetTask, TypeOK

(* POST /run leaves the task it accepts pending, in the list or failed.    *)
LEMMA ApiKept == ASSUME TypeOK, KeptInv, NEW t \in Tasks, ApiStep(t) PROVE KeptInv'
<1> USE DEF storeVars, slotVars, supVars, KeptInv, Working
<1>1. CASE Submit(t)
  BY <1>1 DEF TypeOK, Submit
<1>2. CASE ApiEnqueueOk(t)
  BY <1>2 DEF TypeOK, ApiEnqueueOk, Deliver
<1>3. CASE ApiEnqueueUnacked(t)
  BY <1>3 DEF TypeOK, ApiEnqueueUnacked, Deliver
<1>4. CASE ApiEnqueueFail(t)
  BY <1>4, SetTaskWrites DEF ApiEnqueueFail
<1> QED  BY <1>1, <1>2, <1>3, <1>4 DEF ApiStep

(* A slot goes on holding its task or has written another status.          *)
LEMMA SlotKept == ASSUME TypeOK, KeptInv, NEW s \in Slots, SlotStep(s) PROVE KeptInv'
<1> USE TasksAssumption DEF storeVars, slotVars, supVars, KeptInv, Working
<1>1. slotPc[s] # "idle" => slotTask[s] \in Tasks
  BY DEF TypeOK
<1>2. CASE BeginFound(s) \/ GatePass(s)
  BY <1>2 DEF TypeOK, BeginFound, GatePass, Goto
<1>3. CASE Persist(s)
  BY <1>3 DEF TypeOK, Persist, Free
<1>4. ASSUME NEW t \in Tasks, t = slotTask[s], NEW status \in Statuses \ {"running"},
             SetTask(t, status),
             Free(s) \/ Goto(s, "persist"),
             UNCHANGED <<queue, apiPending, supVars>>
      PROVE  KeptInv'
  <2>1. /\ redis'[t].status = status
        /\ \A x \in Tasks : x # t => redis'[x] = redis[x]
    BY <1>4, SetTaskWrites
  <2>2. \A x \in Tasks : x # t /\ Working(x) => Working(x)'
    BY <1>4 DEF TypeOK, Free, Goto
  <2> QED  BY <1>4, <2>1, <2>2
<1>5. CASE BeginMissing(s)
  BY <1>1, <1>4, <1>5 DEF BeginMissing, Statuses
<1>6. CASE GatePark(s)
  BY <1>1, <1>4, <1>6 DEF GatePark, Statuses
<1>7. CASE AgentReport(s)
  BY <1>1, <1>4, <1>7 DEF AgentReport, Statuses
<1>8. CASE AgentRepark(s)
  BY <1>1, <1>4, <1>8 DEF AgentRepark, Statuses
<1>9. CASE AgentError(s)
  BY <1>1, <1>4, <1>9 DEF AgentError, Statuses
<1> QED  BY <1>2, <1>3, <1>5, <1>6, <1>7, <1>8, <1>9, Zenon DEF SlotStep

(* A drain pass holds what it marks until it is in the list or parked.     *)
LEMMA SupKept ==
  ASSUME TypeOK, KeptInv, NEW w \in Workers, SupStep(w) \/ SupEnqueue(w) PROVE KeptInv'
<1> USE DEF storeVars, slotVars, supVars, KeptInv, Working
<1>1. supPc[w] # "pass" => cur[w] \in Tasks
  BY DEF TypeOK
<1>2. CASE SupScan(w) \/ SupProbe(w) \/ \E t \in Tasks : SupSkip(w, t)
  BY <1>2 DEF SupScan, SupProbe, SupSkip
<1>3. ASSUME NEW t \in Tasks, SupClaim(w, t) PROVE KeptInv'
  BY <1>3, TasksAssumption DEF TypeOK, SupClaim
<1>4. CASE SupMark(w)
  <2>1. \A x \in Tasks : x # cur[w] => redis'[x] = redis[x]
    BY <1>1, <1>4, SetTaskWrites DEF SupMark
  <2> QED  BY <1>4, <2>1 DEF SupMark
<1>5. CASE SupEnqueueOk(w)
  BY <1>1, <1>5 DEF TypeOK, SupEnqueueOk, Deliver, Release
<1>6. CASE SupEnqueueUnacked(w)
  BY <1>1, <1>6 DEF TypeOK, SupEnqueueUnacked, Deliver
<1>7. CASE SupEnqueueFail(w)
  <2>1. /\ redis'[cur[w]].status = "queued_waiting_llm"
        /\ \A x \in Tasks : x # cur[w] => redis'[x] = redis[x]
    BY <1>1, <1>7, SetTaskWrites DEF SupEnqueueFail
  <2> QED  BY <1>7, <2>1 DEF TypeOK, SupEnqueueFail, Release
<1> QED  BY <1>2, <1>3, <1>4, <1>5, <1>6, <1>7 DEF SupStep, SupEnqueue

(* Without crashes every step keeps running records in somebody's hands.   *)
LEMMA StepKept == ASSUME TypeOK, KeptInv, ~Crashes, [Next]_vars PROVE KeptInv'
<1> USE DEF storeVars, slotVars, supVars
<1>1. ASSUME NEW s \in Slots, NEW t \in Tasks, Receive(s, t) PROVE KeptInv'
  BY <1>1, TasksAssumption DEF TypeOK, KeptInv, Working, Receive
<1>2. CASE Environment
  <2>1. ASSUME NEW t \in Tasks, RecordExpire(t) PROVE KeptInv'
    BY <2>1 DEF TypeOK, RecordExpire, Absent, KeptInv, Working
  <2>2. CASE UNCHANGED <<redis, queue, apiPending, slotVars, cur>>
    BY <2>2 DEF KeptInv, Working
  <2> QED  BY <1>2, <2>1, <2>2 DEF Environment, LockExpire, CacheExpire, EndpointFlip,
                                   WorkerCrash, ApiCrash
<1>3. CASE UNCHANGED vars
  BY <1>3 DEF vars, KeptInv, Working
<1> QED  BY <1>1, <1>2, <1>3, ApiKept, SlotKept, SupKept DEF Next

(* RunningIsHeld for every instance in which no process dies, whatever else *)
(* the environment does: slow passes, lost replies and expiry included.     *)
THEOREM RunningIsHeldHolds == ASSUME ~Crashes PROVE Spec => []RunningIsHeld
<1>1. Init => KeptInv
  BY DEF Init, Absent, KeptInv
<1>2. KeptInv => RunningIsHeld
  BY DEF KeptInv, Working, RunningIsHeld, Held
<1> QED  BY <1>1, <1>2, InitType, StepType, StepKept, PTL DEF Spec

-----------------------------------------------------------------------------
(* Who the records belong to.  What any party has in hand was minted by     *)
(* POST /run, and a minted record is there and keeps its owner: every write *)
(* to it is merged into a record that has one.                              *)
HandsMinted ==
  /\ apiPending \subseteq minted
  /\ \A t \in Tasks : queue[t] > 0 => t \in minted
  /\ \A s \in Slots : slotTask[s] # NoTask => slotTask[s] \in minted
  /\ \A w \in Workers : cur[w] # NoTask => cur[w] \in minted
  /\ \A w \in Workers : todo[w] \subseteq minted /\ group[w] \subseteq minted

RecordsOwned ==
  \A t \in Tasks :
    IF t \in minted THEN redis[t].status # "absent" /\ redis[t].owned
                    ELSE redis[t].status = "absent"

(* A write to a minted task's record keeps the record and its owner.       *)
LEMMA SetTaskOwned ==
  ASSUME TypeOK, RecordsOwned, NEW t \in minted, NEW status, status # "absent",
         SetTask(t, status), minted' = minted
  PROVE  RecordsOwned'
<1>1. t \in Tasks
  BY DEF TypeOK
<1>2. redis[t].status # "absent" /\ redis[t].owned
  BY <1>1 DEF RecordsOwned
<1>3. GetTask(t) = redis[t]
  BY <1>2 DEF GetTask
<1>4. redis' = [redis EXCEPT ![t] = [status |-> status, owned |-> redis[t].owned]]
  BY <1>3 DEF SetTask
<1>5. redis'[t].status # "absent"
  BY <1>1, <1>4 DEF TypeOK
<1>6. redis'[t].owned
  BY <1>1, <1>2, <1>4 DEF TypeOK
<1>7. \A x \in Tasks : x # t => redis'[x] = redis[x]
  BY <1>4 DEF TypeOK
<1> QED  BY <1>5, <1>6, <1>7 DEF RecordsOwned

(* POST /run mints what it hands on.                                       *)
LEMMA ApiOwned ==
  ASSUME TypeOK, HandsMinted, RecordsOwned, NEW t \in Tasks, ApiStep(t)
  PROVE  HandsMinted' /\ RecordsOwned'
<1> USE DEF storeVars, slotVars, supVars
<1>1. CASE Submit(t)
  <2>1. HandsMinted'
    BY <1>1 DEF Submit, HandsMinted
  <2>2. minted' = minted \cup {t} /\ redis' = [redis EXCEPT ![t] = [status |-> "running", owned |-> TRUE]]
    BY <1>1 DEF Submit
  <2>3. redis'[t].status # "absent"
    BY <2>2 DEF TypeOK
  <2>4. redis'[t].owned
    BY <2>2 DEF TypeOK
  <2>5. \A x \in Tasks : x # t => redis'[x] = redis[x]
    BY <2>2 DEF TypeOK
  <2> QED  BY <2>1, <2>2, <2>3, <2>4, <2>5 DEF RecordsOwned
<1>2. CASE ApiEnqueueOk(t)
  BY <1>2 DEF TypeOK, ApiEnqueueOk, Deliver, HandsMinted, RecordsOwned
<1>3. CASE ApiEnqueueUnacked(t)
  BY <1>3 DEF TypeOK, ApiEnqueueUnacked, Deliver, HandsMinted, RecordsOwned
<1>4. CASE ApiEnqueueFail(t)
  <2>1. HandsMinted' /\ t \in minted
    BY <1>4 DEF ApiEnqueueFail, HandsMinted
  <2> QED  BY <1>4, <2>1, SetTaskOwned DEF ApiEnqueueFail
<1> QED  BY <1>1, <1>2, <1>3, <1>4 DEF ApiStep

(* A slot writes the record of the task it has, which is minted.           *)
LEMMA SlotOwned ==
  ASSUME TypeOK, HandsMinted, RecordsOwned, NEW s \in Slots, SlotStep(s)
  PROVE  HandsMinted' /\ RecordsOwned'
<1> USE TasksAssumption DEF storeVars, slotVars, supVars
<1>1. slotPc[s] # "idle" => slotTask[s] \in minted
  BY DEF TypeOK, HandsMinted
<1>2. minted' = minted /\ UNCHANGED <<queue, apiPending, supVars>>
  BY DEF SlotStep, BeginFound, BeginMissing, GatePass, GatePark, AgentReport, AgentRepark,
         AgentError, Persist
<1>3. (\E pc : Goto(s, pc)) \/ Free(s)
  BY DEF SlotStep, BeginFound, BeginMissing, GatePass, GatePark, AgentReport, AgentRepark,
         AgentError, Persist
<1>4. HandsMinted'
  <2>1. \A x \in Slots : slotTask'[x] # NoTask => slotTask'[x] = slotTask[x]
    BY <1>3 DEF TypeOK, Goto, Free
  <2> QED  BY <1>2, <2>1 DEF HandsMinted
<1>5. RecordsOwned'
  <2>1. CASE redis' = redis
    BY <1>2, <2>1 DEF RecordsOwned
  <2>2. CASE BeginMissing(s)
    BY <1>1, <1>2, <2>2, SetTaskOwned DEF BeginMissing
  <2>3. CASE GatePark(s)
    BY <1>1, <1>2, <2>3, SetTaskOwned DEF GatePark
  <2>4. CASE AgentReport(s)
    BY <1>1, <1>2, <2>4, SetTaskOwned DEF AgentReport
  <2>5. CASE AgentRepark(s)
    BY <1>1, <1>2, <2>5, SetTaskOwned DEF AgentRepark
  <2>6. CASE AgentError(s)
    BY <1>1, <1>2, <2>6, SetTaskOwned DEF AgentError
  <2> QED  BY <2>1, <2>2, <2>3, <2>4, <2>5, <2>6 DEF SlotStep, BeginFound, GatePass, Persist
<1> QED  BY <1>4, <1>5

(* A supervisor scans records of minted tasks only, and merges as well.    *)
LEMMA SupOwned ==
  ASSUME TypeOK, HandsMinted, RecordsOwned, NEW w \in Workers, SupStep(w) \/ SupEnqueue(w)
  PROVE  HandsMinted' /\ RecordsOwned'
<1> USE TasksAssumption DEF storeVars, slotVars, supVars
<1>1. supPc[w] # "pass" => cur[w] \in minted /\ cur[w] \in Tasks
  BY DEF TypeOK, HandsMinted
<1>2. CASE SupScan(w)
  <2>1. Waiting \subseteq minted
    BY DEF Waiting, RecordsOwned
  <2> QED  BY <1>2, <2>1 DEF TypeOK, SupScan, HandsMinted, RecordsOwned
<1>3. CASE SupProbe(w)
  <2>1. /\ minted' = minted /\ redis' = redis
        /\ UNCHANGED <<queue, apiPending, slotTask, cur>>
        /\ \A v \in Workers : todo'[v] \subseteq todo[v]
        /\ \A v \in Workers : group'[v] \subseteq group[v] \cup todo[v]
    <3>1. PICK first \in todo[w] :
            LET g == GroupOf(w, first)
            IN /\ todo' = [todo EXCEPT ![w] = @ \ g]
               /\ group' = [group EXCEPT ![w] = g] \/ group' = group
      BY <1>3 DEF SupProbe
    <3>2. GroupOf(w, first) \subseteq todo[w]
      BY DEF GroupOf
    <3>3. minted' = minted /\ redis' = redis /\ UNCHANGED <<queue, apiPending, slotTask, cur>>
      BY <1>3 DEF SupProbe
    <3>4. \A v \in Workers : todo'[v] \subseteq todo[v]
      BY <3>1 DEF TypeOK
    <3>5. \A v \in Workers : group'[v] \subseteq group[v] \cup todo[v]
      BY <3>1, <3>2 DEF TypeOK
    <3> QED  BY <3>3, <3>4, <3>5
  <2> QED  BY <2>1 DEF HandsMinted, RecordsOwned
<1>4. ASSUME NEW t \in Tasks, SupSkip(w, t) PROVE HandsMinted' /\ RecordsOwned'
  BY <1>4 DEF TypeOK, SupSkip, HandsMinted, RecordsOwned
<1>5. ASSUME NEW t \in Tasks, SupClaim(w, t) PROVE HandsMinted' /\ RecordsOwned'
  BY <1>5 DEF TypeOK, SupClaim, HandsMinted, RecordsOwned
<1>6. CASE SupMark(w)
  BY <1>1, <1>6, SetTaskOwned DEF SupMark, HandsMinted
<1>7. CASE SupEnqueueOk(w)
  BY <1>1, <1>7 DEF TypeOK, SupEnqueueOk, Deliver, Release, HandsMinted, RecordsOwned
<1>8. CASE SupEnqueueUnacked(w)
  BY <1>1, <1>8 DEF TypeOK, SupEnqueueUnacked, Deliver, HandsMinted, RecordsOwned
<1>9. CASE SupEnqueueFail(w)
  <2>1. HandsMinted'
    BY <1>9 DEF TypeOK, SupEnqueueFail, Release, HandsMinted
  <2> QED  BY <1>1, <1>9, <2>1, SetTaskOwned DEF SupEnqueueFail
<1> QED  BY <1>2, <1>3, <1>4, <1>5, <1>6, <1>7, <1>8, <1>9 DEF SupStep, SupEnqueue

(* Without expiry every step keeps records there and owned; a crash only    *)
(* empties hands.                                                          *)
LEMMA StepOwned ==
  ASSUME TypeOK, HandsMinted, RecordsOwned, ~Expiry, [Next]_vars
  PROVE  HandsMinted' /\ RecordsOwned'
<1> USE DEF storeVars, slotVars, supVars
<1>1. ASSUME NEW s \in Slots, NEW t \in Tasks, Receive(s, t)
      PROVE  HandsMinted' /\ RecordsOwned'
  BY <1>1 DEF TypeOK, Receive, HandsMinted, RecordsOwned
<1>2. CASE Environment
  <2>1. ASSUME NEW w \in Workers, WorkerCrash(w) PROVE HandsMinted' /\ RecordsOwned'
    BY <2>1 DEF TypeOK, WorkerCrash, HandsMinted, RecordsOwned
  <2>2. CASE ApiCrash
    BY <2>2 DEF ApiCrash, HandsMinted, RecordsOwned
  <2>3. CASE UNCHANGED <<minted, redis, queue, apiPending, slotVars, cur, todo, group>>
    BY <2>3 DEF HandsMinted, RecordsOwned
  <2> QED  BY <1>2, <2>1, <2>2, <2>3 DEF Environment, LockExpire, CacheExpire,
                                         EndpointFlip, RecordExpire
<1>3. CASE UNCHANGED vars
  BY <1>3 DEF vars, HandsMinted, RecordsOwned
<1> QED  BY <1>1, <1>2, <1>3, ApiOwned, SlotOwned, SupOwned DEF Next

(* OwnedRuns for every instance in which no record expires: passes, replies *)
(* and processes may be slow, lost and dead.                                *)
THEOREM OwnedRunsHolds == ASSUME ~Expiry PROVE Spec => []OwnedRuns
<1>1. Init => HandsMinted /\ RecordsOwned
  BY DEF Init, Absent, HandsMinted, RecordsOwned
<1>2. TypeOK /\ HandsMinted /\ RecordsOwned => OwnedRuns
  <2> SUFFICES ASSUME TypeOK, HandsMinted, RecordsOwned, NEW s \in Slots, slotPc[s] = "agent"
               PROVE  GetTask(slotTask[s]).owned
    BY DEF OwnedRuns
  <2>1. slotTask[s] \in Tasks /\ slotTask[s] \in minted
    BY TasksAssumption DEF TypeOK, HandsMinted
  <2>2. redis[slotTask[s]].status # "absent"
    BY <2>1 DEF RecordsOwned
  <2>3. redis[slotTask[s]].owned
    BY <2>1 DEF RecordsOwned
  <2>4. GetTask(slotTask[s]) = redis[slotTask[s]]
    BY <2>2 DEF GetTask
  <2> QED  BY <2>3, <2>4
<1> QED  BY <1>1, <1>2, InitType, StepType, StepOwned, PTL DEF Spec

-----------------------------------------------------------------------------
(* The durable copy.  A record under its Redis key that says completed has  *)
(* a copy on disk, or the slot that wrote it is about to make one.          *)
CopyInv ==
  \A t \in Tasks : redis[t].status = "completed" =>
    \/ disk[t].status = "completed"
    \/ \E s \in Slots : slotTask[s] = t /\ slotPc[s] = "persist"

(* What a holder's status says when a task reads completed: nobody but the  *)
(* slot that persists it, or one that has yet to look at it, has it.        *)
LEMMA CompletedHolders ==
  ASSUME IInv, NEW t \in Tasks, GetTask(t).status = "completed"
  PROVE  /\ t \in minted /\ t \notin apiPending
         /\ \A s \in Slots : slotTask[s] = t => slotPc[s] \notin {"gate", "agent"}
         /\ \A w \in Workers : cur[w] # t
<1>1. redis[t].status = "completed" \/ (redis[t].status = "absent" /\ disk[t].status = "completed")
  BY DEF GetTask
<1>2. CASE redis[t].status = "completed"
  <2>1. t \in minted
    BY <1>2 DEF IInv, UnmintedIsBlank
  <2>2. t \notin apiPending
    BY <1>2 DEF IInv, HolderStatus
  <2>3. \A s \in Slots : slotTask[s] = t => slotPc[s] \notin {"gate", "agent"}
    BY <1>2 DEF IInv, HolderStatus
  <2>4. ASSUME NEW w \in Workers, cur[w] = t  PROVE FALSE
    <3>1. supPc[w] \in {"mark", "kiq"}
      BY <2>4, TasksAssumption DEF IInv, TypeOK
    <3>2. redis[t].status \in {"queued_waiting_llm", "absent", "running"}
      BY <2>4, <3>1 DEF IInv, HolderStatus
    <3> QED  BY <1>2, <3>2
  <2> QED  BY <2>1, <2>2, <2>3, <2>4
<1>3. CASE redis[t].status = "absent" /\ disk[t].status = "completed"
  <2>1. t \in minted /\ Unheld(t)
    BY <1>3 DEF IInv, DiskIsFinal, UnmintedIsBlank
  <2> QED  BY <2>1 DEF Unheld, Held
<1> QED  BY <1>1, <1>2, <1>3

(* Nothing but expiry touches the key of a task that reads completed.      *)
LEMMA CompletedUntouched ==
  ASSUME IInv, [Next]_vars, NEW t \in Tasks, GetTask(t).status = "completed"
  PROVE  redis'[t] = redis[t] \/ RecordExpire(t)
<1> USE DEF storeVars
<1>1. /\ t \in minted /\ t \notin apiPending
      /\ \A s \in Slots : slotTask[s] = t => slotPc[s] \notin {"gate", "agent"}
      /\ \A w \in Workers : cur[w] # t
  BY CompletedHolders
<1>2. TypeOK
  BY DEF IInv
<1>3. ASSUME NEW x \in Tasks, x # t, NEW status, SetTask(x, status) PROVE redis'[t] = redis[t]
  BY <1>2, <1>3 DEF TypeOK, SetTask
<1>4. ASSUME NEW x \in Tasks, ApiStep(x) PROVE redis'[t] = redis[t]
  <2>1. CASE Submit(x)
    BY <1>1, <1>2, <2>1 DEF Submit, TypeOK
  <2>2. CASE ApiEnqueueFail(x)
    BY <1>1, <1>3, <2>2 DEF ApiEnqueueFail
  <2> QED  BY <1>4, <2>1, <2>2 DEF ApiStep, ApiEnqueueOk, ApiEnqueueUnacked
<1>5. ASSUME NEW s \in Slots, SlotStep(s) PROVE redis'[t] = redis[t]
  <2>1. slotPc[s] # "idle" => slotTask[s] \in Tasks
    BY <1>2 DEF TypeOK
  <2>2. CASE BeginMissing(s)
    BY <1>3, <2>1, <2>2 DEF BeginMissing
  <2>3. CASE GatePark(s)
    BY <1>1, <1>3, <2>1, <2>3 DEF GatePark
  <2>4. CASE AgentReport(s)
    BY <1>1, <1>3, <2>1, <2>4 DEF AgentReport
  <2>5. CASE AgentRepark(s)
    BY <1>1, <1>3, <2>1, <2>5 DEF AgentRepark
  <2>6. CASE AgentError(s)
    BY <1>1, <1>3, <2>1, <2>6 DEF AgentError
  <2> QED  BY <1>5, <2>2, <2>3, <2>4, <2>5, <2>6 DEF SlotStep, BeginFound, GatePass, Persist
<1>6. ASSUME NEW w \in Workers, SupStep(w) \/ SupEnqueue(w) PROVE redis'[t] = redis[t]
  <2>1. supPc[w] # "pass" => cur[w] \in Tasks
    BY <1>2 DEF TypeOK
  <2>2. CASE SupMark(w)
    BY <1>1, <1>3, <2>1, <2>2 DEF SupMark
  <2>3. CASE SupEnqueueFail(w)
    BY <1>1, <1>3, <2>1, <2>3 DEF SupEnqueueFail
  <2> QED  BY <1>6, <2>2, <2>3 DEF SupStep, SupEnqueue, SupScan, SupProbe, SupSkip,
                                  SupClaim, SupEnqueueOk, SupEnqueueUnacked
<1>7. CASE Environment
  <2>1. ASSUME NEW x \in Tasks, x # t, RecordExpire(x) PROVE redis'[t] = redis[t]
    BY <1>2, <2>1 DEF TypeOK, RecordExpire
  <2> QED  BY <1>7, <2>1 DEF Environment, LockExpire, CacheExpire, EndpointFlip,
                             WorkerCrash, ApiCrash
<1>8. ASSUME NEW s \in Slots, NEW x \in Tasks, Receive(s, x) PROVE redis'[t] = redis[t]
  BY <1>8 DEF Receive
<1>9. CASE UNCHANGED vars
  BY <1>9 DEF vars
<1> QED  BY <1>4, <1>5, <1>6, <1>7, <1>8, <1>9 DEF Next

(* A copy on disk is there for ever, and only completed tasks get one.     *)
LEMMA DiskStays ==
  ASSUME TypeOK, [Next]_vars, NEW t \in Tasks
  PROVE  \/ disk'[t] = disk[t]
         \/ /\ disk'[t].status = "completed"
            /\ \E s \in Slots : slotTask[s] = t /\ slotPc[s] = "persist"
<1> USE DEF storeVars
<1>1. ASSUME NEW s \in Slots, SlotStep(s), disk' # disk PROVE Persist(s)
  BY <1>1 DEF SlotStep, BeginFound, BeginMissing, GatePass, GatePark, AgentReport,
              AgentRepark, AgentError
<1>2. ASSUME NEW s \in Slots, Persist(s)
      PROVE  \/ disk'[t] = disk[t]
             \/ /\ disk'[t].status = "completed"
                /\ slotTask[s] = t /\ slotPc[s] = "persist"
  BY <1>2 DEF TypeOK, Persist
<1>3. ASSUME NEW x \in Tasks, ApiStep(x) PROVE disk' = disk
  BY <1>3 DEF ApiStep, Submit, ApiEnqueueOk, ApiEnqueueUnacked, ApiEnqueueFail
<1>4. ASSUME NEW w \in Workers, SupStep(w) \/ SupEnqueue(w) PROVE disk' = disk
  BY <1>4 DEF SupStep, SupEnqueue, SupScan, SupProbe, SupSkip, SupClaim, SupMark,
              SupEnqueueOk, SupEnqueueUnacked, SupEnqueueFail
<1>5. CASE Environment
  BY <1>5 DEF Environment, LockExpire, RecordExpire, CacheExpire, EndpointFlip,
              WorkerCrash, ApiCrash
<1>6. ASSUME NEW s \in Slots, NEW x \in Tasks, Receive(s, x) PROVE disk' = disk
  BY <1>6 DEF Receive
<1>7. CASE UNCHANGED vars
  BY <1>7 DEF vars
<1> QED  BY <1>1, <1>2, <1>3, <1>4, <1>5, <1>6, <1>7 DEF Next

(* While records may expire and no process dies, the copy is there or on    *)
(* its way.                                                                *)
LEMMA StepCopy ==
  ASSUME IInv, CopyInv, ~Crashes, [Next]_vars PROVE CopyInv'
<1> USE DEF storeVars
<1>0. TypeOK
  BY DEF IInv
<1> SUFFICES ASSUME NEW t \in Tasks, redis'[t].status = "completed"
             PROVE  \/ disk'[t].status = "completed"
                    \/ \E s \in Slots : slotTask'[s] = t /\ slotPc'[s] = "persist"
  BY DEF CopyInv
<1>1. disk[t].status = "completed" => disk'[t].status = "completed"
  BY <1>0, DiskStays
<1>2. ASSUME NEW s \in Slots, slotTask[s] = t, slotPc[s] = "persist"
      PROVE  disk'[t].status = "completed" \/ (slotTask'[s] = t /\ slotPc'[s] = "persist")
  <2>1. CASE Persist(s)
    BY <1>0, <1>2, <2>1 DEF TypeOK, Persist
  <2>2. ASSUME NEW x \in Slots, SlotStep(x), ~Persist(s)
        PROVE  slotTask'[s] = t /\ slotPc'[s] = "persist"
    BY <1>0, <1>2, <2>2 DEF TypeOK, SlotStep, BeginFound, BeginMissing, GatePass, GatePark,
       AgentReport, AgentRepark, AgentError, Persist, Goto, Free
  <2>3. CASE UNCHANGED slotVars
    BY <1>2, <2>3 DEF slotVars
  <2>4. ASSUME NEW x \in Slots, NEW u \in Tasks, Receive(x, u)
        PROVE  slotTask'[s] = t /\ slotPc'[s] = "persist"
    BY <1>0, <1>2, <2>4 DEF TypeOK, Receive
  <2>5. CASE \E x \in Tasks : ApiStep(x)
    BY <2>3, <2>5 DEF ApiStep, Submit, ApiEnqueueOk, ApiEnqueueUnacked, ApiEnqueueFail
  <2>6. CASE \E w \in Workers : SupStep(w) \/ SupEnqueue(w)
    BY <2>3, <2>6 DEF SupStep, SupEnqueue, SupScan, SupProbe, SupSkip, SupClaim, SupMark,
       SupEnqueueOk, SupEnqueueUnacked, SupEnqueueFail
  <2>7. CASE Environment
    BY <2>3, <2>7 DEF Environment, LockExpire, RecordExpire, CacheExpire, EndpointFlip,
       WorkerCrash, ApiCrash
  <2>8. CASE UNCHANGED vars
    BY <2>3, <2>8 DEF vars, slotVars
  <2> QED  BY <2>1, <2>2, <2>4, <2>5, <2>6, <2>7, <2>8 DEF Next
<1>3. CASE redis[t].status = "completed"
  BY <1>1, <1>2, <1>3 DEF CopyInv
<1>4. CASE redis[t].status # "completed"
  <2>1. ASSUME NEW s \in Slots, SlotStep(s)
        PROVE  slotTask'[s] = t /\ slotPc'[s] = "persist"
    <3>1. slotPc[s] # "idle" => slotTask[s] \in Tasks
      BY <1>0 DEF TypeOK
    <3>2. ASSUME NEW x \in Tasks, NEW status, SetTask(x, status)
          PROVE  status = "completed" /\ x = t
      BY <1>0, <1>4, <3>2, SetTaskWrites
    <3>3. AgentReport(s)
      BY <1>4, <2>1, <3>1, <3>2 DEF SlotStep, BeginFound, BeginMissing, GatePass, GatePark,
         AgentRepark, AgentError, Persist
    <3> QED  BY <1>0, <3>1, <3>2, <3>3 DEF TypeOK, AgentReport, Goto
  <2>2. ASSUME NEW x \in Tasks, NEW status \in Statuses \ {"completed"}
        PROVE  ~SetTask(x, status)
    BY <1>0, <1>4, <2>2, SetTaskWrites
  <2>3. ~\E x \in Tasks : ApiStep(x)
    <3>1. ASSUME NEW x \in Tasks, Submit(x) PROVE FALSE
      BY <1>0, <1>4, <3>1 DEF TypeOK, Submit
    <3> QED  BY <1>4, <2>2, <3>1 DEF ApiStep, ApiEnqueueOk, ApiEnqueueUnacked,
                                     ApiEnqueueFail, Statuses
  <2>4. ~\E w \in Workers : SupStep(w) \/ SupEnqueue(w)
    <3>1. \A w \in Workers : supPc[w] # "pass" => cur[w] \in Tasks
      BY <1>0 DEF TypeOK
    <3> QED  BY <1>4, <2>2, <3>1 DEF SupStep, SupEnqueue, SupScan, SupProbe, SupSkip,
       SupClaim, SupMark, SupEnqueueOk, SupEnqueueUnacked, SupEnqueueFail, Statuses
  <2>5. ~Environment
    <3>1. ASSUME NEW x \in Tasks, RecordExpire(x) PROVE FALSE
      BY <1>0, <1>4, <3>1 DEF TypeOK, RecordExpire, Absent
    <3> QED  BY <1>4, <3>1 DEF Environment, LockExpire, CacheExpire, EndpointFlip,
                               WorkerCrash, ApiCrash
  <2>6. ~(\E s \in Slots, x \in Tasks : Receive(s, x)) /\ ~UNCHANGED vars
    BY <1>4 DEF Receive, vars
  <2> QED  BY <2>1, <2>3, <2>4, <2>5, <2>6 DEF Next
<1> QED  BY <1>3, <1>4

(* What reads completed reads completed after every step.                  *)
LEMMA StepCompleted ==
  ASSUME IInv, Expiry => CopyInv, [Next]_vars, NEW t \in Tasks,
         GetTask(t).status = "completed"
  PROVE  GetTask(t)'.status = "completed"
<1>1. TypeOK /\ (disk[t].status = "completed" => disk'[t].status = "completed")
  BY DiskStays DEF IInv
<1>2. CASE redis'[t] = redis[t]
  BY <1>1, <1>2 DEF GetTask
<1>3. CASE RecordExpire(t)
  <2>1. redis'[t].status = "absent" /\ redis[t].status # "absent" /\ Expiry /\ ~InHand(t)
    BY <1>1, <1>3 DEF TypeOK, RecordExpire, Absent
  <2>2. redis[t].status = "completed"
    BY <2>1 DEF GetTask
  <2>3. disk[t].status = "completed"
    BY <2>1, <2>2 DEF CopyInv, InHand
  <2> QED  BY <1>1, <2>1, <2>3 DEF GetTask
<1> QED  BY <1>2, <1>3, CompletedUntouched

(* CompletedResolves for every instance in which passes fit the lock, kiq   *)
(* raises only for what was not enqueued, and no process dies between the   *)
(* record and its copy, or no record expires.                              *)
THEOREM CompletedStaysResolvable ==
  ASSUME ~SlowPasses, ~LostReplies, ~Crashes \/ ~Expiry PROVE Spec => CompletedResolves
<1>1. Init => CopyInv
  BY DEF Init, Absent, CopyInv
<1>2. IInv /\ (Expiry => CopyInv) /\ [Next]_vars => (Expiry => CopyInv)'
  BY StepCopy
<1>3. IInv /\ (Expiry => CopyInv) /\ [Next]_vars =>
        [\A t \in Tasks : GetTask(t).status = "completed" =>
                            GetTask(t)'.status = "completed"]_vars
  BY StepCompleted
<1> QED  BY <1>1, <1>2, <1>3, Invariance, PTL DEF Spec, CompletedResolves

-----------------------------------------------------------------------------
(* The refinement of TaskLifecycle.  Each step moves one task's phase, or   *)
(* none, except that a crash loses what the process held.                  *)

(* A task's phase, case by case. *)
LEMMA PhaseValue ==
  ASSUME NEW t
  PROVE  /\ t \notin minted => PhaseOf(t) = "new"
         /\ t \in minted /\ GetTask(t).status = "completed" => PhaseOf(t) = "done"
         /\ t \in minted /\ GetTask(t).status = "failed" => PhaseOf(t) = "failed"
         /\ t \in minted /\ GetTask(t).status = "queued_waiting_llm" => PhaseOf(t) = "parked"
         /\ t \in minted /\ GetTask(t).status = "absent" => PhaseOf(t) = "gone"
         /\ t \in minted /\ GetTask(t).status = "running" =>
              PhaseOf(t) = IF Executing(t) THEN "executing"
                           ELSE IF Held(t) THEN "queued" ELSE "lost"
  BY DEF PhaseOf

(* The same of the next state. *)
LEMMA PhaseValueNext ==
  ASSUME NEW t
  PROVE  /\ t \notin minted' => PhaseOf(t)' = "new"
         /\ t \in minted' /\ GetTask(t)'.status = "completed" => PhaseOf(t)' = "done"
         /\ t \in minted' /\ GetTask(t)'.status = "failed" => PhaseOf(t)' = "failed"
         /\ t \in minted' /\ GetTask(t)'.status = "queued_waiting_llm" => PhaseOf(t)' = "parked"
         /\ t \in minted' /\ GetTask(t)'.status = "absent" => PhaseOf(t)' = "gone"
         /\ t \in minted' /\ GetTask(t)'.status = "running" =>
              PhaseOf(t)' = IF Executing(t)' THEN "executing"
                            ELSE IF Held(t)' THEN "queued" ELSE "lost"
  BY DEF PhaseOf

(* Every task a party has in hand or whose record exists was minted.       *)
LEMMA HeldIsMinted ==
  ASSUME IInv, NEW t \in Tasks, Held(t) \/ redis[t].status # "absent"
  PROVE  t \in minted
  BY DEF IInv, UnmintedIsBlank, Unheld

(* A step that leaves a task's record and holders alone leaves its phase.  *)
Untouched(x) ==
  /\ x \in minted' <=> x \in minted
  /\ redis'[x] = redis[x] /\ disk'[x] = disk[x] /\ queue'[x] = queue[x]
  /\ x \in apiPending' <=> x \in apiPending
  /\ \A s \in Slots : /\ slotTask'[s] = x <=> slotTask[s] = x
                      /\ slotTask[s] = x => slotPc'[s] = slotPc[s]
  /\ \A w \in Workers : cur'[w] = x <=> cur[w] = x

(* Its phase is read off nothing else. *)
LEMMA UntouchedPhase ==
  ASSUME TypeOK, NEW x \in Tasks, Untouched(x) PROVE PhaseOf(x)' = PhaseOf(x)
<1>1. GetTask(x)' = GetTask(x)
  BY DEF Untouched, GetTask
<1>2. Executing(x)' <=> Executing(x)
  BY DEF Untouched, Executing
<1>3. Held(x)' <=> Held(x)
  BY DEF Untouched, Held
<1>4. x \in minted' <=> x \in minted
  BY DEF Untouched
<1>5. GetTask(x).status \in Statuses
  BY GetTaskType DEF Records
<1>6. CASE x \notin minted
  BY <1>4, <1>6, PhaseValue, PhaseValueNext
<1>7. CASE x \in minted /\ GetTask(x).status # "running"
  BY <1>1, <1>4, <1>5, <1>7, PhaseValue, PhaseValueNext DEF Statuses
<1>8. CASE x \in minted /\ GetTask(x).status = "running"
  BY <1>1, <1>2, <1>3, <1>4, <1>8, PhaseValue, PhaseValueNext
<1> QED  BY <1>6, <1>7, <1>8

(* The moves of the abstract specification, as the phases show them. *)
Turns(t, from, to) ==
  /\ PhaseOf(t) \in from /\ PhaseOf(t)' = to
  /\ \A x \in Tasks : x # t => PhaseOf(x)' = PhaseOf(x)

Stays == \A x \in Tasks : PhaseOf(x)' = PhaseOf(x)

(* Which of them the implementation's steps make.                          *)
Lawful ==
  \/ Stays
  \/ \E t \in Tasks :
       \/ Turns(t, {"new"}, "queued")
       \/ Turns(t, {"queued"}, "failed")
       \/ Turns(t, {"queued"}, "executing")
       \/ Turns(t, {"queued", "executing"}, "parked")
       \/ Turns(t, {"parked", "gone"}, "queued")
       \/ Turns(t, {"executing"}, "done") \/ Turns(t, {"executing"}, "failed")
       \/ Turns(t, {"gone"}, "failed")
       \/ Turns(t, {"queued", "parked", "done", "failed", "lost"}, "gone")
  \/ \A x \in Tasks :
       \/ PhaseOf(x)' = PhaseOf(x)
       \/ PhaseOf(x) \in {"queued", "executing"} /\ PhaseOf(x)' = "lost"

(* A lawful step of the phases is a step of TaskLifecycle.                 *)
LEMMA LawfulIsLifecycle ==
  ASSUME Lawful
  PROVE  [Lifecycle!Next]_([t \in Tasks |-> PhaseOf(t)])
<1> DEFINE ph == [t \in Tasks |-> PhaseOf(t)]
<1>1. ASSUME NEW t \in Tasks, NEW from, NEW to, Turns(t, from, to)
      PROVE  Lifecycle!Move(t, from, to)
  BY <1>1 DEF Turns, Lifecycle!Move
<1>2. CASE Stays
  BY <1>2 DEF Stays
<1>3. CASE \E t \in Tasks :
       \/ Turns(t, {"new"}, "queued")
       \/ Turns(t, {"queued"}, "failed")
       \/ Turns(t, {"queued"}, "executing")
       \/ Turns(t, {"queued", "executing"}, "parked")
       \/ Turns(t, {"parked", "gone"}, "queued")
       \/ Turns(t, {"executing"}, "done") \/ Turns(t, {"executing"}, "failed")
       \/ Turns(t, {"gone"}, "failed")
       \/ Turns(t, {"queued", "parked", "done", "failed", "lost"}, "gone")
  <2>1. \E t \in Tasks : \/ Lifecycle!Accept(t) \/ Lifecycle!Reject(t) \/ Lifecycle!Execute(t)
                         \/ Lifecycle!Park(t) \/ Lifecycle!Requeue(t) \/ Lifecycle!Finish(t)
                         \/ Lifecycle!ReportMissing(t) \/ Lifecycle!Forget(t)
    BY <1>1, <1>3 DEF Lifecycle!Accept, Lifecycle!Reject, Lifecycle!Execute, Lifecycle!Park,
       Lifecycle!Requeue, Lifecycle!Finish, Lifecycle!ReportMissing, Lifecycle!Forget
  <2> QED  BY <2>1 DEF Lifecycle!Next
<1>4. CASE \A x \in Tasks :
       \/ PhaseOf(x)' = PhaseOf(x)
       \/ PhaseOf(x) \in {"queued", "executing"} /\ PhaseOf(x)' = "lost"
  <2> DEFINE S == {x \in Tasks : PhaseOf(x)' # PhaseOf(x)}
  <2>1. Lifecycle!Lose(S)
    BY <1>4 DEF Lifecycle!Lose
  <2> QED  BY <2>1 DEF Lifecycle!Next
<1> QED  BY <1>2, <1>3, <1>4 DEF Lawful

(* What a task reads once set_task has written its record.                 *)
LEMMA SetTaskReads ==
  ASSUME TypeOK, NEW t \in Tasks, NEW status, status # "absent", SetTask(t, status)
  PROVE  GetTask(t)'.status = status
<1>1. redis'[t].status = status
  BY SetTaskWrites
<1> QED  BY <1>1 DEF GetTask

(* POST /run accepts a task, or rejects it again.                          *)
LEMMA ApiLawful == ASSUME IInv, ~LostReplies, NEW t \in Tasks, ApiStep(t) PROVE Lawful
<1> USE DEF storeVars, slotVars, supVars
<1>0. TypeOK /\ SoleHolder /\ HolderStatus /\ UnmintedIsBlank
  BY DEF IInv
<1>1. CASE Submit(t)
  <2>1. PhaseOf(t) = "new"
    BY <1>1, PhaseValue DEF Submit
  <2>2. ~Executing(t)'
    BY <1>0, <1>1 DEF Submit, UnmintedIsBlank, Unheld, Held, Executing
  <2>3. GetTask(t)'.status = "running" /\ t \in minted' /\ Held(t)'
    BY <1>0, <1>1 DEF TypeOK, Submit, GetTask, Held
  <2>4. ASSUME NEW x \in Tasks, x # t PROVE PhaseOf(x)' = PhaseOf(x)
    <3>1. Untouched(x)
      BY <1>0, <1>1, <2>4 DEF TypeOK, Submit, Untouched
    <3> QED  BY <1>0, <3>1, UntouchedPhase
  <2>5. Turns(t, {"new"}, "queued")
    BY <2>1, <2>2, <2>3, <2>4, PhaseValueNext DEF Turns
  <2> QED  BY <2>5 DEF Lawful
<1>2. CASE ApiEnqueueOk(t)
  <2>1. ASSUME NEW x \in Tasks, x # t PROVE PhaseOf(x)' = PhaseOf(x)
    <3>1. Untouched(x)
      BY <1>0, <1>2, <2>1 DEF TypeOK, ApiEnqueueOk, Deliver, Untouched
    <3> QED  BY <1>0, <3>1, UntouchedPhase
  <2>2. t \in minted /\ t \in minted' /\ redis[t].status = "running" /\ redis' = redis
    BY <1>0, <1>2, HeldIsMinted DEF ApiEnqueueOk, HolderStatus
  <2>3. GetTask(t).status = "running" /\ GetTask(t)'.status = "running"
    BY <2>2 DEF GetTask
  <2>4. ~Executing(t) /\ ~Executing(t)' /\ Held(t) /\ Held(t)'
    BY <1>0, <1>2, TasksAssumption DEF TypeOK, SoleHolder, ApiEnqueueOk, Deliver, Executing, Held
  <2>5. PhaseOf(t)' = PhaseOf(t)
    BY <2>2, <2>3, <2>4, PhaseValue, PhaseValueNext
  <2> QED  BY <2>1, <2>5 DEF Lawful, Stays
<1>3. CASE ApiEnqueueFail(t)
  <2>1. ASSUME NEW x \in Tasks, x # t PROVE PhaseOf(x)' = PhaseOf(x)
    <3>1. redis'[x] = redis[x]
      BY <1>0, <1>3, <2>1, SetTaskWrites DEF ApiEnqueueFail
    <3>2. Untouched(x)
      BY <1>3, <2>1, <3>1 DEF ApiEnqueueFail, Untouched
    <3> QED  BY <1>0, <3>2, UntouchedPhase
  <2>2. t \in minted /\ t \in minted' /\ redis[t].status = "running"
    BY <1>0, <1>3, HeldIsMinted DEF ApiEnqueueFail, HolderStatus
  <2>3. GetTask(t).status = "running" /\ ~Executing(t) /\ Held(t)
    BY <1>0, <1>3, <2>2, TasksAssumption DEF SoleHolder, ApiEnqueueFail, Executing, Held, GetTask
  <2>4. GetTask(t)'.status = "failed"
    BY <1>0, <1>3, SetTaskReads DEF ApiEnqueueFail
  <2>5. Turns(t, {"queued"}, "failed")
    BY <2>1, <2>2, <2>3, <2>4, PhaseValue, PhaseValueNext DEF Turns
  <2> QED  BY <2>5 DEF Lawful
<1> QED  BY <1>1, <1>2, <1>3 DEF ApiStep, ApiEnqueueUnacked

(* A slot that takes a message off the list holds what the list held.      *)
LEMMA ReceiveLawful ==
  ASSUME IInv, NEW s \in Slots, NEW t \in Tasks, Receive(s, t) PROVE Lawful
<1> USE DEF storeVars, slotVars, supVars
<1>0. TypeOK /\ SoleHolder
  BY DEF IInv
<1>1. ASSUME NEW x \in Tasks, x # t PROVE PhaseOf(x)' = PhaseOf(x)
  <2>1. Untouched(x)
    BY <1>0, <1>1, TasksAssumption DEF TypeOK, Receive, Untouched
  <2> QED  BY <1>0, <2>1, UntouchedPhase
<1>2. GetTask(t)' = GetTask(t) /\ minted' = minted /\ t \in minted
  BY HeldIsMinted DEF Receive, GetTask, Held
<1>3. ~Executing(t) /\ ~Executing(t)' /\ Held(t) /\ Held(t)'
  BY <1>0, TasksAssumption DEF TypeOK, SoleHolder, Receive, Executing, Held
<1>4. GetTask(t).status \in Statuses
  BY <1>0, GetTaskType DEF Records
<1>5. PhaseOf(t)' = PhaseOf(t)
  BY <1>2, <1>3, <1>4, PhaseValue, PhaseValueNext DEF Statuses
<1> QED  BY <1>1, <1>5 DEF Lawful, Stays

(* execute_research_task takes its task along the phases.                  *)
LEMMA SlotLawful == ASSUME IInv, NEW s \in Slots, SlotStep(s) PROVE Lawful
<1> USE DEF storeVars, slotVars, supVars
<1>0. TypeOK /\ SoleHolder /\ HolderStatus
  BY DEF IInv
<1>1. slotPc[s] # "idle" /\ slotTask[s] \in Tasks /\ slotTask[s] # NoTask
  BY <1>0, TasksAssumption DEF TypeOK, SlotStep, BeginFound, BeginMissing, GatePass, GatePark,
     AgentReport, AgentRepark, AgentError, Persist
<1>t. PICK t \in Tasks : t = slotTask[s] /\ t # NoTask
  BY <1>1
<1>2. t \in minted /\ minted' = minted
  <2>1. Held(t)
    BY <1>t DEF Held
  <2> QED  BY <2>1, HeldIsMinted DEF SlotStep, BeginFound, BeginMissing, GatePass, GatePark,
       AgentReport, AgentRepark, AgentError, Persist
<1>3. Held(t) /\ (Executing(t) <=> slotPc[s] = "agent")
  BY <1>0, <1>1, <1>t DEF SoleHolder, Executing, Held
<1>4. (\E pc : Goto(s, pc)) \/ Free(s)
  BY DEF SlotStep, BeginFound, BeginMissing, GatePass, GatePark, AgentReport, AgentRepark,
         AgentError, Persist
<1>5. \A x \in Tasks : x # t => redis'[x] = redis[x] /\ disk'[x] = disk[x]
  BY <1>0, <1>t, SetTaskWrites DEF TypeOK, SlotStep, BeginFound, BeginMissing, GatePass, GatePark,
     AgentReport, AgentRepark, AgentError, Persist
<1>6. ASSUME NEW x \in Tasks, x # t PROVE PhaseOf(x)' = PhaseOf(x)
  <2>1. UNCHANGED <<minted, queue, apiPending, cur>>
    BY DEF SlotStep, BeginFound, BeginMissing, GatePass, GatePark, AgentReport, AgentRepark,
           AgentError, Persist
  <2>2. \A y \in Slots : /\ slotTask'[y] = x <=> slotTask[y] = x
                         /\ slotTask[y] = x => slotPc'[y] = slotPc[y]
    BY <1>0, <1>4, <1>6, <1>t, TasksAssumption DEF TypeOK, Goto, Free
  <2>3. Untouched(x)
    BY <1>5, <1>6, <2>1, <2>2 DEF Untouched
  <2> QED  BY <1>0, <2>3, UntouchedPhase
<1>7. ASSUME NEW status, status # "absent", SetTask(t, status)
      PROVE  GetTask(t)'.status = status
  BY <1>0, <1>7, SetTaskReads
<1>8. CASE BeginFound(s)
  <2>1. GetTask(t)' = GetTask(t) /\ slotPc[s] = "received"
    BY <1>8 DEF BeginFound, GetTask
  <2>2. ~Executing(t)' /\ Held(t)'
    BY <1>0, <1>3, <1>8, <1>t DEF TypeOK, SoleHolder, BeginFound, Goto, Executing, Held
  <2>3. GetTask(t).status \in Statuses
    BY <1>0, GetTaskType DEF Records
  <2>4. PhaseOf(t)' = PhaseOf(t)
    BY <1>2, <1>3, <2>1, <2>2, <2>3, PhaseValue, PhaseValueNext DEF Statuses
  <2> QED  BY <1>6, <2>4 DEF Lawful, Stays
<1>9. CASE BeginMissing(s)
  <2>1. GetTask(t).status = "absent" /\ GetTask(t)'.status = "failed"
    BY <1>7, <1>9, <1>t DEF BeginMissing
  <2>2. Turns(t, {"gone"}, "failed")
    BY <1>2, <1>6, <2>1, PhaseValue, PhaseValueNext DEF Turns
  <2> QED  BY <2>2 DEF Lawful
<1>10. CASE GatePass(s)
  <2>1. redis[t].status = "running" /\ redis' = redis /\ slotPc[s] = "gate"
    BY <1>0, <1>10, <1>t DEF GatePass, HolderStatus
  <2>2. GetTask(t).status = "running" /\ GetTask(t)'.status = "running"
    BY <2>1 DEF GetTask
  <2>3. Executing(t)'
    BY <1>0, <1>10, <1>t DEF TypeOK, GatePass, Goto, Executing
  <2>4. Turns(t, {"queued"}, "executing")
    BY <1>2, <1>3, <1>6, <2>1, <2>2, <2>3, PhaseValue, PhaseValueNext DEF Turns
  <2> QED  BY <2>4 DEF Lawful
<1>11. slotPc[s] \in {"gate", "agent"} =>
         PhaseOf(t) = IF slotPc[s] = "agent" THEN "executing" ELSE "queued"
  <2> SUFFICES ASSUME slotPc[s] \in {"gate", "agent"}
               PROVE  PhaseOf(t) = IF slotPc[s] = "agent" THEN "executing" ELSE "queued"
    OBVIOUS
  <2>1. redis[t].status = "running"
    BY <1>0, <1>t DEF HolderStatus
  <2>2. GetTask(t).status = "running"
    BY <2>1 DEF GetTask
  <2> QED  BY <1>2, <1>3, <2>2, PhaseValue
<1>12. CASE GatePark(s) \/ AgentRepark(s)
  <2>1. GetTask(t)'.status = "queued_waiting_llm" /\ slotPc[s] \in {"gate", "agent"}
    BY <1>7, <1>12, <1>t DEF GatePark, AgentRepark
  <2>2. Turns(t, {"queued", "executing"}, "parked")
    BY <1>2, <1>6, <1>11, <2>1, PhaseValueNext DEF Turns
  <2> QED  BY <2>2 DEF Lawful
<1>13. CASE AgentReport(s)
  <2>1. GetTask(t)'.status = "completed" /\ slotPc[s] = "agent"
    BY <1>7, <1>13, <1>t DEF AgentReport
  <2>2. Turns(t, {"executing"}, "done")
    BY <1>2, <1>6, <1>11, <2>1, PhaseValueNext DEF Turns
  <2> QED  BY <2>2 DEF Lawful
<1>14. CASE AgentError(s)
  <2>1. GetTask(t)'.status = "failed" /\ slotPc[s] = "agent"
    BY <1>7, <1>14, <1>t DEF AgentError
  <2>2. Turns(t, {"executing"}, "failed")
    BY <1>2, <1>6, <1>11, <2>1, PhaseValueNext DEF Turns
  <2> QED  BY <2>2 DEF Lawful
<1>15. CASE Persist(s)
  <2>1. redis[t].status = "completed" /\ redis' = redis
    BY <1>0, <1>15, <1>t DEF Persist, HolderStatus
  <2>2. GetTask(t).status = "completed" /\ GetTask(t)'.status = "completed"
    BY <2>1 DEF GetTask
  <2>3. PhaseOf(t)' = PhaseOf(t)
    BY <1>2, <2>2, PhaseValue, PhaseValueNext
  <2> QED  BY <1>6, <2>3 DEF Lawful, Stays
<1> QED  BY <1>8, <1>9, <1>10, <1>12, <1>13, <1>14, <1>15 DEF SlotStep

(* A drain pass requeues what is parked, or parks it again.                *)
LEMMA SupLawful ==
  ASSUME IInv, ~LostReplies, NEW w \in Workers, SupStep(w) \/ SupEnqueue(w)
  PROVE  Lawful
<1> USE DEF storeVars, slotVars, supVars
<1>0. TypeOK /\ SoleHolder /\ HolderStatus /\ FreshOrLocked /\ DiskIsFinal
  BY DEF IInv
<1>1. ASSUME UNCHANGED <<minted, storeVars, queue, apiPending, slotVars, cur>> PROVE Lawful
  <2>1. \A x \in Tasks : Untouched(x)
    BY <1>1 DEF Untouched
  <2> QED  BY <1>0, <2>1, UntouchedPhase DEF Lawful, Stays
<1>2. CASE SupScan(w) \/ SupProbe(w) \/ \E t \in Tasks : SupSkip(w, t)
  BY <1>1, <1>2 DEF SupScan, SupProbe, SupSkip
<1>3. ASSUME NEW t \in Tasks, SupClaim(w, t) PROVE Lawful
  <2>1. ASSUME NEW x \in Tasks, x # t PROVE PhaseOf(x)' = PhaseOf(x)
    <3>1. Untouched(x)
      BY <1>0, <1>3, <2>1, TasksAssumption DEF TypeOK, SupClaim, Untouched
    <3> QED  BY <1>0, <3>1, UntouchedPhase
  <2>2. redis[t].status \in {"queued_waiting_llm", "absent"}
    BY <1>0, <1>3 DEF FreshOrLocked, SupClaim, Snap
  <2>3. GetTask(t).status \in {"queued_waiting_llm", "absent", "completed"}
    BY <1>0, <2>2 DEF DiskIsFinal, GetTask
  <2>4. GetTask(t)' = GetTask(t) /\ minted' = minted
    BY <1>3 DEF SupClaim, GetTask
  <2>5. PhaseOf(t)' = PhaseOf(t)
    BY <2>3, <2>4, PhaseValue, PhaseValueNext
  <2> QED  BY <2>1, <2>5 DEF Lawful, Stays
<1>4. CASE SupMark(w) \/ SupEnqueueOk(w) \/ SupEnqueueFail(w)
  <2>1. supPc[w] # "pass"
    BY <1>4 DEF SupMark, SupEnqueueOk, SupEnqueueFail
  <2>t. PICK t \in Tasks : t = cur[w] /\ t # NoTask
    BY <1>0, <2>1, TasksAssumption DEF TypeOK
  <2>2. Held(t)
    BY <2>t DEF Held
  <2>3. t \in minted /\ minted' = minted
    BY <1>4, <2>2, HeldIsMinted DEF SupMark, SupEnqueueOk, SupEnqueueFail
  <2>4. ~Executing(t) /\ ~Executing(t)'
    BY <1>0, <1>4, <2>t DEF SoleHolder, Executing, SupMark, SupEnqueueOk, SupEnqueueFail
  <2>5. disk[t].status = "absent"
    BY <1>0, <2>2 DEF DiskIsFinal, Unheld
  <2>6. ASSUME NEW x \in Tasks, x # t PROVE PhaseOf(x)' = PhaseOf(x)
    <3>1. redis'[x] = redis[x]
      BY <1>0, <1>4, <2>t, <2>6, SetTaskWrites DEF SupMark, SupEnqueueOk, SupEnqueueFail
    <3>2. \A v \in Workers : cur'[v] = x <=> cur[v] = x
      BY <1>0, <1>4, <2>t, <2>6, TasksAssumption
         DEF TypeOK, SupMark, SupEnqueueOk, SupEnqueueFail, Release
    <3>3. queue'[x] = queue[x]
      BY <1>0, <1>4, <2>t, <2>6 DEF TypeOK, SupMark, SupEnqueueOk, SupEnqueueFail, Deliver
    <3>4. UNCHANGED <<minted, disk, apiPending, slotVars>>
      BY <1>4 DEF SupMark, SupEnqueueOk, SupEnqueueFail
    <3>5. Untouched(x)
      BY <3>1, <3>2, <3>3, <3>4 DEF Untouched
    <3> QED  BY <1>0, <3>5, UntouchedPhase
  <2>7. CASE SupMark(w)
    <3>1. GetTask(t).status \in {"queued_waiting_llm", "absent"}
      BY <1>0, <2>7, <2>t, <2>5 DEF SupMark, HolderStatus, GetTask
    <3>2. GetTask(t)'.status = "running"
      BY <1>0, <2>7, <2>t, SetTaskReads DEF SupMark
    <3>3. Held(t)'
      BY <2>7, <2>t DEF SupMark, Held
    <3>4. Turns(t, {"parked", "gone"}, "queued")
      BY <2>3, <2>4, <2>6, <3>1, <3>2, <3>3, PhaseValue, PhaseValueNext DEF Turns
    <3> QED  BY <3>4 DEF Lawful
  <2>8. CASE SupEnqueueOk(w)
    <3>1. redis[t].status = "running" /\ redis' = redis
      BY <1>0, <2>8, <2>t DEF SupEnqueueOk, HolderStatus
    <3>2. GetTask(t).status = "running" /\ GetTask(t)'.status = "running"
      BY <3>1 DEF GetTask
    <3>3. Held(t)'
      BY <1>0, <2>8, <2>t DEF TypeOK, SupEnqueueOk, Deliver, Held
    <3>4. PhaseOf(t)' = PhaseOf(t)
      BY <2>2, <2>3, <2>4, <3>2, <3>3, PhaseValue, PhaseValueNext
    <3> QED  BY <2>6, <3>4 DEF Lawful, Stays
  <2>9. CASE SupEnqueueFail(w)
    <3>1. redis[t].status = "running"
      BY <1>0, <2>9, <2>t DEF SupEnqueueFail, HolderStatus
    <3>2. GetTask(t).status = "running"
      BY <3>1 DEF GetTask
    <3>3. GetTask(t)'.status = "queued_waiting_llm"
      BY <1>0, <2>9, <2>t, SetTaskReads DEF SupEnqueueFail
    <3>4. Turns(t, {"queued", "executing"}, "parked")
      BY <2>2, <2>3, <2>4, <2>6, <3>2, <3>3, PhaseValue, PhaseValueNext DEF Turns
    <3> QED  BY <3>4 DEF Lawful
  <2> QED  BY <1>4, <2>7, <2>8, <2>9
<1> QED  BY <1>2, <1>3, <1>4 DEF SupStep, SupEnqueue, SupEnqueueUnacked


(* A record that expires is forgotten; a process that dies loses the tasks *)
(* it alone held.                                                          *)
LEMMA EnvironmentLawful == ASSUME IInv, Environment PROVE Lawful
<1> USE DEF storeVars, slotVars, supVars
<1>0. TypeOK /\ SoleHolder /\ DiskIsFinal
  BY DEF IInv
<1>1. ASSUME UNCHANGED <<minted, storeVars, queue, apiPending, slotVars, cur>> PROVE Lawful
  <2>1. \A x \in Tasks : Untouched(x)
    BY <1>1 DEF Untouched
  <2> QED  BY <1>0, <2>1, UntouchedPhase DEF Lawful, Stays
<1>2. CASE \/ \E t \in Tasks : LockExpire(t)
           \/ \E w \in Workers, u \in Urls : CacheExpire(w, u)
           \/ \E c \in Configs : EndpointFlip(c)
  BY <1>1, <1>2 DEF LockExpire, CacheExpire, EndpointFlip
<1>3. ASSUME NEW t \in Tasks, RecordExpire(t) PROVE Lawful
  <2>1. ASSUME NEW x \in Tasks, x # t PROVE PhaseOf(x)' = PhaseOf(x)
    <3>1. Untouched(x)
      BY <1>0, <1>3, <2>1 DEF TypeOK, RecordExpire, Untouched
    <3> QED  BY <1>0, <3>1, UntouchedPhase
  <2>2. t \in minted /\ minted' = minted
    BY <1>3, HeldIsMinted DEF RecordExpire
  <2>3. GetTask(t)' = disk[t] /\ GetTask(t) = redis[t] /\ redis[t].status # "absent"
    BY <1>0, <1>3 DEF TypeOK, RecordExpire, GetTask, Absent
  <2>4. CASE disk[t].status = "absent"
    <3>1. ~Executing(t)
      BY <1>3 DEF RecordExpire, InHand, Executing
    <3>2. redis[t].status \in Statuses
      BY <1>0 DEF TypeOK, Records
    <3>3. PhaseOf(t) \in {"queued", "parked", "done", "failed", "lost"}
      BY <2>2, <2>3, <3>1, <3>2, PhaseValue DEF Statuses
    <3>4. Turns(t, {"queued", "parked", "done", "failed", "lost"}, "gone")
      BY <2>1, <2>2, <2>3, <2>4, <3>3, PhaseValueNext DEF Turns
    <3> QED  BY <3>4 DEF Lawful
  <2>5. CASE disk[t].status # "absent"
    <3>1. GetTask(t).status = "completed" /\ GetTask(t)'.status = "completed"
      BY <1>0, <2>3, <2>5 DEF DiskIsFinal
    <3>2. PhaseOf(t)' = PhaseOf(t)
      BY <2>2, <3>1, PhaseValue, PhaseValueNext
    <3> QED  BY <2>1, <3>2 DEF Lawful, Stays
  <2> QED  BY <2>4, <2>5
<1>4. CASE ApiCrash \/ \E w \in Workers : WorkerCrash(w)
  <2>1. UNCHANGED <<minted, redis, disk, queue>>
    BY <1>4 DEF ApiCrash, WorkerCrash
  <2>2. ASSUME NEW x \in Tasks
        PROVE  \/ PhaseOf(x)' = PhaseOf(x)
               \/ PhaseOf(x) \in {"queued", "executing"} /\ PhaseOf(x)' = "lost"
    <3>1. GetTask(x)' = GetTask(x) /\ GetTask(x).status \in Statuses
      BY <1>0, <2>1, GetTaskType DEF GetTask, Records
    <3>2. CASE x \notin minted \/ GetTask(x).status # "running"
      BY <2>1, <3>1, <3>2, PhaseValue, PhaseValueNext DEF Statuses
    <3>3. CASE x \in minted /\ GetTask(x).status = "running"
      <4>1. Executing(x)' => Executing(x)
        BY <1>0, <1>4, TasksAssumption DEF TypeOK, ApiCrash, WorkerCrash, Executing
      <4>2. Held(x)' => Held(x)
        BY <1>0, <1>4, TasksAssumption DEF TypeOK, ApiCrash, WorkerCrash, Held
      <4>3. Executing(x) => Executing(x)' \/ ~Held(x)'
        <5>1. ASSUME NEW s \in Slots, slotTask[s] = x, slotPc[s] = "agent"
              PROVE  Executing(x)' \/ ~Held(x)'
          <6>1. /\ queue[x] = 0 /\ x \notin apiPending
                /\ \A y \in Slots : slotTask[y] = x => y = s
                /\ \A w \in Workers : cur[w] # x
            BY <1>0, <5>1, TasksAssumption DEF SoleHolder
          <6>2. CASE ApiCrash
            BY <5>1, <6>2 DEF ApiCrash, Executing
          <6>3. ASSUME NEW w \in Workers, WorkerCrash(w) PROVE Executing(x)' \/ ~Held(x)'
            <7>1. CASE SlotWorker[s] = w
              BY <1>0, <5>1, <6>1, <6>3, <7>1, TasksAssumption DEF TypeOK, WorkerCrash, Held
            <7>2. CASE SlotWorker[s] # w
              BY <1>0, <5>1, <6>3, <7>2 DEF TypeOK, WorkerCrash, Executing
            <7> QED  BY <7>1, <7>2
          <6> QED  BY <1>4, <6>2, <6>3
        <5> QED  BY <5>1 DEF Executing
      <4>4. Executing(x) => Held(x)
        BY DEF Executing, Held
      <4>5. Executing(x)' => Held(x)'
        BY DEF Executing, Held
      <4> QED  BY <2>1, <3>1, <3>3, <4>1, <4>2, <4>3, <4>4, <4>5, PhaseValue, PhaseValueNext
    <3> QED  BY <3>2, <3>3
  <2> QED  BY <2>2 DEF Lawful
<1> QED  BY <1>2, <1>3, <1>4 DEF Environment

(* Every step of the queue is a lawful step of the phases.                 *)
LEMMA StepLawful == ASSUME IInv, ~LostReplies, [Next]_vars PROVE Lawful
<1>1. CASE UNCHANGED vars
  <2>1. TypeOK /\ \A x \in Tasks : Untouched(x)
    BY <1>1 DEF IInv, vars, storeVars, slotVars, supVars, Untouched
  <2> QED  BY <2>1, UntouchedPhase DEF Lawful, Stays
<1> QED  BY <1>1, ApiLawful, ReceiveLawful, SlotLawful, SupLawful, EnvironmentLawful DEF Next

(* At the start no task is accepted.                                       *)
LEMMA InitLifecycle == Init => Lifecycle!Init
<1>1. ASSUME Init, NEW t \in Tasks PROVE PhaseOf(t) = "new"
  BY <1>1, PhaseValue DEF Init
<1> QED  BY <1>1 DEF Lifecycle!Init

(* The queue implements TaskLifecycle (ResearchQueue.Refines): whatever the *)
(* processes, locks and lists do, crashes and expiring records included, a *)
(* client sees each task move through its phases and in no other order.    *)
THEOREM LifecycleIsRefined == ASSUME ~SlowPasses, ~LostReplies PROVE Spec => Refines
<1>1. Init => Lifecycle!Init
  BY InitLifecycle
<1>2. IInv /\ [Next]_vars => [Lifecycle!Next]_([t \in Tasks |-> PhaseOf(t)])
  BY StepLawful, LawfulIsLifecycle
<1> QED  BY <1>1, <1>2, Invariance, PTL DEF Spec, Refines, Lifecycle!Spec


=============================================================================
