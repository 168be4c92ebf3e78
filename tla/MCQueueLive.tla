---------------------------- MODULE MCQueueLive ----------------------------
(***************************************************************************)
(* What must eventually happen in ResearchQueue, on two shapes of one      *)
(* instance.  Either two accepted tasks with endpoints of their own share  *)
(* worker w1, or one task, t2, is submitted to a pair of workers (t1 is    *)
(* long completed) and its endpoint goes up once.  The reply to an enqueue *)
(* by the API or by w2 may be lost.  The initial state chooses the shape.  *)
(***************************************************************************)
EXTENDS MCResearchQueue

Idle ==
  /\ apiPending = {} /\ locks = {}
  /\ slotPc = [s \in Slots |-> "idle"] /\ slotTask = [s \in Slots |-> NoTask]
  /\ supPc = [w \in Workers |-> "pass"] /\ cur = [w \in Workers |-> NoTask]
  /\ todo = [w \in Workers |-> {}] /\ group = todo /\ stale = todo
  /\ cache = [w \in Workers |-> [u \in Urls |-> "unknown"]]
  /\ up \in [Configs -> BOOLEAN]

(* POST /run has accepted both tasks *)
TwoInit ==
  /\ Idle /\ minted = Tasks
  /\ redis = [t \in Tasks |-> [status |-> "running", owned |-> TRUE]]
  /\ disk = [t \in Tasks |-> Absent]
  /\ queue = [t \in Tasks |-> 1]

(* t1's Redis record has expired, its disk copy has not *)
Pair == t1 \in minted /\ redis[t1].status = "absent"

PairInit ==
  /\ Idle /\ up[c1] /\ minted = {t1}
  /\ redis = [t \in Tasks |-> Absent]
  /\ disk = [redis EXCEPT ![t1] = [status |-> "completed", owned |-> TRUE]]
  /\ queue = [t \in Tasks |-> 0]

LiveInit == TwoInit \/ PairInit

(* Next, without what the shapes leave out *)
Answered(w) == SupEnqueueOk(w) \/ SupEnqueueFail(w)

LiveNext ==
  \/ \E t \in Tasks : ApiStep(t) \/ LockExpire(t)
  \/ \E s \in Slots, t \in Tasks : Receive(s, t)
  \/ \E s \in Slots : SlotStep(s)
  \/ SupStep(w1)
  \/ Pair /\ SupStep(w2)
  \/ Answered(w1)
  \/ SupEnqueue(w2)
  \/ \E w \in Workers, u \in Urls : CacheExpire(w, u)
  \/ \E c \in Configs : (Pair => ~up[c]) /\ EndpointFlip(c)

(* The fairness of ResearchQueue on those steps *)
LiveFairness ==
  /\ \A t \in Tasks :
       /\ WF_vars(ApiAnswered(t)) /\ WF_vars(LockExpire(t))
       /\ SF_vars(Received(t)) /\ SF_vars(Reenqueued(t))
  /\ \A s \in Slots : WF_vars(SlotStep(s))
  /\ WF_vars(SupStep(w1)) /\ WF_vars(Pair /\ SupStep(w2))
  /\ WF_vars(Answered(w1)) /\ WF_vars(SupEnqueue(w2))
  /\ \A w \in Workers, u \in Urls : WF_vars(CacheExpire(w, u))

LiveSpec == LiveInit /\ [][LiveNext]_vars /\ LiveFairness

=============================================================================
