-------------------------- MODULE TenantGateProofs --------------------------
(***************************************************************************)
(* What TenantGate promises for any number of requests, keys and quotas,   *)
(* any TTL, lookup lag and window, and whatever service may raise: each     *)
(* theorem allows every fault set.                                         *)
(*                                                                         *)
(* A step of a request replaces its record and its place and touches       *)
(* nothing of the other requests (Moves); what it does besides is to a     *)
(* cache entry or to a counter.  The invariants speak of one request, one  *)
(* entry or one window at a time, so each step disturbs one instance.      *)
(***************************************************************************)
EXTENDS TenantGate, TLAPS

Places == {"idle", "look", "read", "store", "consume", "ttl", "serve"}

RequestType ==
  [key : Keys \cup {NoKey}, scope : Scopes, stage : {"gate", "route"},
   principal : Principals, lag : 0..Lag, old : 0..Forgotten,
   billed : BOOLEAN, blip : BOOLEAN]

EntryType == [principal : Principals, left : -1..Ttl, old : 0..Forgotten]

WindowType == [admitted : 0..CountCap("work"), least : 1..MaxQuota]

RowsTyped ==
  /\ faults \in FaultSets
  /\ keys \in [Keys -> {"none", "active", "revoked"}]
  /\ quota \in Quotas \cup {0}

CacheTyped ==
  /\ cache \in [Keys -> EntryType]
  /\ \A k \in Keys : cache[k].left = -1 => cache[k] = Empty

LimiterTyped ==
  /\ count \in [Scopes -> 0..CountCap("work")]
  /\ left \in [Scopes -> 0..Window]
  /\ window \in [Scopes -> WindowType]

RequestsTyped ==
  /\ pc \in [Requests -> Places]
  /\ req \in [Requests -> RequestType]
  /\ \A r \in Requests : pc[r] = "idle" <=> req[r].key = NoKey
  /\ \A r \in Requests : pc[r] \in {"consume", "ttl"} => req[r].principal # None

(* TypeOK is the conjunction of the four parts. *)
LEMMA TypeParts == TypeOK <=> RowsTyped /\ CacheTyped /\ LimiterTyped /\ RequestsTyped
  BY DEF TypeOK, RowsTyped, CacheTyped, LimiterTyped, RequestsTyped,
         RequestType, EntryType, WindowType, Places

(* The same of the next state. *)
LEMMA TypePartsNext == RowsTyped' /\ CacheTyped' /\ LimiterTyped' /\ RequestsTyped' => TypeOK'
  BY DEF TypeOK, RowsTyped, CacheTyped, LimiterTyped, RequestsTyped,
         RequestType, EntryType, WindowType, Places

(* The next values of request r: its place and its record, and no other's *)
Moves(r, at, new) ==
  /\ pc' = [pc EXCEPT ![r] = at]
  /\ req' = [req EXCEPT ![r] = new]

(* The records the steps put in the place of q *)
Passed(q, billed, blip) ==
  [q EXCEPT !.stage = "route", !.principal = None, !.lag = 0, !.old = 0,
            !.billed = billed, !.blip = @ \/ blip]

Holding(q, principal) == [q EXCEPT !.principal = principal, !.lag = 0, !.old = 0]

-----------------------------------------------------------------------------
(* The ranges of the constants, as plain facts about numbers. *)
LEMMA Ranges ==
  /\ Ttl \in Nat /\ Lag \in Nat /\ Window \in Nat /\ Window > 0 /\ MaxQuota \in Nat
  /\ ReadQuota \in 1..MaxQuota /\ MaxQuota > 0
  /\ \A q \in Quotas : q \in 1..MaxQuota
  /\ None = 0 /\ None \notin Quotas
  /\ Forgotten = Ttl + Lag + 2
  /\ CountCap("work") = 1 + MaxQuota /\ CountCap("read") = 1 + ReadQuota
  BY NumbersAssumption DEF None, Forgotten, CountCap

(* The records are requests again when q was one. *)
LEMMA RecordsTyped ==
  ASSUME NEW q \in RequestType, NEW p \in Principals,
         NEW billed \in BOOLEAN, NEW blip \in BOOLEAN
  PROVE  /\ Nothing \in RequestType
         /\ Passed(q, billed, blip) \in RequestType
         /\ Holding(q, p) \in RequestType
<1>1. 0 \in 0..Lag /\ 0 \in 0..Forgotten
  BY Ranges
<1>2. (q.blip \/ blip) \in BOOLEAN
  OBVIOUS
<1>3. None \in Principals
  BY DEF Principals
<1>4. Nothing \in RequestType
  BY <1>1, <1>3 DEF Nothing, RequestType, Scopes
<1>5. Passed(q, billed, blip) \in RequestType
  BY <1>1, <1>2, <1>3 DEF Passed, RequestType
<1>6. Holding(q, p) \in RequestType
  BY <1>1 DEF Holding, RequestType
<1> QED  BY <1>4, <1>5, <1>6

(* What the new records keep of q, and what they set. *)
LEMMA PassedFields ==
  ASSUME NEW q \in RequestType, NEW billed, NEW blip
  PROVE  /\ Passed(q, billed, blip).key = q.key /\ Passed(q, billed, blip).scope = q.scope
         /\ Passed(q, billed, blip).stage = "route"
         /\ Passed(q, billed, blip).lag = 0 /\ Passed(q, billed, blip).old = 0
  BY DEF Passed, RequestType

(* ... the flags apart. *)
LEMMA PassedFlags ==
  ASSUME NEW q \in RequestType, NEW billed \in BOOLEAN, NEW blip \in BOOLEAN
  PROVE  /\ Passed(q, billed, blip).billed = billed
         /\ Passed(q, billed, blip).blip = (q.blip \/ blip)
  BY DEF Passed, RequestType

(* The same for the principal a request takes over. *)
LEMMA HoldingFields ==
  ASSUME NEW q \in RequestType, NEW p
  PROVE  /\ Holding(q, p).key = q.key /\ Holding(q, p).scope = q.scope
         /\ Holding(q, p).stage = q.stage
         /\ Holding(q, p).principal = p
         /\ Holding(q, p).lag = 0 /\ Holding(q, p).old = 0
         /\ Holding(q, p).billed = q.billed /\ Holding(q, p).blip = q.blip
  BY DEF Holding, RequestType

(* What Moves says of every request. *)
LEMMA Moved ==
  ASSUME RequestsTyped, NEW r \in Requests, NEW at \in Places, NEW new \in RequestType,
         Moves(r, at, new)
  PROVE  /\ pc'[r] = at /\ req'[r] = new
         /\ \A o \in Requests : o # r => pc'[o] = pc[o] /\ req'[o] = req[o]
         /\ pc' \in [Requests -> Places] /\ req' \in [Requests -> RequestType]
  BY DEF Moves, RequestsTyped

(* The types of the requests survive a move to a place the record fits. *)
LEMMA MoveTyped ==
  ASSUME RequestsTyped, NEW r \in Requests, NEW at \in Places, NEW new \in RequestType,
         Moves(r, at, new),
         at = "idle" <=> new.key = NoKey,
         at \in {"consume", "ttl"} => new.principal # None
  PROVE  RequestsTyped'
<1>1. /\ pc'[r] = at /\ req'[r] = new
      /\ \A o \in Requests : o # r => pc'[o] = pc[o] /\ req'[o] = req[o]
      /\ pc' \in [Requests -> Places] /\ req' \in [Requests -> RequestType]
  BY Moved
<1>2. ASSUME NEW o \in Requests  PROVE (pc'[o] = "idle" <=> req'[o].key = NoKey)
  BY <1>1 DEF RequestsTyped
<1>3. ASSUME NEW o \in Requests, pc'[o] \in {"consume", "ttl"}
      PROVE  req'[o].principal # None
  BY <1>1, <1>3 DEF RequestsTyped
<1> QED  BY <1>1, <1>2, <1>3 DEF RequestsTyped

(* Holding a principal, as the code's assignments to the fields. *)
LEMMA HoldingMoves ==
  ASSUME RequestsTyped, NEW r \in Requests, NEW at, NEW p \in Principals,
         pc' = [pc EXCEPT ![r] = at],
         req' = [req EXCEPT ![r].principal = p, ![r].lag = 0, ![r].old = 0]
  PROVE  Moves(r, at, Holding(req[r], p))
<1>1. req \in [Requests -> RequestType] /\ req[r] \in RequestType
  BY DEF RequestsTyped
<1>2. [req[r] EXCEPT !.principal = p, !.lag = 0, !.old = 0] = Holding(req[r], p)
  BY Zenon DEF Holding
<1>3. req' = [req EXCEPT ![r] = [req[r] EXCEPT !.principal = p, !.lag = 0, !.old = 0]]
  BY <1>1
<1> QED  BY <1>2, <1>3 DEF Moves

(* The same for going on to the route. *)
LEMMA CallNextMoves ==
  ASSUME RequestsTyped, NEW r \in Requests, NEW billed \in BOOLEAN, NEW blip \in BOOLEAN,
         CallNext(r, billed, blip)
  PROVE  Moves(r, "look", Passed(req[r], billed, blip))
<1>1. req \in [Requests -> RequestType] /\ req[r] \in RequestType
  BY DEF RequestsTyped
<1> DEFINE x == req[r].blip \/ blip
           q == [req[r] EXCEPT !.stage = "route", !.principal = None, !.lag = 0, !.old = 0,
                               !.billed = billed, !.blip = @ \/ blip]
<1>2. q = Passed(req[r], billed, blip)
  BY Zenon DEF Passed
<1>3. req' = [req EXCEPT ![r] = q]
  BY <1>1 DEF CallNext
<1> QED  BY <1>2, <1>3 DEF Moves, CallNext

(* An answer moves the request on, to one of four places. *)
LEMMA AnswerMoves ==
  ASSUME RequestsTyped, NEW r \in Requests, NEW p \in Principals, NEW blip \in BOOLEAN,
         Answer(r, p, blip)
  PROVE  \/ req[r].stage = "gate" /\ p = None /\ Moves(r, "look", Passed(req[r], FALSE, blip))
         \/ req[r].stage = "gate" /\ p # None /\ Moves(r, "consume", Holding(req[r], p))
         \/ req[r].stage = "route" /\ p = None /\ Moves(r, "idle", Nothing)
         \/ req[r].stage = "route" /\ p # None /\ Moves(r, "serve", Holding(req[r], None))
<1>1. req[r] \in RequestType /\ req[r].stage \in {"gate", "route"}
  BY DEF RequestsTyped, RequestType
<1>2. CASE req[r].stage = "gate" /\ p = None
  <2>1. CallNext(r, FALSE, blip)
    BY <1>2, Zenon DEF Answer
  <2> QED  BY <1>2, <2>1, CallNextMoves
<1>3. CASE req[r].stage = "gate" /\ p # None
  <2>1. /\ pc' = [pc EXCEPT ![r] = "consume"]
        /\ req' = [req EXCEPT ![r].principal = p, ![r].lag = 0, ![r].old = 0]
    BY <1>3 DEF Answer
  <2>2. Moves(r, "consume", Holding(req[r], p))
    BY <2>1, HoldingMoves
  <2> QED  BY <1>3, <2>2
<1>4. CASE req[r].stage = "route" /\ p = None
  <2>1. Done(r)
    BY <1>4 DEF Answer
  <2> QED  BY <1>4, <2>1 DEF Done, Moves
<1>5. CASE req[r].stage = "route" /\ p # None
  <2>1. /\ pc' = [pc EXCEPT ![r] = "serve"]
        /\ req' = [req EXCEPT ![r].principal = None, ![r].lag = 0, ![r].old = 0]
    BY <1>5 DEF Answer
  <2>2. Moves(r, "serve", Holding(req[r], None))
    BY <2>1, HoldingMoves, None \in Principals DEF Principals
  <2> QED  BY <1>5, <2>2
<1> QED  BY <1>1, <1>2, <1>3, <1>4, <1>5

-----------------------------------------------------------------------------
(* The requests keep their types when one of them goes on to the route. *)
LEMMA CallNextTyped ==
  ASSUME RequestsTyped, NEW r \in Requests, pc[r] # "idle",
         NEW billed \in BOOLEAN, NEW blip \in BOOLEAN, CallNext(r, billed, blip)
  PROVE  RequestsTyped'
<1>1. req[r] \in RequestType /\ req[r].key # NoKey
  BY DEF RequestsTyped
<1>2. None \in Principals
  BY DEF Principals
<1> DEFINE new == Passed(req[r], billed, blip)
<1>3. new \in RequestType
  BY <1>1, <1>2, RecordsTyped
<1>4. new.key = req[r].key
  BY <1>1, PassedFields
<1>5. Moves(r, "look", new)
  BY CallNextMoves
<1> HIDE DEF new
<1> QED  BY <1>1, <1>3, <1>4, <1>5, MoveTyped DEF Places

(* ... or is done. *)
LEMMA DoneTyped ==
  ASSUME RequestsTyped, NEW r \in Requests, Done(r)
  PROVE  RequestsTyped'
<1>1. Moves(r, "idle", Nothing)
  BY DEF Moves, Done
<1>2. Nothing.key = NoKey
  BY DEF Nothing
<1>3. Nothing \in RequestType
  BY RecordsTyped, req[r] \in RequestType, None \in Principals DEF RequestsTyped, Principals
<1> QED  BY <1>1, <1>2, <1>3, MoveTyped DEF Places

(* ... or is answered by resolve_principal. *)
LEMMA AnswerTyped ==
  ASSUME RequestsTyped, NEW r \in Requests, pc[r] # "idle",
         NEW p \in Principals, NEW blip \in BOOLEAN, Answer(r, p, blip)
  PROVE  RequestsTyped'
<1>1. req[r] \in RequestType /\ req[r].key # NoKey
  BY DEF RequestsTyped
<1>2. None \in Principals
  BY DEF Principals
<1>3. \/ Moves(r, "look", Passed(req[r], FALSE, blip))
      \/ p # None /\ Moves(r, "consume", Holding(req[r], p))
      \/ Moves(r, "idle", Nothing)
      \/ Moves(r, "serve", Holding(req[r], None))
  BY AnswerMoves
<1>4. /\ Nothing \in RequestType /\ Passed(req[r], FALSE, blip) \in RequestType
      /\ Holding(req[r], p) \in RequestType /\ Holding(req[r], None) \in RequestType
  BY <1>1, <1>2, RecordsTyped
<1>5. /\ Passed(req[r], FALSE, blip).key = req[r].key
      /\ Holding(req[r], p).key = req[r].key /\ Holding(req[r], p).principal = p
      /\ Holding(req[r], None).key = req[r].key
      /\ Nothing.key = NoKey
  <2>1. Passed(req[r], FALSE, blip).key = req[r].key
    BY <1>1 DEF Passed, RequestType
  <2>2. /\ Holding(req[r], p).key = req[r].key /\ Holding(req[r], p).principal = p
        /\ Holding(req[r], None).key = req[r].key
    BY <1>1, HoldingFields
  <2>3. Nothing.key = NoKey
    BY DEF Nothing
  <2> QED  BY <2>1, <2>2, <2>3
<1>6. "look" \in Places /\ "consume" \in Places /\ "idle" \in Places /\ "serve" \in Places
  BY DEF Places
<1>7. CASE Moves(r, "look", Passed(req[r], FALSE, blip))
  BY <1>1, <1>4, <1>5, <1>6, <1>7, MoveTyped
<1>8. CASE p # None /\ Moves(r, "consume", Holding(req[r], p))
  BY <1>1, <1>4, <1>5, <1>6, <1>8, MoveTyped
<1>9. CASE Moves(r, "idle", Nothing)
  BY <1>4, <1>5, <1>6, <1>9, MoveTyped
<1>10. CASE Moves(r, "serve", Holding(req[r], None))
  BY <1>1, <1>4, <1>5, <1>6, <1>10, MoveTyped
<1> QED  BY <1>3, <1>7, <1>8, <1>9, <1>10

(* What a request is limited to is one of the quotas. *)
LEMMA LimitRange ==
  ASSUME RequestsTyped, NEW r \in Requests, pc[r] \in {"consume", "ttl"}
  PROVE  /\ req[r].scope \in Scopes /\ Limit(r) \in 1..MaxQuota
         /\ Limit(r) < CountCap(req[r].scope)
<1>1. req[r] \in RequestType /\ req[r].principal # None
  BY DEF RequestsTyped
<1>2. req[r].scope \in Scopes /\ req[r].principal \in Quotas
  BY <1>1 DEF RequestType, Principals
<1> QED  BY <1>2, Ranges DEF Limit, Scopes

(* A counter and the window's history, one increment later. *)
LEMMA CountStep ==
  ASSUME RequestsTyped, LimiterTyped, NEW r \in Requests, pc[r] = "consume",
         NEW admitted \in BOOLEAN,
         Incr(Bucket(req[r].scope)), Note(r, admitted)
  PROVE  LET s == req[r].scope  cap == CountCap(s) IN
         /\ s \in Scopes /\ cap \in Nat
         /\ count'[s] = UpTo(cap, count[s] + 1)
         /\ window'[s].admitted = UpTo(cap, window[s].admitted + IF admitted THEN 1 ELSE 0)
         /\ window'[s].least = IF Limit(r) < window[s].least THEN Limit(r) ELSE window[s].least
         /\ \A o \in Scopes : o # s => count'[o] = count[o] /\ window'[o] = window[o]
         /\ LimiterTyped'
<1> DEFINE s == req[r].scope
           cap == CountCap(s)
<1>1. s \in Scopes /\ Bucket(s) = s /\ cap \in Nat /\ cap > 0 /\ cap <= CountCap("work")
  BY LimitRange, Ranges DEF Bucket, Scopes
<1>2. Limit(r) \in 1..MaxQuota
  BY LimitRange
<1>3. CountCap("work") \in Nat
  BY Ranges
<1>4. count[s] \in 0..CountCap("work") /\ left[s] \in 0..Window /\ window[s] \in WindowType
  BY <1>1 DEF LimiterTyped
<1>5. /\ window[s].admitted \in 0..CountCap("work") /\ window[s].least \in 1..MaxQuota
  BY <1>4 DEF WindowType
<1> DEFINE n == UpTo(cap, count[s] + 1)
           a == UpTo(cap, window[s].admitted + IF admitted THEN 1 ELSE 0)
           l == IF Limit(r) < window[s].least THEN Limit(r) ELSE window[s].least
<1>6. n \in 0..CountCap("work")
  BY <1>1, <1>3, <1>4 DEF UpTo
<1>7. a \in 0..CountCap("work")
  <2>1. (IF admitted THEN 1 ELSE 0) \in {0, 1}
    BY Zenon
  <2> QED  BY <2>1, <1>1, <1>3, <1>5 DEF UpTo
<1>8. l \in 1..MaxQuota
  BY <1>2, <1>5
<1>9. count' = [count EXCEPT ![s] = n]
  BY <1>1 DEF Incr
<1>10. left' = [left EXCEPT ![s] = IF left[s] = 0 THEN Window ELSE left[s]]
  BY <1>1 DEF Incr
<1>11. window' = [window EXCEPT ![s] = [admitted |-> a, least |-> l]]
  BY Zenon DEF Note
<1> HIDE DEF n, a, l, cap, s
<1>12. LimiterTyped'
  <2>1. [admitted |-> a, least |-> l] \in WindowType
    BY <1>7, <1>8 DEF WindowType
  <2>2. (IF left[s] = 0 THEN Window ELSE left[s]) \in 0..Window
    BY <1>4, Ranges
  <2> QED  BY <1>1, <1>6, <1>9, <1>10, <1>11, <2>1, <2>2 DEF LimiterTyped
<1>13. count'[s] = n /\ window'[s] = [admitted |-> a, least |-> l]
       /\ \A o \in Scopes : o # s => count'[o] = count[o] /\ window'[o] = window[o]
  BY <1>1, <1>9, <1>11 DEF LimiterTyped
<1> QED  BY <1>1, <1>12, <1>13 DEF n, a, l, cap, s

-----------------------------------------------------------------------------
(* Copies of a database answer: how old they are is written over *)
Dated(copy, n) == [copy EXCEPT !.old = n]

(* ... in a request: the rest of it stays. *)
LEMMA DatedRequest ==
  ASSUME NEW q \in RequestType, NEW n \in 0..Forgotten
  PROVE  /\ Dated(q, n) \in RequestType
         /\ Dated(q, n).key = q.key /\ Dated(q, n).scope = q.scope
         /\ Dated(q, n).stage = q.stage /\ Dated(q, n).principal = q.principal
         /\ Dated(q, n).lag = q.lag /\ Dated(q, n).old = n
         /\ Dated(q, n).billed = q.billed /\ Dated(q, n).blip = q.blip
  BY DEF Dated, RequestType

(* ... in a cache entry. *)
LEMMA DatedEntry ==
  ASSUME NEW e \in EntryType, NEW n \in 0..Forgotten
  PROVE  /\ Dated(e, n) \in EntryType
         /\ Dated(e, n).principal = e.principal /\ Dated(e, n).left = e.left
         /\ Dated(e, n).old = n
  BY DEF Dated, EntryType

(* A commit leaves the age of a copy, resets it, or starts it. *)
LEMMA OldAfterRange ==
  ASSUME NEW copy, copy.old \in 0..Forgotten, NEW row
  PROVE  /\ OldAfter(copy, row) \in 0..Forgotten
         /\ OldAfter(copy, row) <= copy.old \/ OldAfter(copy, row) = 1
<1>1. CASE copy.principal = row
  BY <1>1, Ranges DEF OldAfter
<1>2. CASE copy.principal # row /\ copy.old = 0
  BY <1>2, Ranges DEF OldAfter
<1>3. CASE copy.principal # row /\ copy.old # 0
  BY <1>3, Ranges DEF OldAfter
<1> QED  BY <1>1, <1>2, <1>3

(* What a committed command does to one entry and to one request. *)
LEMMA CommitEffect ==
  ASSUME CacheTyped, RequestsTyped, NEW newKeys, NEW newQuota, Commit(newKeys, newQuota)
  PROVE  /\ \A k \in Keys :
              \/ cache'[k] = cache[k]
              \/ /\ cache[k] # Empty
                 /\ \E n \in 0..Forgotten : /\ n <= cache[k].old \/ n = 1
                                            /\ cache'[k] = Dated(cache[k], n)
         /\ \A r \in Requests :
              \/ req'[r] = req[r]
              \/ /\ pc[r] = "store"
                 /\ \E n \in 0..Forgotten : /\ n <= req[r].old \/ n = 1
                                            /\ req'[r] = Dated(req[r], n)
         /\ DOMAIN cache' = Keys /\ DOMAIN req' = Requests
         /\ cache' = [k \in Keys |-> cache'[k]] /\ req' = [r \in Requests |-> req'[r]]
<1> DEFINE row(k) == Row(newKeys[k], newQuota)
<1>1. cache' = [k \in Keys |->
        IF cache[k] = Empty THEN Empty ELSE Dated(cache[k], OldAfter(cache[k], row(k)))]
  BY Zenon DEF Commit, Dated
<1>2. req' = [r \in Requests |->
        IF pc[r] = "store" THEN Dated(req[r], OldAfter(req[r], row(req[r].key))) ELSE req[r]]
  BY Zenon DEF Commit, Dated
<1>3. ASSUME NEW k \in Keys
      PROVE  \/ cache'[k] = cache[k]
             \/ /\ cache[k] # Empty
                /\ \E n \in 0..Forgotten : /\ n <= cache[k].old \/ n = 1
                                           /\ cache'[k] = Dated(cache[k], n)
  <2>1. CASE cache[k] = Empty
    BY <1>1, <2>1
  <2>2. CASE cache[k] # Empty
    <3> DEFINE n == OldAfter(cache[k], row(k))
    <3>1. cache[k].old \in 0..Forgotten
      BY DEF CacheTyped, EntryType
    <3>2. n \in 0..Forgotten /\ (n <= cache[k].old \/ n = 1)
      BY <3>1, OldAfterRange
    <3>3. cache'[k] = Dated(cache[k], n)
      BY <1>1, <2>2
    <3> QED  BY <2>2, <3>2, <3>3
  <2> QED  BY <2>1, <2>2
<1>4. ASSUME NEW r \in Requests
      PROVE  \/ req'[r] = req[r]
             \/ /\ pc[r] = "store"
                /\ \E n \in 0..Forgotten : /\ n <= req[r].old \/ n = 1
                                           /\ req'[r] = Dated(req[r], n)
  <2>1. CASE pc[r] # "store"
    BY <1>2, <2>1
  <2>2. CASE pc[r] = "store"
    <3> DEFINE n == OldAfter(req[r], row(req[r].key))
    <3>1. req[r].old \in 0..Forgotten
      BY DEF RequestsTyped, RequestType
    <3>2. n \in 0..Forgotten /\ (n <= req[r].old \/ n = 1)
      BY <3>1, OldAfterRange
    <3>3. req'[r] = Dated(req[r], n)
      BY <1>2, <2>2
    <3> QED  BY <2>2, <3>2, <3>3
  <2> QED  BY <2>1, <2>2
<1> HIDE DEF row
<1> QED  BY <1>1, <1>2, <1>3, <1>4

(* A command keeps the types of what it commits and of the copies. *)
LEMMA CommitTyped ==
  ASSUME TypeOK,
         NEW newKeys \in [Keys -> {"none", "active", "revoked"}],
         NEW newQuota \in Quotas \cup {0}, Commit(newKeys, newQuota), faults' = faults
  PROVE  TypeOK'
<1>1. RowsTyped /\ CacheTyped /\ LimiterTyped /\ RequestsTyped
  BY TypeParts
<1>2. RowsTyped'
  BY <1>1 DEF RowsTyped, Commit
<1>3. LimiterTyped'
  BY <1>1 DEF LimiterTyped, Commit, limiterVars
<1>4. CacheTyped'
  <2>1. ASSUME NEW k \in Keys
        PROVE  cache'[k] \in EntryType /\ (cache'[k].left = -1 => cache'[k] = Empty)
    <3>1. cache[k] \in EntryType /\ (cache[k].left = -1 => cache[k] = Empty)
      BY <1>1 DEF CacheTyped
    <3>2. CASE cache'[k] = cache[k]
      BY <3>1, <3>2
    <3>3. ASSUME NEW n \in 0..Forgotten, cache'[k] = Dated(cache[k], n), cache[k] # Empty
          PROVE  cache'[k] \in EntryType /\ cache'[k].left # -1
      BY <3>1, <3>3, DatedEntry
    <3> QED  BY <1>1, <3>2, <3>3, CommitEffect
  <2> QED  BY <1>1, <2>1, CommitEffect DEF CacheTyped
<1>5. RequestsTyped'
  <2>1. pc' = pc
    BY DEF Commit
  <2>2. ASSUME NEW r \in Requests
        PROVE  /\ req'[r] \in RequestType /\ req'[r].key = req[r].key
               /\ req'[r].principal = req[r].principal
    <3>1. req[r] \in RequestType
      BY <1>1 DEF RequestsTyped
    <3>2. CASE req'[r] = req[r]
      BY <3>1, <3>2
    <3>3. ASSUME NEW n \in 0..Forgotten, req'[r] = Dated(req[r], n)
          PROVE  /\ req'[r] \in RequestType /\ req'[r].key = req[r].key
                 /\ req'[r].principal = req[r].principal
      BY <3>1, <3>3, DatedRequest
    <3> QED  BY <1>1, <3>2, <3>3, CommitEffect
  <2> QED  BY <1>1, <2>1, <2>2, CommitEffect DEF RequestsTyped
<1> QED  BY <1>2, <1>3, <1>4, <1>5, TypePartsNext

(* What a tick does to an entry: it goes, or has one tick less and is older. *)
LEMMA TickEntry ==
  ASSUME CacheTyped, NEW k \in Keys, Tick
  PROVE  \/ cache'[k] = Empty
         \/ /\ cache[k].left > 0
            /\ \E n \in 0..Forgotten :
                 /\ n <= cache[k].old + 1
                 /\ cache'[k] = [Dated(cache[k], n) EXCEPT !.left = cache[k].left - 1]
<1> DEFINE n == IF cache[k].old = 0 THEN 0 ELSE UpTo(Forgotten, cache[k].old + 1)
<1>1. cache[k] \in EntryType
  BY DEF CacheTyped
<1>2. cache[k].old \in 0..Forgotten /\ cache[k].left \in -1..Ttl
  BY <1>1 DEF EntryType
<1>3. n \in 0..Forgotten /\ n <= cache[k].old + 1
  BY <1>2, Ranges DEF UpTo
<1>4. Older(cache[k]) = Dated(cache[k], n)
  BY Zenon DEF Older, Dated
<1>5. cache'[k] = Aged(Dated(cache[k], n))
  BY <1>4 DEF Tick
<1>6. Dated(cache[k], n).left = cache[k].left
  BY <1>1, <1>3, DatedEntry
<1> HIDE DEF n
<1>7. CASE cache[k].left <= 0
  BY <1>5, <1>6, <1>7 DEF Aged
<1>8. CASE cache[k].left > 0
  <2>1. cache'[k] = [Dated(cache[k], n) EXCEPT !.left = Dated(cache[k], n).left - 1]
    BY <1>2, <1>5, <1>6, <1>8 DEF Aged
  <2> QED  BY <1>3, <1>6, <1>8, <2>1
<1> QED  BY <1>2, <1>7, <1>8

(* What a tick does to a request: a lookup under way gets older. *)
LEMMA TickRequest ==
  ASSUME RequestsTyped, NEW r \in Requests, Tick
  PROVE  \/ pc[r] # "store" /\ req'[r] = req[r]
         \/ /\ pc[r] = "store" /\ req[r].lag < Lag
            /\ \E n \in 0..Forgotten :
                 /\ n <= req[r].old + 1 /\ (req[r].old = 0 => n = 0)
                 /\ req'[r] = [Dated(req[r], n) EXCEPT !.lag = req[r].lag + 1]
<1> DEFINE n == IF req[r].old = 0 THEN 0 ELSE UpTo(Forgotten, req[r].old + 1)
<1>1. req[r] \in RequestType
  BY DEF RequestsTyped
<1>2. req[r].old \in 0..Forgotten
  BY <1>1 DEF RequestType
<1>3. n \in 0..Forgotten /\ n <= req[r].old + 1 /\ (req[r].old = 0 => n = 0)
  BY <1>2, Ranges DEF UpTo
<1>4. Older(req[r]) = Dated(req[r], n)
  BY Zenon DEF Older, Dated
<1>5. Dated(req[r], n).lag = req[r].lag
  BY <1>1, <1>3, DatedRequest
<1>6. req'[r] = IF pc[r] = "store"
                THEN [Older(req[r]) EXCEPT !.lag = Older(req[r]).lag + 1] ELSE req[r]
  BY DEF Tick
<1>7. pc[r] = "store" => req[r].lag < Lag
  BY DEF Tick
<1> HIDE DEF n
<1> QED  BY <1>3, <1>4, <1>5, <1>6, <1>7

(* Time passing keeps the types. *)
LEMMA TickTyped ==
  ASSUME TypeOK, Tick, faults' = faults
  PROVE  TypeOK'
<1>1. RowsTyped /\ CacheTyped /\ LimiterTyped /\ RequestsTyped
  BY TypeParts
<1>2. RowsTyped'
  BY <1>1 DEF RowsTyped, Tick
<1>3. LimiterTyped'
  <2>1. left' \in [Scopes -> 0..Window] /\ count' \in [Scopes -> 0..CountCap("work")]
    BY <1>1, Ranges DEF LimiterTyped, Tick
  <2>2. NoWindow \in WindowType
    BY Ranges DEF NoWindow, WindowType
  <2>3. window' \in [Scopes -> WindowType]
    BY <1>1, <2>2 DEF LimiterTyped, Tick
  <2> QED  BY <2>1, <2>3 DEF LimiterTyped
<1>4. CacheTyped'
  <2>1. Empty \in EntryType
    BY Ranges DEF Empty, EntryType, Principals
  <2>2. ASSUME NEW k \in Keys
        PROVE  cache'[k] \in EntryType /\ (cache'[k].left = -1 => cache'[k] = Empty)
    <3>1. cache[k] \in EntryType /\ cache[k].left \in -1..Ttl
      BY <1>1 DEF CacheTyped, EntryType
    <3>2. ASSUME cache[k].left > 0, NEW n \in 0..Forgotten,
                 cache'[k] = [Dated(cache[k], n) EXCEPT !.left = cache[k].left - 1]
          PROVE  cache'[k] \in EntryType /\ cache'[k].left # -1
      <4>1. Dated(cache[k], n) \in EntryType
        BY <3>1, DatedEntry
      <4>2. cache[k].left - 1 \in 0..Ttl /\ cache[k].left - 1 \in -1..Ttl
        BY <3>1, <3>2, Ranges
      <4>3. cache'[k] \in EntryType /\ cache'[k].left = cache[k].left - 1
        BY <3>2, <4>1, <4>2 DEF EntryType
      <4> QED  BY <4>2, <4>3
    <3> QED  BY <1>1, <2>1, <3>2, TickEntry
  <2>3. cache' = [k \in Keys |-> cache'[k]]
    BY DEF Tick
  <2> QED  BY <2>2, <2>3 DEF CacheTyped
<1>5. RequestsTyped'
  <2>1. pc' = pc /\ req' = [r \in Requests |-> req'[r]]
    BY DEF Tick
  <2>2. ASSUME NEW r \in Requests
        PROVE  /\ req'[r] \in RequestType /\ req'[r].key = req[r].key
               /\ req'[r].principal = req[r].principal
    <3>1. req[r] \in RequestType /\ req[r].lag \in 0..Lag
      BY <1>1 DEF RequestsTyped, RequestType
    <3>2. ASSUME req[r].lag < Lag, NEW n \in 0..Forgotten,
                 req'[r] = [Dated(req[r], n) EXCEPT !.lag = req[r].lag + 1]
          PROVE  /\ req'[r] \in RequestType /\ req'[r].key = req[r].key
                 /\ req'[r].principal = req[r].principal
      <4>1. /\ Dated(req[r], n) \in RequestType /\ Dated(req[r], n).key = req[r].key
            /\ Dated(req[r], n).principal = req[r].principal
        BY <3>1, DatedRequest
      <4>2. req[r].lag + 1 \in 0..Lag
        BY <3>1, <3>2, Ranges
      <4> QED  BY <3>2, <4>1, <4>2 DEF RequestType
    <3> QED  BY <1>1, <3>1, <3>2, TickRequest
  <2> QED  BY <1>1, <2>1, <2>2 DEF RequestsTyped
<1> QED  BY <1>2, <1>3, <1>4, <1>5, TypePartsNext

(* A caller's arrival keeps the types. *)
LEMMA ArriveMoves ==
  ASSUME TypeOK, NEW r \in Requests, NEW k \in Keys, NEW s \in Scopes, Arrive(r, k, s)
  PROVE  /\ Moves(r, "look", [Nothing EXCEPT !.key = k, !.scope = s])
         /\ [Nothing EXCEPT !.key = k, !.scope = s] \in RequestType
         /\ RequestsTyped'
<1> DEFINE new == [Nothing EXCEPT !.key = k, !.scope = s]
<1>1. RequestsTyped /\ Nothing \in RequestType
  <2>1. RequestsTyped
    BY TypeParts
  <2>2. req[r] \in RequestType /\ None \in Principals
    BY <2>1 DEF RequestsTyped, Principals
  <2> QED  BY <2>1, <2>2, RecordsTyped
<1>2. new \in RequestType /\ new.key = k
  BY <1>1 DEF RequestType
<1>3. Moves(r, "look", new)
  BY DEF Arrive, Moves
<1>4. k # NoKey
  BY KeysAssumption
<1>5. RequestsTyped'
  <2> HIDE DEF new
  <2> QED  BY <1>1, <1>2, <1>3, <1>4, MoveTyped DEF Places
<1>6. new \in RequestType
  BY <1>2
<1> QED  BY <1>3, <1>5, <1>6, Zenon

(* What the steps of a request leave alone: the rows, and all but one part. *)
LEMMA StepFrame ==
  ASSUME NEW r \in Requests, RequestStep(r)
  PROVE  /\ keys' = keys /\ quota' = quota
         /\ cache' = cache \/ Store(r)
         /\ \/ count' = count /\ left' = left /\ window' = window
            \/ /\ pc[r] = "consume"
               /\ Incr(Bucket(req[r].scope))
               /\ \E admitted \in BOOLEAN : Note(r, admitted)
  BY DEF RequestStep, rowVars, limiterVars, Hit, Miss, Read, DbError, Store,
         ConsumeAllowed, ConsumeRejected, Reject, LimiterError, Finish

(* Each step of a request is one of its moves. *)
LEMMA StepRequests ==
  ASSUME TypeOK, NEW r \in Requests, RequestStep(r)
  PROVE  RequestsTyped' /\ pc[r] # "idle"
<1>1. RowsTyped /\ CacheTyped /\ RequestsTyped
  BY TypeParts
<1>2. req[r] \in RequestType /\ None \in Principals
  BY <1>1 DEF RequestsTyped, Principals
<1>3. pc[r] # "idle" => req[r].key \in Keys
  BY <1>1, <1>2 DEF RequestsTyped, RequestType
<1>4. TRUE \in BOOLEAN /\ FALSE \in BOOLEAN
  OBVIOUS
<1>5. CASE Hit(r)
  <2>1. pc[r] # "idle" /\ Answer(r, cache[req[r].key].principal, FALSE)
    BY <1>5 DEF Hit
  <2>2. cache[req[r].key].principal \in Principals
    BY <1>1, <1>3, <2>1 DEF CacheTyped, EntryType
  <2> QED  BY <1>1, <1>4, <2>1, <2>2, AnswerTyped
<1>6. CASE Miss(r)
  <2>1. pc[r] = "look" /\ pc' = [pc EXCEPT ![r] = "read"] /\ req' = req
    BY <1>6 DEF Miss
  <2> QED  BY <1>1, <2>1 DEF RequestsTyped, Places
<1>7. CASE Read(r)
  <2>1. /\ pc[r] = "read" /\ pc' = [pc EXCEPT ![r] = "store"]
        /\ req' = [req EXCEPT ![r].principal = Resolve(req[r].key)]
    BY <1>7 DEF Read
  <2>2. Resolve(req[r].key) \in Principals
    BY <1>1 DEF RowsTyped, Resolve, Row, Principals, None
  <2> HIDE DEF RequestType
  <2>3. req' \in [Requests -> RequestType]
    BY <1>1, <1>2, <2>1, <2>2 DEF RequestsTyped, RequestType
  <2>4. \A o \in Requests : req'[o].key = req[o].key
                            /\ (o # r => req'[o].principal = req[o].principal)
    BY <1>1, <2>1 DEF RequestsTyped, RequestType
  <2> QED  BY <1>1, <2>1, <2>3, <2>4 DEF RequestsTyped, Places
<1>8. CASE DbError(r)
  <2>1. pc[r] # "idle" /\ Answer(r, None, TRUE)
    BY <1>8 DEF DbError
  <2> QED  BY <1>1, <1>2, <1>4, <2>1, AnswerTyped
<1>9. CASE Store(r)
  <2>1. pc[r] # "idle" /\ Answer(r, req[r].principal, FALSE)
    BY <1>9 DEF Store
  <2>2. req[r].principal \in Principals
    BY <1>2 DEF RequestType
  <2> QED  BY <1>1, <1>4, <2>1, <2>2, AnswerTyped
<1>10. CASE ConsumeAllowed(r)
  <2>1. pc[r] # "idle" /\ CallNext(r, TRUE, FALSE)
    BY <1>10 DEF ConsumeAllowed
  <2> QED  BY <1>1, <1>4, <2>1, CallNextTyped
<1>11. CASE ConsumeRejected(r)
  <2>1. pc[r] = "consume" /\ pc' = [pc EXCEPT ![r] = "ttl"] /\ req' = req
    BY <1>11 DEF ConsumeRejected
  <2> QED  BY <1>1, <2>1 DEF RequestsTyped, Places
<1>12. CASE Reject(r) \/ Finish(r)
  BY <1>1, <1>12, DoneTyped DEF Reject, Finish
<1>13. CASE LimiterError(r)
  <2>1. pc[r] # "idle" /\ CallNext(r, FALSE, TRUE)
    BY <1>13 DEF LimiterError
  <2> QED  BY <1>1, <1>4, <2>1, CallNextTyped
<1> QED  BY <1>5, <1>6, <1>7, <1>8, <1>9, <1>10, <1>11, <1>12, <1>13 DEF RequestStep

(* A step of a request keeps the types. *)
LEMMA StepTyped ==
  ASSUME TypeOK, NEW r \in Requests, RequestStep(r), faults' = faults
  PROVE  TypeOK'
<1>1. RowsTyped /\ CacheTyped /\ LimiterTyped /\ RequestsTyped
  BY TypeParts
<1>2. RequestsTyped' /\ pc[r] # "idle"
  BY StepRequests
<1>3. RowsTyped'
  BY <1>1, StepFrame DEF RowsTyped
<1>4. CacheTyped'
  <2>1. CASE cache' = cache
    BY <1>1, <2>1 DEF CacheTyped
  <2>2. CASE Store(r)
    <3> DEFINE e == [principal |-> req[r].principal, left |-> Ttl, old |-> req[r].old]
    <3>1. cache' = [cache EXCEPT ![req[r].key] = e]
      BY <2>2 DEF Store
    <3>2. req[r] \in RequestType
      BY <1>1 DEF RequestsTyped
    <3>3. e \in EntryType /\ e.left # -1
      BY <3>2, Ranges DEF RequestType, EntryType
    <3> HIDE DEF e
    <3> QED  BY <1>1, <3>1, <3>3 DEF CacheTyped
  <2> QED  BY <2>1, <2>2, StepFrame
<1>5. LimiterTyped'
  <2>1. CASE count' = count /\ left' = left /\ window' = window
    BY <1>1, <2>1 DEF LimiterTyped
  <2>2. ASSUME NEW admitted \in BOOLEAN, pc[r] = "consume",
               Incr(Bucket(req[r].scope)), Note(r, admitted)
        PROVE  LimiterTyped'
    BY <1>1, <2>2, CountStep
  <2> QED  BY <2>1, <2>2, StepFrame
<1> QED  BY <1>2, <1>3, <1>4, <1>5, TypePartsNext

(* What the bot's commands commit: revoked keys stay revoked, issued keys    *)
(* issued, and there is a tenant row from then on.                          *)
LEMMA BotCommits ==
  ASSUME TypeOK, Bot
  PROVE  \E newKeys \in [Keys -> {"none", "active", "revoked"}], newQuota \in Quotas :
           /\ Commit(newKeys, newQuota)
           /\ \A k \in Keys : /\ keys[k] = "revoked" => newKeys[k] = "revoked"
                              /\ keys[k] # "none" => newKeys[k] # "none"
<1>1. keys \in [Keys -> {"none", "active", "revoked"}] /\ quota \in Quotas \cup {0}
  BY TypeParts DEF RowsTyped
<1>2. CASE Revoke
  BY <1>1, <1>2 DEF Revoke
<1>3. ASSUME NEW q \in Quotas, SetQuota(q)
      PROVE  Commit(keys, q)
  BY <1>3 DEF SetQuota
<1>4. ASSUME NEW q \in Quotas, NEW k \in Keys, NewKey(k, q)
      PROVE  /\ keys[k] = "none"
             /\ \E newQuota \in Quotas : Commit([keys EXCEPT ![k] = "active"], newQuota)
  BY <1>1, <1>4 DEF NewKey
<1>5. ASSUME NEW k \in Keys, keys[k] = "none"
      PROVE  LET new == [keys EXCEPT ![k] = "active"] IN
             /\ new \in [Keys -> {"none", "active", "revoked"}]
             /\ \A o \in Keys : /\ keys[o] = "revoked" => new[o] = "revoked"
                                /\ keys[o] # "none" => new[o] # "none"
  BY <1>1, <1>5
<1>6. CASE \E q \in Quotas, k \in Keys : NewKey(k, q)
  <2>1. PICK q \in Quotas, k \in Keys : NewKey(k, q)
    BY <1>6
  <2> QED  BY <2>1, <1>4, <1>5
<1> QED  BY <1>1, <1>2, <1>3, <1>6 DEF Bot

(* The initial state has the types. *)
LEMMA InitTyped == Init => TypeOK
<1> SUFFICES ASSUME Init PROVE TypeOK
  OBVIOUS
<1>1. None \in Principals /\ 0 \in 0..Lag /\ 0 \in 0..Forgotten /\ -1 \in -1..Ttl
      /\ 0 \in 0..CountCap("work") /\ 0 \in 0..Window /\ MaxQuota \in 1..MaxQuota
  BY Ranges DEF Principals
<1>2. RowsTyped
  BY DEF Init, RowsTyped
<1>3. CacheTyped
  BY <1>1 DEF Init, CacheTyped, Empty, EntryType
<1>4. LimiterTyped
  BY <1>1 DEF Init, LimiterTyped, NoWindow, WindowType
<1>5. Nothing \in RequestType /\ Nothing.key = NoKey
  BY <1>1 DEF Nothing, RequestType, Scopes
<1>6. RequestsTyped
  BY <1>5 DEF Init, RequestsTyped, Places
<1> QED  BY <1>2, <1>3, <1>4, <1>6, TypeParts

(* Every step keeps the types. *)
LEMMA NextTyped == TypeOK /\ [Next]_vars => TypeOK'
<1> SUFFICES ASSUME TypeOK, [Next]_vars PROVE TypeOK'
  OBVIOUS
<1>1. CASE UNCHANGED vars
  BY <1>1 DEF vars, TypeOK
<1>2. CASE Bot /\ faults' = faults
  BY <1>2, BotCommits, CommitTyped
<1>3. ASSUME NEW r \in Requests, NEW k \in Keys, NEW s \in Scopes,
             Arrive(r, k, s), faults' = faults
      PROVE  TypeOK'
  <2>1. RowsTyped /\ CacheTyped /\ LimiterTyped
    BY TypeParts
  <2>2. RowsTyped' /\ CacheTyped' /\ LimiterTyped'
    BY <1>3, <2>1 DEF Arrive, rowVars, limiterVars, RowsTyped, CacheTyped, LimiterTyped
  <2>3. RequestsTyped'
    BY <1>3, ArriveMoves
  <2> QED  BY <2>2, <2>3, TypePartsNext
<1>4. ASSUME NEW r \in Requests, RequestStep(r), faults' = faults
      PROVE  TypeOK'
  BY <1>4, StepTyped
<1>5. CASE Tick /\ faults' = faults
  BY <1>5, TickTyped
<1> QED  BY <1>1, <1>2, <1>3, <1>4, <1>5 DEF Next

(* The types hold in every reachable state: in particular no entry or       *)
(* counter outgrows what it saturates at, and a request that is counted has *)
(* a tenant to count it for.                                                *)
THEOREM GateTypeCorrect == Spec => []TypeOK
<1>1. Init => TypeOK
  BY InitTyped
<1>2. TypeOK /\ [Next]_vars => TypeOK'
  BY NextTyped
<1> QED  BY <1>1, <1>2, PTL DEF Spec

-----------------------------------------------------------------------------
(* A request that changes its place by itself, not by arriving, took a step *)
LEMMA MovedBySelf ==
  ASSUME TypeOK, [Next]_vars, NEW r \in Requests, pc[r] # "idle", pc'[r] # pc[r]
  PROVE  RequestStep(r) /\ faults' = faults
<1>1. pc \in [Requests -> Places]
  BY TypeParts DEF RequestsTyped
<1>2. CASE UNCHANGED vars
  BY <1>2 DEF vars
<1>3. CASE Bot
  BY <1>3, BotCommits DEF Commit
<1>4. ASSUME NEW o \in Requests, NEW k \in Keys, NEW s \in Scopes, Arrive(o, k, s)
      PROVE  FALSE
  BY <1>1, <1>4 DEF Arrive
<1>5. ASSUME NEW o \in Requests, RequestStep(o)
      PROVE  \E at \in Places : pc' = [pc EXCEPT ![o] = at]
  <2>1. RequestsTyped
    BY TypeParts
  <2>2. CASE Hit(o) \/ DbError(o) \/ Store(o)
    <3>1. \E p, blip : Answer(o, p, blip)
      BY <2>2 DEF Hit, DbError, Store
    <3>2. req[o].stage \in {"gate", "route"}
      BY <2>1 DEF RequestsTyped, RequestType
    <3> QED  BY <3>1, <3>2 DEF Answer, CallNext, Done, Places
  <2>3. CASE ~(Hit(o) \/ DbError(o) \/ Store(o))
    BY <1>5, <2>3 DEF RequestStep, Miss, Read, ConsumeAllowed, ConsumeRejected, Reject,
                      LimiterError, Finish, CallNext, Done, Places
  <2> QED  BY <2>2, <2>3
<1>6. CASE Tick
  BY <1>6 DEF Tick
<1>7. ASSUME NEW o \in Requests, RequestStep(o)  PROVE o = r
  BY <1>1, <1>5, <1>7
<1> QED  BY <1>2, <1>3, <1>4, <1>6, <1>7 DEF Next

-----------------------------------------------------------------------------
(* The window's history against its counter.  Everybody admitted was        *)
(* counted; a count that nobody was admitted for came after the least limit *)
(* of the window was spent.                                                 *)
WindowInv ==
  \A s \in Scopes :
    /\ count[s] <= CountCap(s)
    /\ window[s].admitted <= count[s]
    /\ window[s].admitted = count[s] \/ window[s].admitted >= window[s].least

(* Accounted: a request that is past the middleware was billed, met an      *)
(* error, or its key is revoked for good.                                   *)
Accounted(q) == q.billed \/ q.blip \/ keys[q.key] = "revoked"

Excused(at, q) ==
  /\ at # "idle" => keys[q.key] # "none"
  /\ at = "store" /\ q.principal = None => keys[q.key] = "revoked"
  /\ at \in {"consume", "ttl"} => q.stage = "gate"
  /\ at = "serve" => q.stage = "route"
  /\ at # "idle" /\ q.stage = "route" => Accounted(q)

(* A key that is active has a tenant, so that only a revoked key is nobody's *)
ExcuseInv ==
  /\ \A k \in Keys : keys[k] = "active" => quota # 0
  /\ \A k \in Keys : cache[k] # Empty /\ cache[k].principal = None => keys[k] = "revoked"
  /\ \A r \in Requests : Excused(pc[r], req[r])

(* A copy is at most as old as the time it has been held: a lookup under    *)
(* way Lag ticks, an entry as many ticks more as it has used of its TTL,    *)
(* and one for the tick in which the rows changed.                          *)
Young(at, q) ==
  /\ at \in {"look", "read"} => q.old = 0 /\ q.lag = 0
  /\ at = "store" => q.old <= q.lag + 1

AgeInv ==
  /\ \A k \in Keys : cache[k].old + cache[k].left <= Lag + 1 + Ttl
  /\ \A r \in Requests : Young(pc[r], req[r])

-----------------------------------------------------------------------------
(* From the counter a request is let through, rejected, or let through for  *)
(* Redis has failed.                                                        *)
LEMMA FromConsume ==
  ASSUME TypeOK, NEW r \in Requests, pc[r] = "consume", RequestStep(r)
  PROVE  \/ ConsumeAllowed(r) \/ ConsumeRejected(r) \/ LimiterError(r)
  BY DEF RequestStep, Hit, Miss, Read, DbError, Store, Reject, Finish

(* The windows are as WindowInv says after every increment, given that a    *)
(* request that is not admitted found its limit reached.                    *)
LEMMA WindowStep ==
  ASSUME TypeOK, WindowInv, NEW r \in Requests, pc[r] = "consume",
         NEW admitted \in BOOLEAN,
         Incr(Bucket(req[r].scope)), Note(r, admitted),
         ~admitted => ~Within(r, count[req[r].scope] + 1)
  PROVE  WindowInv'
<1> DEFINE s == req[r].scope
           cap == CountCap(s)
           lim == Limit(r)
<1>1. RequestsTyped /\ LimiterTyped
  BY TypeParts
<1>2. s \in Scopes /\ lim \in 1..MaxQuota /\ lim < cap
  BY <1>1, LimitRange
<1>3. /\ cap \in Nat
      /\ count'[s] = UpTo(cap, count[s] + 1)
      /\ window'[s].admitted = UpTo(cap, window[s].admitted + IF admitted THEN 1 ELSE 0)
      /\ window'[s].least = IF lim < window[s].least THEN lim ELSE window[s].least
      /\ \A o \in Scopes : o # s => count'[o] = count[o] /\ window'[o] = window[o]
  BY <1>1, CountStep
<1>4. /\ count[s] \in Nat /\ window[s].admitted \in Nat /\ window[s].least \in Nat
  <2>1. count[s] \in 0..CountCap("work") /\ window[s] \in WindowType
    BY <1>1, <1>2 DEF LimiterTyped
  <2> QED  BY <2>1, Ranges DEF WindowType
<1>5. ~admitted => count[s] + 1 > lim
  BY <1>2, <1>4, Ranges DEF Within
<1>6. /\ count[s] <= cap /\ window[s].admitted <= count[s]
      /\ window[s].admitted = count[s] \/ window[s].admitted >= window[s].least
  BY <1>2 DEF WindowInv
<1>7. lim \in Nat
  BY <1>2, Ranges
<1> HIDE DEF s, cap, lim
<1>8. CASE admitted
  <2>1. window'[s].admitted = UpTo(cap, window[s].admitted + 1)
    BY <1>3, <1>8
  <2>2. /\ count'[s] <= cap /\ window'[s].admitted <= count'[s]
        /\ window'[s].admitted = count'[s] \/ window'[s].admitted >= window'[s].least
    BY <1>3, <1>4, <1>6, <1>7, <2>1 DEF UpTo
  <2> QED  BY <1>3, <2>2 DEF WindowInv, s, cap
<1>9. CASE ~admitted
  <2>1. window'[s].admitted = UpTo(cap, window[s].admitted + 0)
    BY <1>3, <1>9
  <2>2. count[s] + 1 > lim
    BY <1>5, <1>9
  <2>3. /\ count'[s] <= cap /\ window'[s].admitted <= count'[s]
        /\ window'[s].admitted >= window'[s].least
    BY <1>2, <1>3, <1>4, <1>6, <1>7, <2>1, <2>2 DEF UpTo
  <2> QED  BY <1>3, <2>3 DEF WindowInv, s, cap
<1> QED  BY <1>8, <1>9

(* ... and after every step. *)
LEMMA WindowNext == TypeOK /\ WindowInv /\ [Next]_vars => WindowInv'
<1> SUFFICES ASSUME TypeOK, WindowInv, [Next]_vars PROVE WindowInv'
  OBVIOUS
<1>1. CASE count' = count /\ window' = window
  BY <1>1 DEF WindowInv
<1>2. CASE Tick
  <2>1. LimiterTyped
    BY TypeParts
  <2>2. ASSUME NEW s \in Scopes
        PROVE  \/ count'[s] = count[s] /\ window'[s] = window[s]
               \/ count'[s] = 0 /\ window'[s] = NoWindow
    BY <1>2 DEF Tick, Bucket
  <2>3. NoWindow.admitted = 0 /\ \A s \in Scopes : CountCap(s) >= 0
    BY Ranges DEF NoWindow, Scopes
  <2> QED  BY <2>2, <2>3 DEF WindowInv
<1>3. ASSUME NEW r \in Requests, RequestStep(r), ~(count' = count /\ window' = window)
      PROVE  WindowInv'
  <2>1. pc[r] = "consume"
    BY <1>3, StepFrame
  <2>2. ConsumeAllowed(r) \/ ConsumeRejected(r) \/ LimiterError(r)
    BY <1>3, <2>1, FromConsume
  <2>3. CASE ConsumeAllowed(r)
    BY <2>1, <2>3, TRUE \in BOOLEAN, WindowStep DEF ConsumeAllowed
  <2>4. CASE ConsumeRejected(r)
    <3>1. /\ Incr(Bucket(req[r].scope)) /\ Note(r, FALSE)
          /\ ~Within(r, count[req[r].scope] + 1)
      BY <2>4 DEF ConsumeRejected, Bucket
    <3> QED  BY <2>1, <3>1, FALSE \in BOOLEAN, WindowStep
  <2>5. CASE LimiterError(r)
    <3>1. Incr(Bucket(req[r].scope)) /\ Note(r, TRUE)
      BY <1>3, <2>5 DEF LimiterError, limiterVars
    <3> QED  BY <2>1, <3>1, TRUE \in BOOLEAN, WindowStep
  <2> QED  BY <2>2, <2>3, <2>4, <2>5
<1>4. CASE UNCHANGED vars
  BY <1>1, <1>4 DEF vars
<1>5. CASE Bot
  BY <1>1, <1>5, BotCommits DEF Commit, limiterVars
<1>6. CASE \E r \in Requests, k \in Keys, s \in Scopes : Arrive(r, k, s)
  BY <1>1, <1>6 DEF Arrive, limiterVars
<1> QED  BY <1>1, <1>2, <1>3, <1>4, <1>5, <1>6 DEF Next

(* WindowInv holds at the start. *)
LEMMA WindowInit == Init => WindowInv
  BY Ranges DEF Init, WindowInv, NoWindow, Scopes

(* QuotaHolds for every instance: what a request is let through on is its   *)
(* own limit against everybody admitted in the window so far.               *)
THEOREM NoQuotaIsExceeded == Spec => QuotaHolds
<1>1. TypeOK /\ WindowInv /\ [Next]_vars =>
        [\A r \in Requests :
           /\ pc[r] = "consume" /\ pc'[r] = "look"
           /\ "redis" \notin faults
           => window'[req[r].scope].admitted <= Limit(r)]_vars
  <2> SUFFICES ASSUME TypeOK, WindowInv, [Next]_vars, NEW r \in Requests,
                      pc[r] = "consume", pc'[r] = "look", "redis" \notin faults
               PROVE  window'[req[r].scope].admitted <= Limit(r)
    OBVIOUS
  <2> DEFINE s == req[r].scope
  <2>1. RequestsTyped /\ LimiterTyped
    BY TypeParts
  <2>2. ConsumeAllowed(r)
    <3>1. RequestStep(r)
      BY MovedBySelf
    <3>2. ~LimiterError(r)
      BY DEF LimiterError
    <3>3. ~ConsumeRejected(r)
      BY <2>1 DEF ConsumeRejected, RequestsTyped
    <3> QED  BY <3>1, <3>2, <3>3, FromConsume
  <2>3. s \in Scopes /\ Limit(r) \in 1..MaxQuota
    BY <2>1, LimitRange
  <2>4. Within(r, count[s] + 1)
    BY <2>2 DEF ConsumeAllowed, Bucket
  <2>5. /\ CountCap(s) \in Nat
        /\ window'[s].admitted = UpTo(CountCap(s), window[s].admitted + IF TRUE THEN 1 ELSE 0)
    BY <2>1, <2>2, TRUE \in BOOLEAN, CountStep DEF ConsumeAllowed
  <2>6. window[s].admitted \in Nat /\ count[s] \in Nat /\ window[s].admitted <= count[s]
    <3>1. count[s] \in 0..CountCap("work") /\ window[s] \in WindowType
      BY <2>1, <2>3 DEF LimiterTyped
    <3> QED  BY <2>3, <3>1, Ranges DEF WindowType, WindowInv
  <2> QED  BY <2>3, <2>4, <2>5, <2>6, Ranges DEF UpTo, Within
<1> QED  BY <1>1, InitTyped, NextTyped, WindowInit, WindowNext, PTL DEF Spec, QuotaHolds

(* RejectIsSpent for every instance: a 429 is answered only in a window     *)
(* that has let through what its least limit allows.                        *)
THEOREM RejectionsAreEarned == Spec => RejectIsSpent
<1>1. TypeOK /\ WindowInv /\ [Next]_vars =>
        [\A r \in Requests :
           pc[r] = "consume" /\ pc'[r] = "ttl" =>
             window[req[r].scope].admitted >= window'[req[r].scope].least]_vars
  <2> SUFFICES ASSUME TypeOK, WindowInv, [Next]_vars, NEW r \in Requests,
                      pc[r] = "consume", pc'[r] = "ttl"
               PROVE  window[req[r].scope].admitted >= window'[req[r].scope].least
    OBVIOUS
  <2> DEFINE s == req[r].scope
  <2>1. RequestsTyped /\ LimiterTyped
    BY TypeParts
  <2>2. ConsumeRejected(r)
    <3>1. RequestStep(r)
      BY MovedBySelf
    <3>2. ~LimiterError(r) /\ ~ConsumeAllowed(r)
      BY <2>1 DEF LimiterError, ConsumeAllowed, CallNext, RequestsTyped
    <3> QED  BY <3>1, <3>2, FromConsume
  <2>3. s \in Scopes /\ Limit(r) \in 1..MaxQuota
    BY <2>1, LimitRange
  <2>4. ~Within(r, count[s] + 1)
    BY <2>2 DEF ConsumeRejected, Bucket
  <2>5. window'[s].least = IF Limit(r) < window[s].least THEN Limit(r) ELSE window[s].least
    BY <2>1, <2>2, FALSE \in BOOLEAN, CountStep DEF ConsumeRejected
  <2>6. /\ window[s].admitted \in Nat /\ window[s].least \in Nat /\ count[s] \in Nat
        /\ window[s].admitted = count[s] \/ window[s].admitted >= window[s].least
    <3>1. count[s] \in 0..CountCap("work") /\ window[s] \in WindowType
      BY <2>1, <2>3 DEF LimiterTyped
    <3> QED  BY <2>3, <3>1, Ranges DEF WindowType, WindowInv
  <2> QED  BY <2>3, <2>4, <2>5, <2>6, Ranges DEF Within
<1> QED  BY <1>1, InitTyped, NextTyped, WindowInit, WindowNext, PTL DEF Spec, RejectIsSpent

-----------------------------------------------------------------------------
(* What the excuses say of a request that moves, if its new record is fine  *)
(* and the rows stay.                                                       *)
LEMMA ExcuseMove ==
  ASSUME TypeOK, ExcuseInv, NEW r \in Requests, NEW at \in Places, NEW new \in RequestType,
         Moves(r, at, new), Excused(at, new), keys' = keys
  PROVE  \A o \in Requests : Excused(pc[o], req[o])'
<1>1. ASSUME NEW q  PROVE Accounted(q)' = Accounted(q)
  BY DEF Accounted
<1>2. RequestsTyped
  BY TypeParts
<1>3. /\ pc'[r] = at /\ req'[r] = new
      /\ \A o \in Requests : o # r => pc'[o] = pc[o] /\ req'[o] = req[o]
  BY <1>2, Moved
<1>4. ASSUME NEW o \in Requests  PROVE Excused(pc[o], req[o])'
  <2>1. CASE o = r
    BY <1>3, <2>1 DEF Excused, Accounted
  <2>2. CASE o # r
    <3>1. Excused(pc[o], req[o])
      BY DEF ExcuseInv
    <3> QED  BY <1>3, <2>2, <3>1 DEF Excused, Accounted
  <2> QED  BY <2>1, <2>2
<1> QED  BY <1>4

(* The answer to a lookup is an excuse when it is that the key is nobody's: *)
(* the lookup failed, or the key is revoked.                                *)
LEMMA ExcuseAnswer ==
  ASSUME TypeOK, ExcuseInv, NEW r \in Requests, pc[r] # "idle",
         NEW p \in Principals, NEW blip \in BOOLEAN, Answer(r, p, blip), keys' = keys,
         p = None => blip \/ keys[req[r].key] = "revoked"
  PROVE  \A o \in Requests : Excused(pc[o], req[o])'
<1>1. RequestsTyped
  BY TypeParts
<1>2. req[r] \in RequestType /\ None \in Principals
  BY <1>1 DEF RequestsTyped, Principals
<1>3. keys[req[r].key] # "none" /\ (req[r].stage = "route" => Accounted(req[r]))
  BY DEF ExcuseInv, Excused
<1>4. "look" \in Places /\ "consume" \in Places /\ "idle" \in Places /\ "serve" \in Places
  BY DEF Places
<1>5. CASE req[r].stage = "gate" /\ p = None /\ Moves(r, "look", Passed(req[r], FALSE, blip))
  <2> DEFINE new == Passed(req[r], FALSE, blip)
  <2>1. new \in RequestType
    BY <1>2, RecordsTyped
  <2>2. new.key = req[r].key /\ new.stage = "route"
    BY <1>2 DEF Passed, RequestType
  <2>3. blip => new.blip
    BY <1>2 DEF Passed, RequestType
  <2>4. Accounted(new)
    BY <1>5, <2>2, <2>3 DEF Accounted
  <2>5. Excused("look", new)
    BY <1>3, <2>2, <2>4 DEF Excused
  <2>6. Moves(r, "look", new)
    BY <1>5
  <2> HIDE DEF new
  <2> QED  BY <1>4, <2>1, <2>5, <2>6, ExcuseMove
<1>6. CASE req[r].stage = "gate" /\ p # None /\ Moves(r, "consume", Holding(req[r], p))
  <2> DEFINE new == Holding(req[r], p)
  <2>1. new \in RequestType /\ new.key = req[r].key /\ new.stage = "gate"
    BY <1>2, <1>6, RecordsTyped, HoldingFields
  <2>2. Excused("consume", new)
    BY <1>3, <2>1 DEF Excused
  <2>3. Moves(r, "consume", new)
    BY <1>6
  <2> HIDE DEF new
  <2> QED  BY <1>4, <2>1, <2>2, <2>3, ExcuseMove
<1>7. CASE Moves(r, "idle", Nothing)
  <2>1. Nothing \in RequestType /\ Excused("idle", Nothing)
    BY <1>2, RecordsTyped DEF Excused
  <2> QED  BY <1>4, <1>7, <2>1, ExcuseMove
<1>8. CASE req[r].stage = "route" /\ Moves(r, "serve", Holding(req[r], None))
  <2> DEFINE new == Holding(req[r], None)
  <2>1. new \in RequestType
    BY <1>2, RecordsTyped
  <2>2. /\ new.key = req[r].key /\ new.stage = "route"
        /\ new.billed = req[r].billed /\ new.blip = req[r].blip
    BY <1>2, <1>8, HoldingFields
  <2>3. Accounted(new)
    BY <1>3, <1>8, <2>2 DEF Accounted
  <2>4. Excused("serve", new)
    BY <1>3, <2>2, <2>3 DEF Excused
  <2>5. Moves(r, "serve", new)
    BY <1>8
  <2> HIDE DEF new
  <2> QED  BY <1>4, <2>1, <2>4, <2>5, ExcuseMove
<1> QED  BY <1>1, <1>5, <1>6, <1>7, <1>8, AnswerMoves

(* A request that is let through on a counted or failed limit is accounted. *)
LEMMA ExcuseCallNext ==
  ASSUME TypeOK, ExcuseInv, NEW r \in Requests, pc[r] # "idle",
         NEW billed \in BOOLEAN, NEW blip \in BOOLEAN, CallNext(r, billed, blip),
         billed \/ blip, keys' = keys
  PROVE  \A o \in Requests : Excused(pc[o], req[o])'
<1>1. RequestsTyped
  BY TypeParts
<1>2. req[r] \in RequestType /\ None \in Principals
  BY <1>1 DEF RequestsTyped, Principals
<1> DEFINE new == Passed(req[r], billed, blip)
<1>3. new \in RequestType
  BY <1>2, RecordsTyped
<1>4. new.key = req[r].key /\ new.stage = "route"
  BY <1>2, PassedFields
<1>5. billed => new.billed
  BY <1>2 DEF Passed, RequestType
<1>6. blip => new.blip
  BY <1>2 DEF Passed, RequestType
<1>7. Accounted(new)
  BY <1>5, <1>6 DEF Accounted
<1>8. Excused("look", new)
  BY <1>4, <1>7 DEF Excused, ExcuseInv
<1>9. Moves(r, "look", new)
  BY <1>1, CallNextMoves
<1> HIDE DEF new
<1> QED  BY <1>3, <1>8, <1>9, ExcuseMove DEF Places

(* A request's step keeps everybody excused. *)
LEMMA ExcuseStep ==
  ASSUME TypeOK, ExcuseInv, NEW r \in Requests, RequestStep(r)
  PROVE  ExcuseInv'
<1>1. RowsTyped /\ CacheTyped /\ RequestsTyped
  BY TypeParts
<1>2. req[r] \in RequestType /\ None \in Principals
  BY <1>1 DEF RequestsTyped, Principals
<1>3. pc[r] # "idle" /\ keys' = keys /\ quota' = quota
  BY StepRequests, StepFrame
<1>4. req[r].key \in Keys /\ keys[req[r].key] # "none"
  BY <1>1, <1>2, <1>3 DEF RequestsTyped, RequestType, ExcuseInv, Excused
<1>5. TRUE \in BOOLEAN /\ FALSE \in BOOLEAN
  OBVIOUS
<1>6. \A o \in Requests : Excused(pc[o], req[o])'
  <2>1. CASE Hit(r)
    <3>1. LET entry == cache[req[r].key] IN
          entry # Empty /\ Answer(r, entry.principal, FALSE)
      BY <2>1 DEF Hit
    <3>2. cache[req[r].key].principal \in Principals
      BY <1>1, <1>4 DEF CacheTyped, EntryType
    <3>3. cache[req[r].key].principal = None => keys[req[r].key] = "revoked"
      BY <1>4, <3>1 DEF ExcuseInv
    <3> QED  BY <1>3, <1>5, <3>1, <3>2, <3>3, ExcuseAnswer
  <2>2. CASE DbError(r)
    BY <1>2, <1>3, <1>5, <2>2, ExcuseAnswer DEF DbError
  <2>3. CASE Store(r)
    <3>1. pc[r] = "store" /\ Answer(r, req[r].principal, FALSE) /\ req[r].principal \in Principals
      BY <1>2, <2>3 DEF Store, RequestType
    <3>2. req[r].principal = None => keys[req[r].key] = "revoked"
      BY <3>1 DEF ExcuseInv, Excused
    <3> QED  BY <1>3, <1>5, <3>1, <3>2, ExcuseAnswer
  <2>4. CASE ConsumeAllowed(r)
    BY <1>3, <1>5, <2>4, ExcuseCallNext DEF ConsumeAllowed
  <2>5. CASE LimiterError(r)
    BY <1>3, <1>5, <2>5, ExcuseCallNext DEF LimiterError
  <2>6. CASE Reject(r) \/ Finish(r)
    <3>1. Moves(r, "idle", Nothing)
      BY <2>6 DEF Reject, Finish, Done, Moves
    <3>2. Nothing \in RequestType /\ Excused("idle", Nothing)
      BY <1>2, RecordsTyped DEF Excused
    <3> QED  BY <1>3, <3>1, <3>2, ExcuseMove DEF Places
  <2>7. ASSUME NEW at \in Places, pc' = [pc EXCEPT ![r] = at], req' = req,
               Excused(at, req[r])
        PROVE  \A o \in Requests : Excused(pc[o], req[o])'
    <3>1. Moves(r, at, req[r])
      BY <1>1, <2>7 DEF Moves, RequestsTyped
    <3> QED  BY <1>2, <1>3, <2>7, <3>1, ExcuseMove
  <2>8. CASE Miss(r)
    <3>1. Excused("read", req[r])
      BY <1>3, <2>8 DEF Excused, ExcuseInv
    <3> QED  BY <2>7, <2>8, <3>1 DEF Miss, Places
  <2>9. CASE ConsumeRejected(r)
    <3>1. pc[r] = "consume" /\ pc' = [pc EXCEPT ![r] = "ttl"] /\ req' = req
      BY <2>9 DEF ConsumeRejected
    <3>2. Excused("ttl", req[r])
      BY <3>1 DEF Excused, ExcuseInv
    <3> QED  BY <2>7, <3>1, <3>2 DEF Places
  <2>10. CASE Read(r)
    <3> DEFINE p == Resolve(req[r].key)
               new == [req[r] EXCEPT !.principal = p]
    <3>1. pc[r] = "read" /\ Moves(r, "store", new)
      BY <1>1, <2>10 DEF Read, Moves, RequestsTyped
    <3>2. p \in Principals
      BY <1>1 DEF RowsTyped, Resolve, Row, Principals, None
    <3>3. /\ new \in RequestType /\ new.key = req[r].key /\ new.principal = p
          /\ new.stage = req[r].stage /\ new.billed = req[r].billed /\ new.blip = req[r].blip
      BY <1>2, <3>2 DEF RequestType
    <3>4. p = None => keys[req[r].key] = "revoked"
      <4>1. keys[req[r].key] \in {"none", "active", "revoked"}
        BY <1>1, <1>4 DEF RowsTyped
      <4> QED  BY <1>4, <4>1 DEF Resolve, Row, ExcuseInv, None
    <3>5. new.stage = "route" => Accounted(new)
      <4>1. req[r].stage = "route" => Accounted(req[r])
        BY <1>3 DEF ExcuseInv, Excused
      <4> QED  BY <3>3, <4>1 DEF Accounted
    <3>6. Excused("store", new)
      BY <1>4, <3>3, <3>4, <3>5 DEF Excused
    <3>7. new \in RequestType
      BY <3>3
    <3> HIDE DEF new
    <3> QED  BY <1>3, <3>1, <3>6, <3>7, ExcuseMove DEF Places
  <2> QED  BY <2>1, <2>2, <2>3, <2>4, <2>5, <2>6, <2>8, <2>9, <2>10 DEF RequestStep
<1>7. ASSUME NEW k \in Keys, cache'[k] # Empty, cache'[k].principal = None
      PROVE  keys[k] = "revoked"
  <2>1. CASE cache' = cache
    BY <1>7, <2>1 DEF ExcuseInv
  <2>2. CASE Store(r)
    <3>1. /\ pc[r] = "store"
          /\ cache' = [cache EXCEPT ![req[r].key] =
               [principal |-> req[r].principal, left |-> Ttl, old |-> req[r].old]]
      BY <2>2 DEF Store
    <3>2. CASE k = req[r].key
      <4>1. req[r].principal = None
        BY <1>1, <1>7, <3>1, <3>2 DEF CacheTyped
      <4> QED  BY <3>1, <3>2, <4>1 DEF ExcuseInv, Excused
    <3>3. CASE k # req[r].key
      BY <1>1, <1>7, <3>1, <3>3 DEF CacheTyped, ExcuseInv
    <3> QED  BY <3>2, <3>3
  <2> QED  BY <2>1, <2>2, StepFrame
<1> QED  BY <1>3, <1>6, <1>7 DEF ExcuseInv

(* So does every other step: commands only revoke, and time touches neither *)
(* rows nor excuses.                                                        *)
LEMMA ExcuseNext == TypeOK /\ ExcuseInv /\ [Next]_vars => ExcuseInv'
<1> SUFFICES ASSUME TypeOK, ExcuseInv, [Next]_vars PROVE ExcuseInv'
  OBVIOUS
<1>1. RowsTyped /\ CacheTyped /\ RequestsTyped
  BY TypeParts
<1>2. CASE UNCHANGED vars
  BY <1>2 DEF vars, ExcuseInv, Excused, Accounted
<1>3. CASE Bot
  <2>1. PICK newKeys \in [Keys -> {"none", "active", "revoked"}], newQuota \in Quotas :
           /\ Commit(newKeys, newQuota)
           /\ \A k \in Keys : /\ keys[k] = "revoked" => newKeys[k] = "revoked"
                              /\ keys[k] # "none" => newKeys[k] # "none"
    BY <1>3, BotCommits
  <2>2. keys' = newKeys /\ quota' = newQuota /\ pc' = pc
    BY <2>1 DEF Commit
  <2>3. ASSUME NEW k \in Keys, cache'[k] # Empty, cache'[k].principal = None
        PROVE  keys'[k] = "revoked"
    <3>1. cache[k] \in EntryType
      BY <1>1 DEF CacheTyped
    <3>2. cache[k] # Empty /\ cache[k].principal = None
      BY <1>1, <2>1, <2>3, <3>1, CommitEffect, DatedEntry
    <3> QED  BY <2>1, <2>2, <3>2 DEF ExcuseInv
  <2>4. ASSUME NEW r \in Requests  PROVE Excused(pc[r], req[r])'
    <3>1. req[r] \in RequestType /\ (pc[r] # "idle" => req[r].key \in Keys)
      BY <1>1 DEF RequestsTyped, RequestType
    <3>2. /\ req'[r].key = req[r].key /\ req'[r].principal = req[r].principal
          /\ req'[r].stage = req[r].stage
      BY <1>1, <2>1, <3>1, CommitEffect, DatedRequest
    <3>3. req'[r].billed = req[r].billed /\ req'[r].blip = req[r].blip
      BY <1>1, <2>1, <3>1, CommitEffect, DatedRequest
    <3>4. Excused(pc[r], req[r])
      BY DEF ExcuseInv
    <3>5. pc[r] # "idle" /\ req[r].stage = "route" => Accounted(req[r])'
      BY <2>1, <2>2, <3>1, <3>2, <3>3, <3>4 DEF Excused, Accounted
    <3> QED  BY <2>1, <2>2, <3>1, <3>2, <3>4, <3>5 DEF Excused
  <2>5. quota' # 0
    BY <2>2, Ranges
  <2> QED  BY <2>3, <2>4, <2>5 DEF ExcuseInv
<1>4. ASSUME NEW r \in Requests, NEW k \in Keys, NEW s \in Scopes, Arrive(r, k, s)
      PROVE  ExcuseInv'
  <2> DEFINE new == [Nothing EXCEPT !.key = k, !.scope = s]
  <2>1. Moves(r, "look", new) /\ new \in RequestType
    BY <1>4, ArriveMoves
  <2>2. keys' = keys /\ quota' = quota /\ cache' = cache /\ keys[k] # "none"
    BY <1>4 DEF Arrive, rowVars
  <2>3. new.key = k /\ new.stage = "gate"
    BY DEF Nothing
  <2>4. Excused("look", new)
    BY <2>2, <2>3 DEF Excused
  <2> HIDE DEF new
  <2>5. \A o \in Requests : Excused(pc[o], req[o])'
    BY <2>1, <2>2, <2>4, ExcuseMove DEF Places
  <2> QED  BY <2>2, <2>5 DEF ExcuseInv
<1>5. CASE Tick
  <2>1. keys' = keys /\ quota' = quota /\ pc' = pc
    BY <1>5 DEF Tick
  <2>2. ASSUME NEW k \in Keys, cache'[k] # Empty, cache'[k].principal = None
        PROVE  keys'[k] = "revoked"
    <3>1. cache[k] \in EntryType
      BY <1>1 DEF CacheTyped
    <3>2. PICK n \in 0..Forgotten :
            cache[k].left > 0 /\ cache'[k] = [Dated(cache[k], n) EXCEPT !.left = cache[k].left - 1]
      BY <1>1, <1>5, <2>2, TickEntry
    <3>3. cache'[k].principal = cache[k].principal
      BY <3>1, <3>2 DEF Dated, EntryType
    <3>4. cache[k] # Empty
      BY <3>2 DEF Empty
    <3> QED  BY <2>1, <2>2, <3>3, <3>4 DEF ExcuseInv
  <2>3. ASSUME NEW r \in Requests  PROVE Excused(pc[r], req[r])'
    <3>1. req[r] \in RequestType
      BY <1>1 DEF RequestsTyped
    <3>2. CASE req'[r] = req[r]
      BY <2>1, <3>2 DEF ExcuseInv, Excused, Accounted
    <3>3. ASSUME NEW n \in 0..Forgotten,
                 req'[r] = [Dated(req[r], n) EXCEPT !.lag = req[r].lag + 1]
          PROVE  Excused(pc[r], req[r])'
      <4>1. /\ req'[r].key = req[r].key /\ req'[r].principal = req[r].principal
            /\ req'[r].stage = req[r].stage
            /\ req'[r].billed = req[r].billed /\ req'[r].blip = req[r].blip
        BY <3>1, <3>3 DEF Dated, RequestType
      <4>2. Accounted(req[r]) => Accounted(req[r])'
        BY <2>1, <4>1 DEF Accounted
      <4> QED  BY <2>1, <4>1, <4>2 DEF ExcuseInv, Excused
    <3> QED  BY <1>1, <1>5, <3>2, <3>3, TickRequest
  <2> QED  BY <2>1, <2>2, <2>3 DEF ExcuseInv
<1> QED  BY <1>2, <1>3, <1>4, <1>5, ExcuseStep DEF Next

(* UncountedIsExcused for every instance: nobody gets past the counter      *)
(* unbilled but through an error of a service or a key just revoked.        *)
THEOREM NobodySlipsThrough == Spec => []UncountedIsExcused
<1>1. Init => ExcuseInv
  BY DEF Init, ExcuseInv, Excused
<1>2. TypeOK /\ ExcuseInv => UncountedIsExcused
  BY DEF ExcuseInv, Excused, Accounted, UncountedIsExcused
<1> QED  BY <1>1, <1>2, InitTyped, NextTyped, ExcuseNext, PTL DEF Spec

-----------------------------------------------------------------------------
(* A request that moves leaves the other requests' copies as they are. *)
LEMMA YoungMove ==
  ASSUME TypeOK, AgeInv, NEW r \in Requests, NEW at \in Places, NEW new \in RequestType,
         Moves(r, at, new), Young(at, new)
  PROVE  \A o \in Requests : Young(pc[o], req[o])'
<1>1. RequestsTyped
  BY TypeParts
<1>2. /\ pc'[r] = at /\ req'[r] = new
      /\ \A o \in Requests : o # r => pc'[o] = pc[o] /\ req'[o] = req[o]
  BY <1>1, Moved
<1> QED  BY <1>2 DEF AgeInv, Young

(* An answer drops the copy, whatever it is. *)
LEMMA YoungAnswer ==
  ASSUME TypeOK, AgeInv, NEW r \in Requests, NEW p \in Principals, NEW blip \in BOOLEAN,
         Answer(r, p, blip)
  PROVE  \A o \in Requests : Young(pc[o], req[o])'
<1>1. RequestsTyped
  BY TypeParts
<1>2. req[r] \in RequestType /\ None \in Principals
  BY <1>1 DEF RequestsTyped, Principals
<1>3. "look" \in Places /\ "consume" \in Places /\ "idle" \in Places /\ "serve" \in Places
  BY DEF Places
<1>4. CASE Moves(r, "look", Passed(req[r], FALSE, blip))
  <2> DEFINE new == Passed(req[r], FALSE, blip)
  <2>1. new \in RequestType
    BY <1>2, RecordsTyped
  <2>2. new.old = 0 /\ new.lag = 0
    BY <1>2 DEF Passed, RequestType
  <2>3. Moves(r, "look", new)
    BY <1>4
  <2> HIDE DEF new
  <2> QED  BY <1>3, <2>1, <2>2, <2>3, YoungMove DEF Young
<1>5. CASE Moves(r, "consume", Holding(req[r], p))
  BY <1>2, <1>3, <1>5, RecordsTyped, YoungMove DEF Young
<1>6. CASE Moves(r, "idle", Nothing)
  BY <1>2, <1>3, <1>6, RecordsTyped, YoungMove DEF Young
<1>7. CASE Moves(r, "serve", Holding(req[r], None))
  BY <1>2, <1>3, <1>7, RecordsTyped, YoungMove DEF Young
<1> QED  BY <1>1, <1>4, <1>5, <1>6, <1>7, AnswerMoves

(* Going on to the route drops it as well. *)
LEMMA YoungCallNext ==
  ASSUME TypeOK, AgeInv, NEW r \in Requests, NEW billed \in BOOLEAN, NEW blip \in BOOLEAN,
         CallNext(r, billed, blip)
  PROVE  \A o \in Requests : Young(pc[o], req[o])'
<1>1. RequestsTyped
  BY TypeParts
<1>2. req[r] \in RequestType /\ None \in Principals
  BY <1>1 DEF RequestsTyped, Principals
<1> DEFINE new == Passed(req[r], billed, blip)
<1>3. new \in RequestType
  BY <1>2, RecordsTyped
<1>4. new.old = 0 /\ new.lag = 0
  BY <1>2, PassedFields
<1>5. Moves(r, "look", new)
  BY <1>1, CallNextMoves
<1> HIDE DEF new
<1> QED  BY <1>3, <1>4, <1>5, YoungMove DEF Young, Places

(* A request's step keeps every copy young: what it stores in the cache has *)
(* the whole TTL left, and is as old as the lookup took.                    *)
LEMMA AgeStep ==
  ASSUME TypeOK, AgeInv, NEW r \in Requests, RequestStep(r)
  PROVE  AgeInv'
<1>1. RowsTyped /\ CacheTyped /\ RequestsTyped
  BY TypeParts
<1>2. req[r] \in RequestType /\ None \in Principals
  BY <1>1 DEF RequestsTyped, Principals
<1>3. pc[r] # "idle" => req[r].key \in Keys
  BY <1>1, <1>2 DEF RequestsTyped, RequestType
<1>4. TRUE \in BOOLEAN /\ FALSE \in BOOLEAN
  OBVIOUS
<1>5. \A o \in Requests : Young(pc[o], req[o])'
  <2>1. CASE Hit(r)
    <3>1. pc[r] # "idle" /\ Answer(r, cache[req[r].key].principal, FALSE)
      BY <2>1 DEF Hit
    <3>2. cache[req[r].key].principal \in Principals
      BY <1>1, <1>3, <3>1 DEF CacheTyped, EntryType
    <3> QED  BY <1>4, <3>1, <3>2, YoungAnswer
  <2>2. CASE DbError(r)
    BY <1>2, <1>4, <2>2, YoungAnswer DEF DbError
  <2>3. CASE Store(r)
    <3>1. Answer(r, req[r].principal, FALSE) /\ req[r].principal \in Principals
      BY <1>2, <2>3 DEF Store, RequestType
    <3> QED  BY <1>4, <3>1, YoungAnswer
  <2>4. CASE ConsumeAllowed(r)
    BY <1>4, <2>4, YoungCallNext DEF ConsumeAllowed
  <2>5. CASE LimiterError(r)
    BY <1>4, <2>5, YoungCallNext DEF LimiterError
  <2>6. CASE Reject(r) \/ Finish(r)
    <3>1. Moves(r, "idle", Nothing)
      BY <2>6 DEF Reject, Finish, Done, Moves
    <3> QED  BY <1>2, <3>1, RecordsTyped, YoungMove DEF Places, Young
  <2>7. CASE Miss(r)
    <3>1. Moves(r, "read", req[r]) /\ pc[r] = "look"
      BY <1>1, <2>7 DEF Miss, Moves, RequestsTyped
    <3>2. Young("read", req[r])
      BY <3>1 DEF AgeInv, Young
    <3> QED  BY <1>2, <3>1, <3>2, YoungMove DEF Places
  <2>8. CASE ConsumeRejected(r)
    <3>1. Moves(r, "ttl", req[r])
      BY <1>1, <2>8 DEF ConsumeRejected, Moves, RequestsTyped
    <3> QED  BY <1>2, <3>1, YoungMove DEF Places, Young
  <2>9. CASE Read(r)
    <3> DEFINE p == Resolve(req[r].key)
               new == [req[r] EXCEPT !.principal = p]
    <3>1. pc[r] = "read" /\ Moves(r, "store", new)
      BY <1>1, <2>9 DEF Read, Moves, RequestsTyped
    <3>2. p \in Principals
      BY <1>1 DEF RowsTyped, Resolve, Row, Principals, None
    <3>3. new \in RequestType /\ new.old = req[r].old /\ new.lag = req[r].lag
      BY <1>2, <3>2 DEF RequestType
    <3>4. Young("store", new)
      BY <3>1, <3>3 DEF AgeInv, Young
    <3>5. new \in RequestType
      BY <3>3
    <3> HIDE DEF new
    <3> QED  BY <3>1, <3>4, <3>5, YoungMove DEF Places
  <2> QED  BY <2>1, <2>2, <2>3, <2>4, <2>5, <2>6, <2>7, <2>8, <2>9, <1>4 DEF RequestStep
<1>6. ASSUME NEW k \in Keys  PROVE cache'[k].old + cache'[k].left <= Lag + 1 + Ttl
  <2>1. CASE cache' = cache
    BY <2>1 DEF AgeInv
  <2>2. CASE Store(r)
    <3>1. /\ pc[r] = "store"
          /\ cache' = [cache EXCEPT ![req[r].key] =
               [principal |-> req[r].principal, left |-> Ttl, old |-> req[r].old]]
      BY <2>2 DEF Store
    <3>2. req[r].old <= req[r].lag + 1 /\ req[r].lag \in 0..Lag /\ req[r].old \in 0..Forgotten
      BY <1>2, <3>1 DEF AgeInv, Young, RequestType
    <3>3. CASE k = req[r].key
      BY <1>1, <3>1, <3>2, <3>3, Ranges DEF CacheTyped
    <3>4. CASE k # req[r].key
      BY <1>1, <3>1, <3>4 DEF CacheTyped, AgeInv
    <3> QED  BY <3>3, <3>4
  <2> QED  BY <2>1, <2>2, StepFrame
<1> QED  BY <1>5, <1>6 DEF AgeInv

(* Time ages a copy by as much as it takes from what is left; a commit      *)
(* starts an age at one.                                                    *)
LEMMA AgeNext == TypeOK /\ AgeInv /\ [Next]_vars => AgeInv'
<1> SUFFICES ASSUME TypeOK, AgeInv, [Next]_vars PROVE AgeInv'
  OBVIOUS
<1>1. CacheTyped /\ RequestsTyped
  BY TypeParts
<1>2. CASE UNCHANGED vars
  BY <1>2 DEF vars, AgeInv, Young
<1>3. ASSUME NEW k \in Keys
      PROVE  /\ cache[k] \in EntryType /\ cache[k].old \in Nat /\ cache[k].left \in Int
             /\ cache[k].left <= Ttl /\ cache[k].old + cache[k].left <= Lag + 1 + Ttl
  BY <1>1, Ranges DEF CacheTyped, EntryType, AgeInv
<1>4. ASSUME NEW r \in Requests
      PROVE  /\ req[r] \in RequestType /\ req[r].lag \in Nat /\ req[r].old \in Nat
             /\ Young(pc[r], req[r])
  BY <1>1, Ranges DEF RequestsTyped, RequestType, AgeInv
<1>5. CASE Bot
  <2>1. PICK newKeys, newQuota : Commit(newKeys, newQuota)
    BY <1>5, BotCommits
  <2>2. pc' = pc
    BY <2>1 DEF Commit
  <2>3. ASSUME NEW k \in Keys  PROVE cache'[k].old + cache'[k].left <= Lag + 1 + Ttl
    <3>1. ASSUME NEW n \in 0..Forgotten, n <= cache[k].old \/ n = 1,
                 cache'[k] = Dated(cache[k], n)
          PROVE  cache'[k].old + cache'[k].left <= Lag + 1 + Ttl
      <4>1. cache'[k].old = n /\ cache'[k].left = cache[k].left
        BY <1>3, <3>1, DatedEntry
      <4> QED  BY <1>3, <3>1, <4>1, Ranges
    <3> QED  BY <1>1, <1>3, <2>1, <3>1, CommitEffect
  <2>4. ASSUME NEW r \in Requests  PROVE Young(pc[r], req[r])'
    <3>1. CASE req'[r] = req[r]
      BY <1>4, <2>2, <3>1 DEF Young
    <3>2. ASSUME pc[r] = "store", NEW n \in 0..Forgotten, n <= req[r].old \/ n = 1,
                 req'[r] = Dated(req[r], n)
          PROVE  Young(pc[r], req[r])'
      <4>1. req'[r].old = n /\ req'[r].lag = req[r].lag
        BY <1>4, <3>2, DatedRequest
      <4> QED  BY <1>4, <2>2, <3>2, <4>1, Ranges DEF Young
    <3> QED  BY <1>1, <2>1, <3>1, <3>2, CommitEffect
  <2> QED  BY <2>3, <2>4 DEF AgeInv
<1>6. ASSUME NEW r \in Requests, NEW k \in Keys, NEW s \in Scopes, Arrive(r, k, s)
      PROVE  AgeInv'
  <2> DEFINE new == [Nothing EXCEPT !.key = k, !.scope = s]
  <2>1. Moves(r, "look", new) /\ new \in RequestType
    BY <1>6, ArriveMoves
  <2>2. new.old = 0 /\ new.lag = 0
    BY DEF Nothing
  <2>3. cache' = cache
    BY <1>6 DEF Arrive
  <2> HIDE DEF new
  <2>4. \A o \in Requests : Young(pc[o], req[o])'
    BY <2>1, <2>2, YoungMove DEF Places, Young
  <2> QED  BY <2>3, <2>4 DEF AgeInv
<1>7. CASE Tick
  <2>1. pc' = pc
    BY <1>7 DEF Tick
  <2>2. ASSUME NEW k \in Keys  PROVE cache'[k].old + cache'[k].left <= Lag + 1 + Ttl
    <3>1. CASE cache'[k] = Empty
      BY <3>1, Ranges DEF Empty
    <3>2. ASSUME NEW n \in 0..Forgotten, n <= cache[k].old + 1,
                 cache'[k] = [Dated(cache[k], n) EXCEPT !.left = cache[k].left - 1]
          PROVE  cache'[k].old + cache'[k].left <= Lag + 1 + Ttl
      <4>1. cache'[k].old = n /\ cache'[k].left = cache[k].left - 1
        BY <1>3, <3>2 DEF Dated, EntryType
      <4> QED  BY <1>3, <3>2, <4>1, Ranges
    <3> QED  BY <1>1, <1>7, <3>1, <3>2, TickEntry
  <2>3. ASSUME NEW r \in Requests  PROVE Young(pc[r], req[r])'
    <3>1. CASE pc[r] # "store" /\ req'[r] = req[r]
      BY <1>4, <2>1, <3>1 DEF Young
    <3>2. ASSUME pc[r] = "store", NEW n \in 0..Forgotten, n <= req[r].old + 1,
                 req'[r] = [Dated(req[r], n) EXCEPT !.lag = req[r].lag + 1]
          PROVE  Young(pc[r], req[r])'
      <4>1. req'[r].old = n /\ req'[r].lag = req[r].lag + 1
        BY <1>4, <3>2 DEF Dated, RequestType
      <4> QED  BY <1>4, <2>1, <3>2, <4>1, Ranges DEF Young
    <3> QED  BY <1>1, <1>7, <3>1, <3>2, TickRequest
  <2> QED  BY <2>2, <2>3 DEF AgeInv
<1> QED  BY <1>2, <1>5, <1>6, <1>7, AgeStep DEF Next

(* NoStalePrincipal for every instance: what a request is counted or served *)
(* as was given by the database no more than a TTL and a lookup ago.        *)
THEOREM PrincipalsAreFresh == Spec => NoStalePrincipal
<1>1. TypeOK /\ AgeInv /\ [Next]_vars =>
        [\A r \in Requests : Adopts(r) => AgeOf(r) <= Ttl + Lag + 1]_vars
  <2> SUFFICES ASSUME TypeOK, AgeInv, [Next]_vars, NEW r \in Requests, Adopts(r)
               PROVE  AgeOf(r) <= Ttl + Lag + 1
    OBVIOUS
  <2>1. CacheTyped /\ RequestsTyped
    BY TypeParts
  <2>2. req[r] \in RequestType /\ Young(pc[r], req[r])
    BY <2>1 DEF RequestsTyped, AgeInv
  <2>3. CASE pc[r] = "store"
    <3>1. req[r].old <= req[r].lag + 1 /\ req[r].old \in 0..Forgotten /\ req[r].lag \in 0..Lag
      BY <2>2, <2>3 DEF Young, RequestType
    <3> QED  BY <2>3, <3>1, Ranges DEF AgeOf
  <2>4. CASE pc[r] = "look"
    <3>1. RequestStep(r)
      BY <2>4, MovedBySelf DEF Adopts
    <3>2. ~Miss(r)
      BY <2>1, <2>4 DEF Adopts, Miss, RequestsTyped
    <3>3. Hit(r)
      BY <2>4, <3>1, <3>2 DEF RequestStep, Read, DbError, Store, ConsumeAllowed,
                              ConsumeRejected, Reject, LimiterError, Finish
    <3>4. req[r].key \in Keys /\ cache[req[r].key] # Empty
      BY <2>1, <2>2, <2>4, <3>3 DEF Hit, RequestsTyped, RequestType
    <3> DEFINE e == cache[req[r].key]
    <3>5. e \in EntryType /\ e.left # -1 /\ e.old + e.left <= Lag + 1 + Ttl
      BY <2>1, <3>4 DEF CacheTyped, AgeInv
    <3>6. e.old \in 0..Forgotten /\ e.left \in 0..Ttl
      BY <3>5, Ranges DEF EntryType
    <3> QED  BY <2>4, <3>5, <3>6, Ranges DEF AgeOf
  <2> QED  BY <2>3, <2>4 DEF Adopts
<1>2. Init => AgeInv
  BY Ranges DEF Init, AgeInv, Young, Empty
<1> QED  BY <1>1, <1>2, InitTyped, NextTyped, AgeNext, PTL DEF Spec, NoStalePrincipal

=============================================================================
