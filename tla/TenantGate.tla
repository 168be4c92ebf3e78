----------------------------- MODULE TenantGate -----------------------------
(***************************************************************************)
(* What a request with a tenant's key goes through before its handler: the *)
(* rate-limit middleware resolves the key and counts the request in an     *)
(* hourly Redis window, then the route resolves the key a second time.     *)
(* resolve_principal answers from an in-process cache with a TTL, or from   *)
(* PostgreSQL, where the bot's commands change what a key is worth.        *)
(*                                                                         *)
(* Requests of one API process interleave at every await.  Time is a Tick; *)
(* a database answer is cached at most Lag ticks after it was read.        *)
(* faults, fixed for a behaviour, says which service may raise: db, redis. *)
(***************************************************************************)
EXTENDS Integers

CONSTANTS Requests,   \* the requests the process has in hand, reused
          Keys,       \* the tenant's keys, issued or not
          Quotas,     \* the values of quota_per_hour
          ReadQuota,  \* READ_QUOTA_PER_HOUR
          Ttl, Lag, Window,
          MaxQuota,   \* no limit is above it
          NoKey, FaultSets

ASSUME NumbersAssumption ==
  /\ Ttl \in Nat /\ Lag \in Nat /\ Window \in Nat \ {0}
  /\ MaxQuota \in Nat /\ Quotas \cup {ReadQuota} \subseteq 1..MaxQuota
ASSUME KeysAssumption == NoKey \notin Keys
ASSUME GateFaultsAssumption == FaultSets \subseteq SUBSET {"db", "redis"}

VARIABLES
  faults,  \* what may raise in this behaviour
  keys,    \* key -> its row in api_keys
  quota,   \* the tenant's row: its quota, 0 while there is no row
  cache,   \* key -> its entry in _cache, with the ticks it has left
  count, left, \* bucket -> its counter and the ticks its key has to live
  pc, req, \* request -> where it is, and what it carries
  window   \* history: scope -> whom the running window admitted, its least limit

rowVars == <<keys, quota>>
limiterVars == <<count, left, window>>
requestVars == <<pc, req>>
vars == <<faults, keys, quota, cache, count, left, pc, req, window>>

Scopes == {"work", "read"}

(* A resolved principal is its quota; None is a key that resolves to nobody *)
None == 0
Principals == Quotas \cup {None}

(* old is history: 0 while the database still gives the copied principal,   *)
(* else 1 and the ticks since it stopped.                                   *)
Empty == [principal |-> None, left |-> -1, old |-> 0]

Nothing == [key |-> NoKey, scope |-> "work", stage |-> "gate", principal |-> None,
            lag |-> 0, old |-> 0, billed |-> FALSE, blip |-> FALSE]

NoWindow == [admitted |-> 0, least |-> MaxQuota]

(* Ages and counts saturate where nothing can tell the difference any more *)
Forgotten == Ttl + Lag + 2
CountCap(b) == 1 + IF b = "read" THEN ReadQuota ELSE MaxQuota
UpTo(cap, n) == IF n > cap THEN cap ELSE n

(* Which counter a request is charged to *)
SharedBucket(scope) == "work"     \* Mutant: reads are billed as work

Bucket(scope) == scope

-----------------------------------------------------------------------------
(* resolve_by_key_hash *)
Row(state, q) == IF state = "active" THEN q ELSE None

Resolve(k) == Row(keys[k], quota)

(* A bot command commits: the rows change, and with them the history *)
OldAfter(copy, row) ==
  CASE copy.principal = row -> 0
    [] copy.principal # row /\ copy.old = 0 -> 1
    [] OTHER -> copy.old

Commit(newKeys, newQuota) ==
  LET row(k) == Row(newKeys[k], newQuota) IN
  /\ keys' = newKeys
  /\ quota' = newQuota
  /\ cache' = [k \in Keys |->
       IF cache[k] = Empty THEN Empty
       ELSE [cache[k] EXCEPT !.old = OldAfter(cache[k], row(k))]]
  /\ req' = [r \in Requests |->
       IF pc[r] = "store"
       THEN [req[r] EXCEPT !.old = OldAfter(req[r], row(req[r].key))] ELSE req[r]]
  /\ UNCHANGED <<limiterVars, pc>>

(* /newkey: the quota argument counts only if the tenant is new *)
NewKey(k, q) ==
  /\ keys[k] = "none"
  /\ Commit([keys EXCEPT ![k] = "active"], IF quota = 0 THEN q ELSE quota)

(* /revoke deactivates all the keys of the tenant *)
Revoke ==
  /\ quota # 0
  /\ Commit([k \in Keys |-> IF keys[k] = "active" THEN "revoked" ELSE keys[k]], quota)

SetQuota(q) ==
  /\ quota # 0
  /\ Commit(keys, q)

-----------------------------------------------------------------------------
Init ==
  /\ faults \in FaultSets
  /\ keys = [k \in Keys |-> "none"]
  /\ quota = 0
  /\ cache = [k \in Keys |-> Empty]
  /\ count = [b \in Scopes |-> 0]
  /\ left = [b \in Scopes |-> 0]
  /\ pc = [r \in Requests |-> "idle"]
  /\ req = [r \in Requests |-> Nothing]
  /\ window = [s \in Scopes |-> NoWindow]

(* A caller presents a key it was given *)
Arrive(r, k, scope) ==
  /\ pc[r] = "idle" /\ keys[k] # "none"
  /\ pc' = [pc EXCEPT ![r] = "look"]
  /\ req' = [req EXCEPT ![r] = [Nothing EXCEPT !.key = k, !.scope = scope]]
  /\ UNCHANGED <<rowVars, cache, limiterVars>>

Done(r) ==
  /\ pc' = [pc EXCEPT ![r] = "idle"]
  /\ req' = [req EXCEPT ![r] = Nothing]

(* call_next: on to the route, which resolves the key again *)
CallNext(r, billed, blip) ==
  /\ pc' = [pc EXCEPT ![r] = "look"]
  /\ req' = [req EXCEPT ![r].stage = "route", ![r].principal = None, ![r].lag = 0, ![r].old = 0,
                        ![r].billed = billed, ![r].blip = @ \/ blip]

(* What resolve_principal's answer does: the middleware counts a tenant's   *)
(* request and lets any other through; the route serves a tenant's request  *)
(* and answers 403 to any other.  Whom it serves matters no further here.   *)
Answer(r, principal, blip) ==
  CASE req[r].stage = "gate" /\ principal = None -> CallNext(r, FALSE, blip)
    [] req[r].stage = "gate" /\ principal # None ->
         /\ pc' = [pc EXCEPT ![r] = "consume"]
         /\ req' = [req EXCEPT ![r].principal = principal, ![r].lag = 0, ![r].old = 0]
    [] req[r].stage = "route" /\ principal = None -> Done(r)
    [] req[r].stage = "route" /\ principal # None ->
         /\ pc' = [pc EXCEPT ![r] = "serve"]
         /\ req' = [req EXCEPT ![r].principal = None, ![r].lag = 0, ![r].old = 0]

(* Mutant: a hit renews the entry *)
HitRenew(r) ==
  LET entry == cache[req[r].key] IN
  /\ pc[r] = "look" /\ entry # Empty
  /\ Answer(r, entry.principal, FALSE)
  /\ cache' = [cache EXCEPT ![req[r].key].left = Ttl]
  /\ UNCHANGED <<rowVars, limiterVars>>

(* An entry answers up to and including its last tick *)
Hit(r) ==
  LET entry == cache[req[r].key] IN
  /\ pc[r] = "look" /\ entry # Empty
  /\ Answer(r, entry.principal, FALSE)
  /\ UNCHANGED <<rowVars, cache, limiterVars>>

Miss(r) ==
  /\ pc[r] = "look" /\ cache[req[r].key] = Empty
  /\ pc' = [pc EXCEPT ![r] = "read"]
  /\ UNCHANGED <<rowVars, cache, limiterVars, req>>

Read(r) ==
  /\ pc[r] = "read"
  /\ pc' = [pc EXCEPT ![r] = "store"]
  /\ req' = [req EXCEPT ![r].principal = Resolve(req[r].key)]
  /\ UNCHANGED <<rowVars, cache, limiterVars>>

(* Mutant: the failed lookup is cached like an unknown key *)
DbErrorCached(r) ==
  /\ "db" \in faults
  /\ pc[r] \in {"read", "store"}
  /\ Answer(r, None, TRUE)
  /\ cache' = [cache EXCEPT ![req[r].key] = [principal |-> None, left |-> Ttl, old |-> 0]]
  /\ UNCHANGED <<rowVars, limiterVars>>

(* The database raises: nobody, and nothing is cached *)
DbError(r) ==
  /\ "db" \in faults
  /\ pc[r] \in {"read", "store"}
  /\ Answer(r, None, TRUE)
  /\ UNCHANGED <<rowVars, cache, limiterVars>>

(* _cache_set, whatever another request has stored meanwhile *)
Store(r) ==
  /\ pc[r] = "store"
  /\ cache' = [cache EXCEPT ![req[r].key] = 
       [principal |-> req[r].principal, left |-> Ttl, old |-> req[r].old]]
  /\ Answer(r, req[r].principal, FALSE)
  /\ UNCHANGED <<rowVars, limiterVars>>

-----------------------------------------------------------------------------
(* consume: INCR and EXPIRE NX in one MULTI *)
Limit(r) == IF req[r].scope = "read" THEN ReadQuota ELSE req[r].principal

(* Mutant: EXPIRE without NX *)
IncrRearm(b) ==
  /\ count' = [count EXCEPT ![b] = UpTo(CountCap(b), @ + 1)]
  /\ left' = [left EXCEPT ![b] = Window]

Incr(b) ==
  /\ count' = [count EXCEPT ![b] = UpTo(CountCap(b), @ + 1)]
  /\ left' = [left EXCEPT ![b] = IF @ = 0 THEN Window ELSE @]

(* Mutant: the counter is compared before it is incremented *)
LateWithin(r, n) == n - 1 <= Limit(r)

Within(r, n) == n <= Limit(r)

Note(r, admitted) ==
  window' = [window EXCEPT ![req[r].scope] =
    [admitted |-> UpTo(CountCap(req[r].scope), @.admitted + IF admitted THEN 1 ELSE 0),
     least |-> IF Limit(r) < @.least THEN Limit(r) ELSE @.least]]

ConsumeAllowed(r) ==
  LET b == Bucket(req[r].scope) IN
  /\ pc[r] = "consume"
  /\ Within(r, count[b] + 1)
  /\ Incr(b)
  /\ Note(r, TRUE)
  /\ CallNext(r, TRUE, FALSE)
  /\ UNCHANGED <<rowVars, cache>>

ConsumeRejected(r) ==
  LET b == Bucket(req[r].scope) IN
  /\ pc[r] = "consume"
  /\ ~Within(r, count[b] + 1)
  /\ Incr(b)
  /\ Note(r, FALSE)
  /\ pc' = [pc EXCEPT ![r] = "ttl"]
  /\ UNCHANGED <<rowVars, cache, req>>

(* The counter's TTL is read for Retry-After, and 429 answered *)
Reject(r) ==
  /\ pc[r] = "ttl"
  /\ Done(r)
  /\ UNCHANGED <<rowVars, cache, limiterVars>>

(* Redis raises, the increment applied or not: the request is let through *)
LimiterError(r) ==
  /\ "redis" \in faults
  /\ \/ pc[r] \in {"consume", "ttl"} /\ UNCHANGED limiterVars
     \/ pc[r] = "consume" /\ Incr(Bucket(req[r].scope)) /\ Note(r, TRUE)
  /\ CallNext(r, FALSE, TRUE)
  /\ UNCHANGED <<rowVars, cache>>

(* The handler returns *)
Finish(r) ==
  /\ pc[r] = "serve"
  /\ Done(r)
  /\ UNCHANGED <<rowVars, cache, limiterVars>>

-----------------------------------------------------------------------------
(* Mutant: an entry outlives its TTL by one tick *)
AgedLate(entry) == [entry EXCEPT !.left = @ - 1]

Aged(entry) == IF entry.left <= 0 THEN Empty ELSE [entry EXCEPT !.left = @ - 1]

Older(copy) == [copy EXCEPT !.old = IF @ = 0 THEN 0 ELSE UpTo(Forgotten, @ + 1)]

Tick ==
  /\ \A r \in Requests : pc[r] = "store" => req[r].lag < Lag
  /\ req' = [r \in Requests |->
       IF pc[r] = "store" THEN [Older(req[r]) EXCEPT !.lag = @ + 1] ELSE req[r]]
  /\ cache' = [k \in Keys |-> Aged(Older(cache[k]))]
  /\ left' = [b \in Scopes |-> IF left[b] = 0 THEN 0 ELSE left[b] - 1]
  /\ count' = [b \in Scopes |-> IF left[b] <= 1 THEN 0 ELSE count[b]]
  /\ window' = [s \in Scopes |-> IF left[Bucket(s)] <= 1 THEN NoWindow ELSE window[s]]
  /\ UNCHANGED <<keys, quota, pc>>

Bot == Revoke \/ \E q \in Quotas : SetQuota(q) \/ \E k \in Keys : NewKey(k, q)

RequestStep(r) ==
  \/ Hit(r) \/ Miss(r) \/ Read(r) \/ DbError(r) \/ Store(r)
  \/ ConsumeAllowed(r) \/ ConsumeRejected(r) \/ Reject(r) \/ LimiterError(r)
  \/ Finish(r)

Next ==
  /\ \/ Bot
     \/ \E r \in Requests, k \in Keys, s \in Scopes : Arrive(r, k, s)
     \/ \E r \in Requests : RequestStep(r)
     \/ Tick
  /\ UNCHANGED faults

Spec == Init /\ [][Next]_vars

(* Every await ends, with an answer or an exception, and time passes *)
FairSpec ==
  /\ Spec
  /\ \A r \in Requests : WF_vars(RequestStep(r) /\ UNCHANGED faults)
  /\ SF_vars(Tick /\ UNCHANGED faults)

-----------------------------------------------------------------------------
(* Types.  Entries, counters and requests keep their shape, and a request   *)
(* that is counted is a tenant's.                                           *)
TypeOK ==
  /\ faults \in FaultSets
  /\ keys \in [Keys -> {"none", "active", "revoked"}]
  /\ quota \in Quotas \cup {0}
  /\ cache \in [Keys -> [principal : Principals, left : -1..Ttl, old : 0..Forgotten]]
  /\ \A k \in Keys : cache[k].left = -1 => cache[k] = Empty
  /\ count \in [Scopes -> 0..CountCap("work")]
  /\ left \in [Scopes -> 0..Window]
  /\ pc \in [Requests -> {"idle", "look", "read", "store", "consume", "ttl", "serve"}]
  /\ req \in [Requests -> [key : Keys \cup {NoKey}, scope : Scopes, stage : {"gate", "route"},
                           principal : Principals, lag : 0..Lag,
                           old : 0..Forgotten, billed : BOOLEAN, blip : BOOLEAN]]
  /\ window \in [Scopes -> [admitted : 0..CountCap("work"), least : 1..MaxQuota]]
  /\ \A r \in Requests : pc[r] = "idle" <=> req[r].key = NoKey
  /\ \A r \in Requests : pc[r] \in {"consume", "ttl"} => req[r].principal # None

(* A revoked key or a changed quota takes effect: nobody is counted or      *)
(* served as a principal the database stopped giving more than one cache    *)
(* TTL and one lookup ago, however lookups race to fill the cache.          *)
Adopts(r) == pc[r] \in {"look", "store"} /\ pc'[r] \in {"consume", "serve"}

AgeOf(r) == IF pc[r] = "store" THEN req[r].old ELSE cache[req[r].key].old

NoStalePrincipal ==
  [][\A r \in Requests :
       Adopts(r) => AgeOf(r) <= Ttl + Lag + 1]_vars

(* However requests with different cached quotas interleave, each of those   *)
(* let through finds at most its own quota let through, itself included.    *)
QuotaHolds ==
  [][\A r \in Requests :
       /\ pc[r] = "consume" /\ pc'[r] = "look"
       /\ "redis" \notin faults
       => window'[req[r].scope].admitted <= Limit(r)]_vars

(* 429 is answered only in a window that has let a whole quota through:     *)
(* reads do not use up the quota for work, nor rejected requests more than  *)
(* the window they fall in (rate_limit.py, "billing separation").           *)
RejectIsSpent ==
  [][\A r \in Requests :
       pc[r] = "consume" /\ pc'[r] = "ttl" =>
         window[req[r].scope].admitted >= window'[req[r].scope].least]_vars

(* A request served without being counted met an error of the database or   *)
(* of Redis itself, or its key had just been revoked: the second lookup     *)
(* does not admit what the first let pass as nobody's.                      *)
UncountedIsExcused ==
  \A r \in Requests :
    pc[r] = "serve" /\ ~req[r].billed => req[r].blip \/ keys[req[r].key] = "revoked"

(* A tenant that keeps asking for work is served again and again: being     *)
(* rejected does not push the end of its window out (token_bucket.py).      *)
Working(r, at) == pc[r] = at /\ req[r].scope = "work"

NoLockout ==
  "db" \notin faults /\ <>[](\A k \in Keys : keys[k] # "revoked")
    /\ []<>(\E r \in Requests : Working(r, "consume"))
  => []<>(\E r \in Requests : Working(r, "serve"))

=============================================================================
