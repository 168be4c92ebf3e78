--------------------------- MODULE FetchingProofs ---------------------------
(***************************************************************************)
(* Proofs about Fetching, for any jobs of any kinds, any number of proxies *)
(* and of tries: the browser and its contexts are accounted for, and the   *)
(* rotation leaves no usable port out.                                     *)
(***************************************************************************)
EXTENDS Fetching, WellFoundedInduction, TLAPS

Phases == {"new", "http", "sent", "render", "again", "lock", "launch", "open", "script", "page",
           "close", "ok", "failed"}

(* The jobs, the browser and the proxies. *)
JobType ==
  kind \in [Jobs -> DOMAIN Kinds] /\ phase \in [Jobs -> Phases] /\ left \in [Jobs -> Int]
PoolType ==
  /\ contexts \in [Jobs -> Int] /\ orphans \in [Jobs -> Nat]
  /\ drivers \in Nat /\ misstarts \in Nat /\ browser \in {"none", "up", "crashed"}
ProxyType ==
  /\ idx \in AllPorts /\ port \in [Jobs -> AllPorts \cup {-1}]
  /\ dead \in [{"maps", "rotating"} -> [AllPorts -> Nat]]
  /\ usable \in [Jobs -> SUBSET AllPorts] /\ tried \in [Jobs -> SUBSET AllPorts]
FetchTypeOK == JobType /\ PoolType /\ ProxyType

-----------------------------------------------------------------------------
(* Numbers *)

(* The numbers among the constants. *)
LEMMA PortNumbers == Ports \in Nat /\ Ports > 0 /\ DeadTtl \in Nat /\ DeadTtl > 0 /\ Tries \in Nat /\ Tries > 0
BY FetchAssumption

(* Min picks the least of the ports. *)
LEMMA LeastPort ==
  ASSUME NEW S, S \subseteq AllPorts, S # {}
  PROVE  Min(S) \in S /\ \A i \in S : Min(S) <= i
<1>1. S \subseteq Nat
  BY PortNumbers DEF AllPorts
<1>2. PICK x \in S : \A y \in S : ~(<<y, x>> \in OpToRel(<, Nat))
  BY <1>1, WFMin, NatLessThanWellFounded
<1>3. ASSUME NEW y \in S PROVE x <= y
  <2>1. SUFFICES ASSUME y < x PROVE FALSE
    BY <1>1
  <2>2. <<y, x>> \in OpToRel(<, Nat)
    BY <1>1, <2>1 DEF OpToRel
  <2> QED BY <1>2, <2>2
<1> QED BY <1>3 DEF Min

(* What the kinds have in common. *)
LEMMA KindFacts ==
  ASSUME NEW k \in DOMAIN Kinds
  PROVE  /\ Kinds[k].pick \in {"live", "next", "none"} /\ Kinds[k].memory \in {"maps", "rotating"}
         /\ Kinds[k].tries \in Nat /\ Kinds[k].renders \in Nat
         /\ Kinds[k].spent \in {"render", "ok", "failed"}
         /\ \A answer \in DOMAIN Kinds[k].leaves : Kinds[k].leaves[answer] \in {"render", "ok", "failed"}
<1> USE PortNumbers
<1>1. CASE k = "discovery"
  BY <1>1 DEF Kinds, Discovery, Maps
<1>2. CASE k = "reviews"
  BY <1>2 DEF Kinds, Reviews, Maps
<1>3. CASE k = "card"
  BY <1>3 DEF Kinds, Card, Maps
<1>4. CASE k = "page"
  BY <1>4 DEF Kinds, Page
<1>5. CASE k = "plain"
  BY <1>5 DEF Kinds, PlainPage, Page
<1>6. CASE k = "stub"
  <2>1. Kinds[k] = [pick |-> "live", memory |-> "maps", tries |-> 0,
                    benches |-> {"refused", "slow", "reset"},
                    leaves |-> [good |-> "ok"], spent |-> "ok", renders |-> 2]
    BY <1>6 DEF Kinds, Stub, PlainPage, Page
  <2> QED BY <2>1
<1>7. CASE k = "source"
  BY <1>7 DEF Kinds, Source, Rotating
<1>8. CASE k = "direct"
  <2>1. Kinds[k] = [pick |-> "none", memory |-> "rotating", tries |-> 1, benches |-> {"refused"},
                    leaves |-> [good |-> "ok", challenge |-> "render", reset |-> "render"],
                    spent |-> "render", renders |-> 1]
    BY <1>8 DEF Kinds, Direct, Source, Rotating
  <2> QED BY <2>1
<1>9. CASE k = "json"
  BY <1>9 DEF Kinds, Json, Rotating
<1>10. CASE k = "catalog"
  BY <1>10 DEF Kinds, Catalog
<1>11. CASE k = "profiles"
  BY <1>11 DEF Kinds, Profiles, Catalog
<1>12. CASE k = "search"
  BY <1>12 DEF Kinds, Search
<1>13. CASE k = "enrichment"
  BY <1>13 DEF Kinds, Enrichment
<1>14. CASE k = "vacancy"
  BY <1>14 DEF Kinds, Vacancy, Enrichment
<1>15. CASE k = "session"
  BY <1>15 DEF Kinds, Session, Enrichment
<1> QED
  BY <1>1, <1>2, <1>3, <1>4, <1>5, <1>6, <1>7, <1>8, <1>9,
     <1>10, <1>11, <1>12, <1>13, <1>14, <1>15
  DEF Kinds

(* The profile of a job is that of a kind. *)
LEMMA ProfileFacts ==
  ASSUME FetchTypeOK, NEW j \in Jobs
  PROVE  /\ Profile(j).memory \in {"maps", "rotating"} /\ Profile(j).tries \in Nat
         /\ Profile(j).renders \in Nat /\ Profile(j).spent \in {"render", "ok", "failed"}
         /\ \A answer \in DOMAIN Profile(j).leaves :
              Profile(j).leaves[answer] \in {"render", "ok", "failed"}
<1>1. kind[j] \in DOMAIN Kinds
  BY DEF FetchTypeOK, JobType
<1> QED BY <1>1, KindFacts DEF Profile

(* A job is taken to one place, the others stay. *)
LEMMA GoesTo ==
  ASSUME FetchTypeOK, NEW j \in Jobs, NEW where \in Phases, Goes(j, where)
  PROVE  /\ phase' \in [Jobs -> Phases] /\ phase'[j] = where
         /\ \A k \in Jobs \ {j} : phase'[k] = phase[k]
BY DEF Goes, FetchTypeOK, JobType

(* Where a failed or finished rendering leads. *)
LEMMA RenderedTo == ASSUME NEW j, NEW ok PROVE Rendered(j, ok) \in {"ok", "again", "failed"}
BY DEF Rendered

(* Every offset from the index is a port. *)
LEMMA PortAtType == ASSUME FetchTypeOK, NEW i \in Nat PROVE PortAt(i) \in AllPorts
<1>1. ASSUME NEW x \in Nat, NEW n \in Nat, n > 0 PROVE x % n \in 0..(n - 1)
  BY <1>1
<1>2. idx + i \in Nat
  BY PortNumbers DEF FetchTypeOK, ProxyType, AllPorts
<1> QED BY <1>1, <1>2, PortNumbers DEF PortAt, AllPorts

(* An offset of at most Ports wraps around once at most. *)
LEMMA Wraps ==
  ASSUME NEW base \in AllPorts, NEW i \in 0..Ports
  PROVE  (base + i) % Ports = IF base + i < Ports THEN base + i ELSE base + i - Ports
<1> DEFINE x == base + i
<1>1. x \in Nat /\ x < 2 * Ports
  BY PortNumbers DEF AllPorts
<1> HIDE DEF x
<1>2. x % Ports = IF x < Ports THEN x ELSE x - Ports
  BY <1>1, PortNumbers
<1> QED BY <1>1, <1>2, PortNumbers DEF x, AllPorts

(* At most Ports - 1 ports are skipped. *)
LEMMA StepsType == ASSUME FetchTypeOK, NEW j \in Jobs PROVE Steps(j) \in AllPorts
<1>1. 0 \in AllPorts /\ Ports - 1 \in AllPorts
  BY PortNumbers DEF AllPorts
<1>2. Skipped(Profile(j).memory) \in AllPorts
  <2> DEFINE alive == {i \in AllPorts : dead[Profile(j).memory][PortAt(i)] = 0}
  <2>1. CASE alive = {}
    BY <1>1, <2>1 DEF Skipped
  <2>2. CASE alive # {}
    <3>1. Min(alive) \in alive
      BY <2>2, LeastPort
    <3> QED BY <2>2, <3>1 DEF Skipped
  <2> QED BY <2>1, <2>2
<1> QED BY <1>1, <1>2 DEF Steps

-----------------------------------------------------------------------------
(* Types *)

(* The steps of the HTTP tries keep the types. *)
LEMMA TriesType ==
  ASSUME FetchTypeOK, NEW j \in Jobs,
         \/ StartJob(j) \/ Send(j) \/ Spent(j) \/ \E answer \in Answers : Answer(j, answer)
  PROVE  FetchTypeOK'
<1> USE PortNumbers
<1>0. PoolType /\ JobType /\ ProxyType
  BY DEF FetchTypeOK
<1>1. PoolType'
  BY <1>0 DEF PoolType, pool, StartJob, Send, Spent, Answer
<1>2. CASE StartJob(j)
  <2>1. JobType'
    BY <1>0, <1>2, GoesTo, ProfileFacts DEF StartJob, JobType, Phases
  <2>2. ProxyType'
    BY <1>0, <1>2, ProfileFacts DEF StartJob, ProxyType
  <2> QED BY <1>1, <2>1, <2>2 DEF FetchTypeOK
<1>3. CASE Send(j)
  <2>1. JobType'
    BY <1>0, <1>3, GoesTo DEF Send, JobType, Phases
  <2>2. ProxyType'
    <3>1. CASE Profile(j).pick = "none"
      BY <1>0, <1>3, <3>1 DEF Send, ProxyType, proxies
    <3>2. CASE Profile(j).pick # "none"
      <4>1. Steps(j) \in Nat /\ Steps(j) + 1 \in Nat
        BY StepsType DEF AllPorts
      <4>2. PortAt(Steps(j)) \in AllPorts /\ PortAt(Steps(j) + 1) \in AllPorts
        BY <4>1, PortAtType
      <4>3. /\ idx' = PortAt(Steps(j) + 1) /\ port' = [port EXCEPT ![j] = PortAt(Steps(j))]
            /\ tried' = [tried EXCEPT ![j] = @ \cup {PortAt(Steps(j))}]
            /\ usable' = [k \in Jobs |-> IF k = j THEN usable[k] ELSE {}] /\ dead' = dead
        BY <1>3, <3>2 DEF Send, Advance, Disturb
      <4> QED BY <1>0, <4>2, <4>3 DEF ProxyType
    <3> QED BY <3>1, <3>2
  <2> QED BY <1>1, <2>1, <2>2 DEF FetchTypeOK
<1>4. CASE Spent(j)
  <2>1. JobType'
    BY <1>0, <1>4, GoesTo, ProfileFacts DEF Spent, JobType, Phases
  <2>2. ProxyType'
    BY <1>0, <1>4 DEF Spent, ProxyType, proxies
  <2> QED BY <1>1, <2>1, <2>2 DEF FetchTypeOK
<1>5. ASSUME NEW answer \in Answers, Answer(j, answer) PROVE FetchTypeOK'
  <2>1. JobType'
    BY <1>0, <1>5, GoesTo, ProfileFacts DEF Answer, JobType, Phases
  <2>2. idx' \in AllPorts /\ tried' \in [Jobs -> SUBSET AllPorts] /\ port' \in [Jobs -> AllPorts \cup {-1}]
    BY <1>0, <1>5 DEF Answer, ProxyType
  <2>3. dead' \in [{"maps", "rotating"} -> [AllPorts -> Nat]] /\ usable' \in [Jobs -> SUBSET AllPorts]
    <3>1. CASE answer \in Profile(j).benches /\ port[j] # -1
      <4>1. port[j] \in AllPorts
        BY <1>0, <3>1 DEF ProxyType
      <4>2. /\ dead' = [dead EXCEPT ![Profile(j).memory][port[j]] = DeadTtl]
            /\ usable' = [k \in Jobs |-> IF Profile(k).memory = Profile(j).memory
                                          THEN usable[k] \ {port[j]} ELSE usable[k]]
        BY <1>5, <3>1 DEF Answer
      <4> QED BY <1>0, <4>1, <4>2, ProfileFacts DEF ProxyType
    <3>2. CASE ~(answer \in Profile(j).benches /\ port[j] # -1)
      BY <1>0, <1>5, <3>2 DEF Answer, ProxyType
    <3> QED BY <3>1, <3>2
  <2> QED BY <1>1, <2>1, <2>2, <2>3 DEF FetchTypeOK, ProxyType
<1> QED BY <1>2, <1>3, <1>4, <1>5

(* Opening and closing a context counts for one job. *)
LEMMA OpensType ==
  ASSUME PoolType, NEW j \in Jobs, NEW n \in {-1, 0, 1}, Opens(j, n)
  PROVE  /\ contexts' \in [Jobs -> Int] /\ contexts'[j] = contexts[j] + n
         /\ \A k \in Jobs \ {j} : contexts'[k] = contexts[k]
BY DEF Opens, PoolType

(* The steps of the browser keep the types. *)
LEMMA BrowserType ==
  ASSUME FetchTypeOK, NEW j \in Jobs
  PROVE  (\/ BeginRender(j) \/ EnterLaunch(j)
          \/ \E result \in {"no_driver", "no_chromium", "up"} : Launch(j, result)
          \/ \E ok \in BOOLEAN : OpenContext(j, ok) \/ AddScript(j, ok) \/ Work(j, ok) \/ CloseContext(j, ~ok))
            => FetchTypeOK'
<1> USE PortNumbers
<1>0. PoolType /\ JobType /\ ProxyType
  BY DEF FetchTypeOK
<1>1. CASE BeginRender(j)
  <2>1. left' \in [Jobs -> Int]
    <3>1. PICK n \in Int : left' = [left EXCEPT ![j] = n]
      <4>1. Profile(j).renders - 1 \in Int /\ left[j] - 1 \in Int
        <5>1. Profile(j).renders \in Nat
          BY ProfileFacts
        <5>2. left[j] \in Int
          BY <1>0 DEF JobType
        <5> QED BY <5>1, <5>2
      <4>2. left' = [left EXCEPT ![j] = (IF phase[j] = "render" THEN Profile(j).renders ELSE left[j]) - 1]
        BY <1>1 DEF BeginRender
      <4> QED BY <4>1, <4>2
    <3> QED BY <1>0, <3>1 DEF JobType
  <2>2. JobType'
    BY <1>0, <1>1, <2>1, GoesTo DEF BeginRender, JobType, Phases
  <2>3. PortAt(1) \in AllPorts
    BY PortAtType
  <2>4. idx' \in AllPorts /\ usable' \in [Jobs -> SUBSET AllPorts]
    BY <1>0, <1>1, <2>3 DEF BeginRender, Advance, Disturb, ProxyType
  <2>5. ProxyType'
    BY <1>0, <1>1, <2>4 DEF BeginRender, ProxyType
  <2> QED BY <1>0, <1>1, <2>2, <2>5 DEF FetchTypeOK, PoolType, pool, BeginRender
<1>2. CASE EnterLaunch(j)
  <2>1. JobType'
    BY <1>0, <1>2, GoesTo DEF EnterLaunch, JobType, Phases
  <2> QED BY <1>0, <1>2, <2>1 DEF FetchTypeOK, PoolType, ProxyType, proxies, EnterLaunch
<1>3. ASSUME NEW result \in {"no_driver", "no_chromium", "up"}, Launch(j, result) PROVE FetchTypeOK'
  <2>1. JobType'
    BY <1>0, <1>3, GoesTo, RenderedTo DEF Launch, JobType, Phases
  <2>2. PoolType'
    <3>1. /\ drivers' = drivers \/ drivers' = drivers + 1
          /\ misstarts' = misstarts \/ misstarts' = misstarts + 1
      BY <1>3 DEF Launch
    <3>2. drivers' \in Nat /\ misstarts' \in Nat
      <4>1. drivers \in Nat /\ misstarts \in Nat
        BY <1>0 DEF PoolType
      <4> QED BY <3>1, <4>1
    <3>3. browser' \in {"none", "up", "crashed"} /\ UNCHANGED <<contexts, orphans>>
      BY <1>0, <1>3 DEF Launch, PoolType
    <3> QED BY <1>0, <3>2, <3>3 DEF PoolType
  <2> QED BY <1>0, <1>3, <2>1, <2>2 DEF FetchTypeOK, ProxyType, proxies, Launch
<1>4. ASSUME NEW ok \in BOOLEAN, OpenContext(j, ok) PROVE FetchTypeOK'
  <2>1. JobType'
    BY <1>0, <1>4, GoesTo, RenderedTo DEF OpenContext, JobType, Phases
  <2>2. PoolType'
    <3>1. contexts' \in [Jobs -> Int]
      BY <1>0, <1>4, OpensType DEF OpenContext, PoolType
    <3> QED BY <1>0, <1>4, <3>1 DEF OpenContext, PoolType
  <2> QED BY <1>0, <1>4, <2>1, <2>2 DEF FetchTypeOK, ProxyType, proxies, OpenContext
<1>5. ASSUME NEW ok \in BOOLEAN, AddScript(j, ok) PROVE FetchTypeOK'
  <2>1. JobType'
    BY <1>0, <1>5, GoesTo, RenderedTo DEF AddScript, JobType, Phases
  <2>2. PoolType'
    <3>1. orphans' = orphans \/ orphans' = [orphans EXCEPT ![j] = orphans[j] + 1]
      <4>1. orphans = [orphans EXCEPT ![j] = orphans[j]]
        BY <1>0 DEF PoolType
      <4> QED BY <1>5, <4>1 DEF AddScript
    <3>2. orphans' \in [Jobs -> Nat]
      <4>1. CASE orphans' = orphans
        BY <1>0, <4>1 DEF PoolType
      <4>2. CASE orphans' = [orphans EXCEPT ![j] = orphans[j] + 1]
        BY <1>0, <4>2 DEF PoolType
      <4> QED BY <3>1, <4>1, <4>2
    <3> QED BY <1>0, <1>5, <3>2 DEF AddScript, PoolType
  <2> QED BY <1>0, <1>5, <2>1, <2>2 DEF FetchTypeOK, ProxyType, proxies, AddScript
<1>6. ASSUME NEW ok \in BOOLEAN, Work(j, ok) PROVE FetchTypeOK'
  <2>1. JobType'
    BY <1>0, <1>6, GoesTo DEF Work, JobType, Phases
  <2> QED BY <1>0, <1>6, <2>1 DEF FetchTypeOK, PoolType, ProxyType, proxies, Work
<1>7. ASSUME NEW raises, CloseContext(j, raises) PROVE FetchTypeOK'
  <2>1. JobType'
    <3>1. Goes(j, Rendered(j, worked[j] /\ (raises => SwallowsClose(j))))
      BY <1>7 DEF CloseContext
    <3>2. phase' \in [Jobs -> Phases]
      <4>1. Rendered(j, worked[j] /\ (raises => SwallowsClose(j))) \in Phases
        BY RenderedTo DEF Phases
      <4> QED BY <3>1, <4>1, GoesTo
    <3> QED BY <1>0, <1>7, <3>2 DEF CloseContext, JobType
  <2>2. PoolType'
    <3>1. CASE contexts' = contexts /\ orphans' = [orphans EXCEPT ![j] = orphans[j] + 1]
      BY <1>0, <1>7, <3>1 DEF CloseContext, PoolType
    <3>2. CASE Closes(j) /\ orphans' = orphans
      <4>1. contexts' \in [Jobs -> Int]
        BY <1>0, <3>2, OpensType DEF Closes
      <4> QED BY <1>0, <1>7, <3>2, <4>1 DEF CloseContext, PoolType
    <3> QED BY <1>7, <3>1, <3>2 DEF CloseContext
  <2> QED BY <1>0, <1>7, <2>1, <2>2 DEF FetchTypeOK, ProxyType, proxies, CloseContext
<1> QED BY <1>1, <1>2, <1>3, <1>4, <1>5, <1>6, <1>7

(* The state keeps its types. *)
LEMMA FetchStepType == ASSUME FetchTypeOK, [FetchNext]_fetchVars PROVE FetchTypeOK'
<1>0. PoolType /\ JobType /\ ProxyType
  BY DEF FetchTypeOK
<1>1. CASE \E j \in Jobs : JobStep(j)
  <2>1. PICK j \in Jobs : JobStep(j)
    BY <1>1
  <2> QED BY <2>1, TriesType, BrowserType DEF JobStep
<1>2. CASE Unbench
  <2>1. dead' \in [{"maps", "rotating"} -> [AllPorts -> Nat]]
    BY <1>0, <1>2 DEF Unbench, ProxyType
  <2> QED BY <1>0, <1>2, <2>1 DEF Unbench, FetchTypeOK, PoolType, JobType, ProxyType, pool
<1>3. CASE Crash
  <2>1. PoolType'
    <3>1. contexts' \in [Jobs -> Int] /\ orphans' \in [Jobs -> Nat]
      BY <1>3 DEF Crash
    <3> QED BY <1>0, <1>3, <3>1 DEF Crash, PoolType
  <2> QED BY <1>0, <1>3, <2>1 DEF Crash, FetchTypeOK, JobType, ProxyType, proxies
<1>4. CASE UNCHANGED fetchVars
  BY <1>0, <1>4 DEF fetchVars, FetchTypeOK, PoolType, JobType, ProxyType, pool, proxies
<1> QED BY <1>1, <1>2, <1>3, <1>4 DEF FetchNext

-----------------------------------------------------------------------------
(* The browser *)

(* The one that launches holds the lock and there is no browser; nobody uses *)
(* a browser that is not there; drivers and contexts are accounted for.      *)
InBrowser == {"open", "script", "page", "close"}
DriverInv == drivers = misstarts + (IF browser = "none" THEN 0 ELSE 1)
LaunchInv ==
  /\ \A j \in Jobs : phase[j] = "launch" => lock = j /\ browser = "none"
  /\ browser = "none" => \A j \in Jobs : phase[j] \notin InBrowser
ContextInv == browser # "crashed" => \A j \in Jobs : contexts[j] <= Holding(j) + orphans[j]
OwnInv == DriverInv /\ LaunchInv /\ ContextInv

(* A job still trying HTTP takes no part in it. *)
LEMMA TriesOwn ==
  ASSUME FetchTypeOK, OwnInv, NEW j \in Jobs,
         \/ StartJob(j) \/ Send(j) \/ Spent(j) \/ \E answer \in Answers : Answer(j, answer)
  PROVE  OwnInv'
<1>1. /\ UNCHANGED pool /\ phase[j] \in {"new", "http", "sent"}
      /\ \E where \in {"http", "sent", "render", "ok", "failed"} : Goes(j, where)
  <2>1. CASE StartJob(j)
    BY <2>1 DEF StartJob
  <2>2. CASE Send(j)
    BY <2>2 DEF Send
  <2>3. CASE Spent(j)
    BY <2>3, ProfileFacts DEF Spent
  <2>4. CASE \E answer \in Answers : Answer(j, answer)
    BY <2>4, ProfileFacts DEF Answer
  <2> QED BY <2>1, <2>2, <2>3, <2>4
<1>2. /\ phase'[j] \in {"http", "sent", "render", "ok", "failed"}
      /\ \A k \in Jobs \ {j} : phase'[k] = phase[k]
  BY <1>1, GoesTo DEF Phases
<1>3. \A k \in Jobs : Holding(k)' = Holding(k)
  BY <1>1, <1>2 DEF Holding
<1> QED
  BY <1>1, <1>2, <1>3 DEF OwnInv, DriverInv, LaunchInv, ContextInv, InBrowser, pool

(* Each step of a rendering keeps the accounts. *)
LEMMA BrowserOwn ==
  ASSUME FetchTypeOK, OwnInv, NEW j \in Jobs
  PROVE  (\/ BeginRender(j) \/ EnterLaunch(j)
          \/ \E result \in {"no_driver", "no_chromium", "up"} : Launch(j, result)
          \/ \E ok \in BOOLEAN : OpenContext(j, ok) \/ AddScript(j, ok) \/ Work(j, ok) \/ CloseContext(j, ~ok))
            => OwnInv'
<1>0. /\ PoolType /\ DriverInv /\ LaunchInv /\ ContextInv
      /\ \A k \in Jobs : contexts[k] \in Int /\ orphans[k] \in Nat
  BY DEF FetchTypeOK, OwnInv, PoolType
<1> USE MixAssumption DEF InBrowser
<1>1. CASE BeginRender(j)
  <2>1. UNCHANGED pool /\ phase[j] \in {"render", "again"} /\ phase'[j] = "lock"
        /\ \A k \in Jobs \ {j} : phase'[k] = phase[k]
    BY <1>1, GoesTo DEF BeginRender, Phases
  <2>2. \A k \in Jobs : Holding(k)' = Holding(k)
    BY <2>1 DEF Holding
  <2> QED BY <1>0, <2>1, <2>2 DEF OwnInv, DriverInv, LaunchInv, ContextInv, pool
<1>2. CASE EnterLaunch(j)
  <2>1. /\ UNCHANGED <<browser, drivers, contexts, orphans, misstarts>> /\ phase[j] = "lock" /\ lock = Free
        /\ IF browser = "none" THEN lock' = j /\ phase'[j] = "launch"
                               ELSE lock' = lock /\ phase'[j] = "open"
        /\ \A k \in Jobs \ {j} : phase'[k] = phase[k]
    BY <1>2, GoesTo DEF EnterLaunch, NeedsLaunch, Phases
  <2>2. \A k \in Jobs : Holding(k)' = Holding(k)
    BY <2>1 DEF Holding
  <2> QED BY <1>0, <2>1, <2>2 DEF OwnInv, DriverInv, LaunchInv, ContextInv
<1>3. ASSUME NEW result \in {"no_driver", "no_chromium", "up"}, Launch(j, result) PROVE OwnInv'
  <2>0. \/ result = "up" /\ browser' = "up" /\ Goes(j, "open")
        \/ result # "up" /\ browser' = browser /\ \E where \in {"ok", "again", "failed"} : Goes(j, where)
    <3>1. Rendered(j, FALSE) \in {"ok", "again", "failed"}
      BY RenderedTo
    <3> QED BY <1>3, <3>1 DEF Launch
  <2>1. /\ UNCHANGED <<contexts, orphans>> /\ phase[j] = "launch" /\ browser = "none" /\ lock = j
        /\ phase'[j] \in {"open", "ok", "again", "failed"} /\ (phase'[j] = "open" => browser' # "none")
        /\ \A k \in Jobs \ {j} : phase'[k] = phase[k]
        /\ browser' \in {"none", "up"}
    <3>1. UNCHANGED <<contexts, orphans>> /\ phase[j] = "launch"
      BY <1>3 DEF Launch
    <3>2. browser = "none" /\ lock = j
      BY <1>0, <3>1 DEF LaunchInv
    <3> QED BY <2>0, <3>1, <3>2, GoesTo DEF Phases
  <2>2. \A k \in Jobs : Holding(k)' = Holding(k)
    BY <2>1 DEF Holding
  <2>3. DriverInv'
    <3>1. CASE result = "up"
      BY <1>0, <1>3, <2>1, <3>1 DEF Launch, DriverInv, PoolType
    <3>2. CASE result = "no_chromium"
      BY <1>0, <1>3, <2>1, <3>2 DEF Launch, DriverInv, PoolType
    <3>3. CASE result = "no_driver"
      BY <1>0, <1>3, <2>1, <3>3 DEF Launch, DriverInv, PoolType
    <3> QED BY <3>1, <3>2, <3>3
  <2> QED BY <1>0, <2>1, <2>2, <2>3 DEF OwnInv, LaunchInv, ContextInv
<1>4. ASSUME NEW ok \in BOOLEAN, OpenContext(j, ok) PROVE OwnInv'
  <2>1. /\ UNCHANGED <<lock, browser, drivers, orphans, misstarts>> /\ phase[j] = "open"
        /\ \A k \in Jobs \ {j} : phase'[k] = phase[k]
        /\ \/ contexts' = contexts /\ phase'[j] \in {"ok", "again", "failed"}
           \/ Opens(j, 1) /\ phase'[j] = "script"
    <3>1. Rendered(j, FALSE) \in {"ok", "again", "failed"}
      BY RenderedTo
    <3>2. \/ contexts' = contexts /\ \E where \in {"ok", "again", "failed"} : Goes(j, where)
          \/ Opens(j, 1) /\ Goes(j, "script")
      BY <1>4, <3>1 DEF OpenContext
    <3>3. UNCHANGED <<lock, browser, drivers, orphans, misstarts>> /\ phase[j] = "open"
      BY <1>4 DEF OpenContext
    <3> QED BY <3>2, <3>3, GoesTo DEF Phases
  <2>2. browser # "none"
    BY <1>0, <2>1 DEF LaunchInv
  <2>3. \A k \in Jobs : contexts'[k] - Holding(k)' = contexts[k] - Holding(k)
    BY <1>0, <2>1, OpensType DEF Holding
  <2>4. ContextInv'
    <3>1. \A k \in Jobs : contexts'[k] \in Int
      BY <1>0, <2>1, OpensType
    <3> QED BY <1>0, <2>1, <2>3, <3>1 DEF ContextInv, Holding
  <2> QED BY <1>0, <2>1, <2>2, <2>4 DEF OwnInv, DriverInv, LaunchInv
<1>5. ASSUME NEW ok \in BOOLEAN, AddScript(j, ok) PROVE OwnInv'
  <2>1. /\ UNCHANGED <<lock, browser, drivers, contexts, misstarts>> /\ phase[j] = "script"
        /\ \A k \in Jobs \ {j} : phase'[k] = phase[k]
        /\ phase'[j] \in {"page", "ok", "again", "failed"}
    <3>1. Rendered(j, FALSE) \in {"ok", "again", "failed"}
      BY RenderedTo
    <3>2. \E where \in {"page", "ok", "again", "failed"} : Goes(j, where)
      BY <1>5, <3>1 DEF AddScript
    <3>3. UNCHANGED <<lock, browser, drivers, contexts, misstarts>> /\ phase[j] = "script"
      BY <1>5 DEF AddScript
    <3> QED BY <3>2, <3>3, GoesTo DEF Phases
  <2>2. browser # "none"
    BY <1>0, <2>1 DEF LaunchInv
  <2>3. ASSUME browser = "up" PROVE \A k \in Jobs : contexts'[k] <= Holding(k)' + orphans'[k]
    <3>1. CASE ok
      <4>1. phase'[j] = "page" /\ orphans' = [orphans EXCEPT ![j] = orphans[j]]
        BY <1>5, <3>1, GoesTo DEF AddScript, Phases
      <4>2. \A k \in Jobs : orphans'[k] = orphans[k]
        BY <1>0, <4>1 DEF PoolType
      <4> QED BY <1>0, <2>1, <2>3, <4>1, <4>2 DEF ContextInv, Holding
    <3>2. CASE ~ok
      <4>1. orphans' = [orphans EXCEPT ![j] = orphans[j] + 1]
        BY <1>5, <2>3, <3>2 DEF AddScript
      <4>2. \A k \in Jobs : orphans'[k] = IF k = j THEN orphans[k] + 1 ELSE orphans[k]
        BY <1>0, <4>1 DEF PoolType
      <4> QED BY <1>0, <2>1, <2>3, <4>2 DEF ContextInv, Holding
    <3> QED BY <3>1, <3>2
  <2>4. ContextInv'
    BY <1>0, <2>1, <2>2, <2>3 DEF ContextInv, PoolType
  <2> QED BY <1>0, <2>1, <2>2, <2>4 DEF OwnInv, DriverInv, LaunchInv
<1>6. ASSUME NEW ok \in BOOLEAN, Work(j, ok) PROVE OwnInv'
  <2>1. /\ UNCHANGED <<lock, browser, drivers, contexts, orphans, misstarts>> /\ phase[j] = "page"
        /\ \A k \in Jobs \ {j} : phase'[k] = phase[k]
        /\ phase'[j] = "close"
    BY <1>6, GoesTo DEF Work, Phases
  <2>2. \A k \in Jobs : Holding(k)' = Holding(k)
    BY <2>1 DEF Holding
  <2> QED BY <1>0, <2>1, <2>2 DEF OwnInv, DriverInv, LaunchInv, ContextInv
<1>7. ASSUME NEW raises, CloseContext(j, raises) PROVE OwnInv'
  <2>1. /\ UNCHANGED <<lock, browser, drivers, misstarts>> /\ phase[j] = "close"
        /\ \/ contexts' = contexts /\ orphans' = [orphans EXCEPT ![j] = orphans[j] + 1]
           \/ Closes(j) /\ orphans' = orphans
        /\ Goes(j, Rendered(j, worked[j] /\ (raises => SwallowsClose(j))))
    BY <1>7 DEF CloseContext
  <2>2. phase'[j] \in {"ok", "again", "failed"} /\ \A k \in Jobs \ {j} : phase'[k] = phase[k]
    <3>1. Rendered(j, worked[j] /\ (raises => SwallowsClose(j))) \in {"ok", "again", "failed"}
      BY RenderedTo
    <3> QED BY <2>1, <3>1, GoesTo DEF Phases
  <2>3. browser # "none"
    BY <1>0, <2>1 DEF LaunchInv
  <2>4. ASSUME browser = "up" PROVE \A k \in Jobs : contexts'[k] <= Holding(k)' + orphans'[k]
    <3>1. CASE Closes(j) /\ orphans' = orphans
      <4>1. Opens(j, -1)
        BY <2>4, <3>1 DEF Closes
      <4>2. \A k \in Jobs : contexts'[k] - Holding(k)' = contexts[k] - Holding(k)
        BY <1>0, <2>1, <2>2, <4>1, OpensType DEF Holding
      <4> QED BY <1>0, <2>1, <2>4, <3>1, <4>1, <4>2, OpensType DEF ContextInv, Holding
    <3>2. CASE contexts' = contexts /\ orphans' = [orphans EXCEPT ![j] = orphans[j] + 1]
      <4>1. \A k \in Jobs : orphans'[k] = IF k = j THEN orphans[k] + 1 ELSE orphans[k]
        BY <1>0, <3>2 DEF FetchTypeOK, PoolType
      <4>2. \A k \in Jobs : Holding(k)' = IF k = j THEN Holding(k) - 1 ELSE Holding(k)
        BY <2>1, <2>2 DEF Holding
      <4> QED BY <1>0, <2>4, <3>2, <4>1, <4>2 DEF ContextInv, Holding
    <3> QED BY <2>1, <3>1, <3>2
  <2>5. ContextInv'
    BY <1>0, <2>1, <2>3, <2>4 DEF ContextInv, PoolType
  <2> QED BY <1>0, <2>1, <2>2, <2>3, <2>5 DEF OwnInv, DriverInv, LaunchInv
<1> QED BY <1>1, <1>2, <1>3, <1>4, <1>5, <1>6, <1>7

(* So do all steps, a crash of the browser among them. *)
LEMMA FetchStepOwn == ASSUME FetchTypeOK, OwnInv, [FetchNext]_fetchVars PROVE OwnInv'
<1>1. CASE \E j \in Jobs : JobStep(j)
  <2>1. PICK j \in Jobs : JobStep(j)
    BY <1>1
  <2> QED BY <2>1, TriesOwn, BrowserOwn DEF JobStep
<1>2. CASE Unbench
  BY <1>2 DEF Unbench, OwnInv, DriverInv, LaunchInv, ContextInv, Holding, pool
<1>3. CASE Crash
  BY <1>3 DEF Crash, OwnInv, DriverInv, LaunchInv, ContextInv
<1>4. CASE UNCHANGED fetchVars
  BY <1>4 DEF fetchVars, OwnInv, DriverInv, LaunchInv, ContextInv, Holding, pool
<1> QED BY <1>1, <1>2, <1>3, <1>4 DEF FetchNext

-----------------------------------------------------------------------------
(* The rotation *)

(* A port usable for a job is not benched in the job's memory; while the job *)
(* rotates, each usable port it has not tried comes up before its tries are  *)
(* used up.                                                                  *)
Rotates(j) == phase[j] \in {"http", "sent"} /\ Profile(j).pick = "live" /\ Profile(j).tries >= Ports
AliveInv == \A j \in Jobs : \A p \in usable[j] : dead[Profile(j).memory][p] = 0
AheadInv ==
  \A j \in Jobs : Rotates(j) =>
    \A i \in AllPorts : PortAt(i) \in usable[j] \ tried[j] => i < left[j]
RotInv == AliveInv /\ AheadInv

(* Every port is some steps from the index. *)
LEMMA EveryPortAhead == ASSUME FetchTypeOK, NEW q \in AllPorts PROVE \E i \in AllPorts : PortAt(i) = q
<1> DEFINE i == IF q >= idx THEN q - idx ELSE q - idx + Ports
<1>1. idx \in AllPorts
  BY DEF FetchTypeOK, ProxyType
<1>2. i \in AllPorts /\ i \in 0..Ports
      /\ (IF idx + i < Ports THEN idx + i ELSE idx + i - Ports) = q
  BY <1>1, PortNumbers DEF AllPorts
<1> HIDE DEF i
<1>3. PortAt(i) = q
  BY <1>1, <1>2, Wraps DEF PortAt
<1> QED BY <1>2, <1>3

(* After the index moved past the port n steps ahead, the port i steps ahead *)
(* is one that was n + 1 + i steps ahead, going round.                       *)
LEMMA OffsetAfter ==
  ASSUME FetchTypeOK, NEW n \in AllPorts, NEW i \in AllPorts, idx' = PortAt(n + 1)
  PROVE  LET m == IF n + 1 + i < Ports THEN n + 1 + i ELSE n + 1 + i - Ports
         IN  m \in AllPorts /\ PortAt(i)' = PortAt(m)
<1> DEFINE m == IF n + 1 + i < Ports THEN n + 1 + i ELSE n + 1 + i - Ports
           moved == IF idx + (n + 1) < Ports THEN idx + (n + 1) ELSE idx + (n + 1) - Ports
<1>1. idx \in AllPorts
  BY DEF FetchTypeOK, ProxyType
<1>2. m \in AllPorts /\ moved \in AllPorts /\ n + 1 \in 0..Ports /\ m \in 0..Ports /\ i \in 0..Ports
  BY <1>1, PortNumbers DEF AllPorts
<1>3. (IF moved + i < Ports THEN moved + i ELSE moved + i - Ports)
        = (IF idx + m < Ports THEN idx + m ELSE idx + m - Ports)
  BY <1>1, PortNumbers DEF AllPorts
<1>4. PortAt(n + 1) = moved
  <2> HIDE DEF m
  <2> QED BY <1>1, <1>2, Wraps DEF PortAt
<1> HIDE DEF m, moved
<1>5. PortAt(i)' = (moved + i) % Ports
  BY <1>4 DEF PortAt
<1>6. PortAt(i)' = PortAt(m)
  BY <1>1, <1>2, <1>3, <1>5, Wraps DEF PortAt
<1> QED BY <1>2, <1>6 DEF m

(* A try takes the first usable port there is: those it passes are benched. *)
LEMMA SendRot == ASSUME FetchTypeOK, RotInv, NEW j \in Jobs, Send(j) PROVE RotInv'
<1>1. /\ kind' = kind /\ dead' = dead /\ left' = [left EXCEPT ![j] = left[j] - 1] /\ Goes(j, "sent")
      /\ phase[j] = "http"
  BY DEF Send, proxies
<1>2. \A k \in Jobs : Profile(k)' = Profile(k)
  BY <1>1 DEF Profile
<1>3. phase'[j] = "sent" /\ \A k \in Jobs \ {j} : phase'[k] = phase[k] /\ left'[k] = left[k]
  BY <1>1, GoesTo DEF Phases, FetchTypeOK, JobType
<1>4. CASE Profile(j).pick = "none"
  <2>1. UNCHANGED <<idx, usable, tried>>
    BY <1>4 DEF Send, proxies
  <2>2. AliveInv'
    BY <1>1, <1>2, <2>1 DEF RotInv, AliveInv
  <2>3. \A i : PortAt(i)' = PortAt(i)
    BY <2>1 DEF PortAt
  <2>4. AheadInv'
    BY <1>2, <1>3, <1>4, <2>1, <2>3 DEF RotInv, AheadInv, Rotates
  <2> QED BY <2>2, <2>4 DEF RotInv
<1>5. CASE Profile(j).pick # "none"
  <2> DEFINE n == Steps(j)
  <2>1. /\ idx' = PortAt(n + 1) /\ tried' = [tried EXCEPT ![j] = tried[j] \cup {PortAt(n)}]
        /\ usable' = [k \in Jobs |-> IF k = j THEN usable[k] ELSE {}]
    BY <1>5 DEF Send, Advance, Disturb
  <2>2. AliveInv'
    BY <1>1, <1>2, <2>1 DEF RotInv, AliveInv
  <2>3. ASSUME Rotates(j)', NEW i \in AllPorts, PortAt(i)' \in usable'[j] \ tried'[j]
        PROVE  i < left'[j]
    <3> DEFINE m == IF n + 1 + i < Ports THEN n + 1 + i ELSE n + 1 + i - Ports
               alive == {k \in AllPorts : dead[Profile(j).memory][PortAt(k)] = 0}
    <3>1. n \in AllPorts
      BY StepsType
    <3>2. m \in AllPorts /\ PortAt(i)' = PortAt(m)
      BY <2>1, <3>1, OffsetAfter
    <3>3. PortAt(m) \in usable[j] /\ PortAt(m) \notin tried[j] /\ PortAt(m) # PortAt(n)
      BY <2>1, <2>3, <3>2 DEF FetchTypeOK, ProxyType
    <3>4. Rotates(j)
      BY <1>1, <1>2, <2>3 DEF Rotates
    <3>5. m < left[j]
      BY <3>2, <3>3, <3>4 DEF RotInv, AheadInv
    <3>6. m \in alive
      BY <3>2, <3>3 DEF RotInv, AliveInv
    <3>7. n = Min(alive) /\ n <= m
      <4>1. n = Min(alive)
        BY <3>4, <3>6 DEF Rotates, Steps, Skipped
      <4>2. alive \subseteq AllPorts /\ alive # {}
        BY <3>6
      <4> HIDE DEF alive, n, m
      <4> QED BY <3>6, <4>1, <4>2, LeastPort
    <3>8. n # m
      BY <3>3
    <3>9. left[j] \in Int /\ left'[j] = left[j] - 1
      BY <1>1 DEF FetchTypeOK, JobType
    <3> HIDE DEF n, alive
    <3> QED BY <3>1, <3>2, <3>5, <3>7, <3>8, <3>9, PortNumbers DEF AllPorts
  <2>4. AheadInv'
    BY <2>1, <2>3 DEF AheadInv
  <2> QED BY <2>2, <2>4 DEF RotInv
<1> QED BY <1>4, <1>5

(* The other steps take no port from one job's rotation without a mark. *)
LEMMA FetchStepRot == ASSUME FetchTypeOK, RotInv, [FetchNext]_fetchVars PROVE RotInv'
<1>1. ASSUME NEW j \in Jobs, StartJob(j) PROVE RotInv'
  <2>1. /\ kind' = kind /\ dead' = dead /\ idx' = idx
        /\ left' = [left EXCEPT ![j] = Profile(j).tries]
        /\ usable' = [usable EXCEPT ![j] = {p \in AllPorts : dead[Profile(j).memory][p] = 0}]
        /\ tried' = [tried EXCEPT ![j] = {}] /\ Goes(j, "http")
    BY <1>1 DEF StartJob
  <2>2. \A k \in Jobs : Profile(k)' = Profile(k) /\ \A i : PortAt(i)' = PortAt(i)
    BY <2>1 DEF Profile, PortAt
  <2>3. /\ usable'[j] = {p \in AllPorts : dead[Profile(j).memory][p] = 0} /\ left'[j] = Profile(j).tries
        /\ \A k \in Jobs \ {j} : /\ usable'[k] = usable[k] /\ left'[k] = left[k]
                                 /\ tried'[k] = tried[k] /\ phase'[k] = phase[k]
    BY <2>1, GoesTo DEF FetchTypeOK, ProxyType, JobType, Phases
  <2>4. AliveInv'
    BY <2>1, <2>2, <2>3 DEF RotInv, AliveInv
  <2>5. ASSUME Rotates(j)', NEW i \in AllPorts PROVE i < left'[j]
    BY <2>2, <2>3, <2>5, ProfileFacts, PortNumbers DEF Rotates, AllPorts
  <2>6. AheadInv'
    BY <2>2, <2>3, <2>5 DEF RotInv, AheadInv, Rotates
  <2> QED BY <2>4, <2>6 DEF RotInv
<1>2. ASSUME NEW j \in Jobs, NEW answer \in Answers, Answer(j, answer) PROVE RotInv'
  <2>1. /\ kind' = kind /\ idx' = idx /\ UNCHANGED <<tried, left>>
        /\ phase[j] = "sent" /\ \A k \in Jobs \ {j} : phase'[k] = phase[k]
    <3>1. \E where \in {"http", "render", "ok", "failed"} : Goes(j, where)
      BY <1>2, ProfileFacts DEF Answer
    <3> QED BY <1>2, <3>1, GoesTo DEF Answer, Phases
  <2>2. \A k \in Jobs : Profile(k)' = Profile(k) /\ \A i : PortAt(i)' = PortAt(i)
    BY <2>1 DEF Profile, PortAt
  <2>3. AliveInv' /\ \A k \in Jobs : usable'[k] \subseteq usable[k]
    <3>1. CASE answer \in Profile(j).benches /\ port[j] # -1
      <4>1. /\ dead' = [dead EXCEPT ![Profile(j).memory][port[j]] = DeadTtl]
            /\ usable' = [k \in Jobs |-> IF Profile(k).memory = Profile(j).memory
                                          THEN usable[k] \ {port[j]} ELSE usable[k]]
        BY <1>2, <3>1 DEF Answer
      <4>2. ASSUME NEW k \in Jobs, NEW p \in usable'[k] PROVE dead'[Profile(k).memory][p] = dead[Profile(k).memory][p]
        BY <4>1, <4>2, ProfileFacts DEF FetchTypeOK, ProxyType
      <4> QED BY <2>2, <4>1, <4>2 DEF RotInv, AliveInv
    <3>2. CASE ~(answer \in Profile(j).benches /\ port[j] # -1)
      BY <1>2, <2>2, <3>2 DEF Answer, RotInv, AliveInv
    <3> QED BY <3>1, <3>2
  <2>4. AheadInv'
    BY <2>1, <2>2, <2>3 DEF RotInv, AheadInv, Rotates
  <2> QED BY <2>3, <2>4 DEF RotInv
<1>3. ASSUME NEW j \in Jobs, BeginRender(j) PROVE RotInv'
  <2>1. /\ kind' = kind /\ dead' = dead /\ tried' = tried /\ Goes(j, "lock")
        /\ \A k \in Jobs \ {j} : left'[k] = left[k]
    BY <1>3 DEF BeginRender, FetchTypeOK, JobType
  <2>2. \A k \in Jobs : Profile(k)' = Profile(k)
    BY <2>1 DEF Profile
  <2>3. phase'[j] = "lock" /\ \A k \in Jobs \ {j} : phase'[k] = phase[k]
    BY <2>1, GoesTo DEF Phases
  <2>4. \/ UNCHANGED <<idx, usable>>
        \/ usable' = [k \in Jobs |-> IF k = j THEN usable[k] ELSE {}]
    BY <1>3 DEF BeginRender, Disturb
  <2>5. AliveInv'
    BY <2>1, <2>2, <2>4 DEF RotInv, AliveInv
  <2>6. AheadInv'
    BY <2>1, <2>2, <2>3, <2>4 DEF RotInv, AheadInv, Rotates, PortAt
  <2> QED BY <2>5, <2>6 DEF RotInv
<1>4. CASE Unbench
  <2>1. UNCHANGED <<idx, usable, tried, left, phase, kind>>
    BY <1>4 DEF Unbench
  <2>2. \A m \in {"maps", "rotating"}, p \in AllPorts : dead[m][p] = 0 => dead'[m][p] = 0
    BY <1>4 DEF Unbench, FetchTypeOK, ProxyType
  <2>3. AliveInv'
    BY <2>1, <2>2, ProfileFacts DEF RotInv, AliveInv, Profile, FetchTypeOK, ProxyType
  <2>4. AheadInv'
    BY <2>1 DEF RotInv, AheadInv, Rotates, PortAt, Profile
  <2> QED BY <2>3, <2>4 DEF RotInv
<1>5. ASSUME UNCHANGED <<proxies, kind, left>>,
             \A j \in Jobs : phase'[j] \in {"http", "sent"} => phase[j] \in {"http", "sent"}
      PROVE  RotInv'
  BY <1>5 DEF proxies, RotInv, AliveInv, AheadInv, Rotates, PortAt, Profile
<1>6. ASSUME NEW j \in Jobs, UNCHANGED <<proxies, kind, left>>,
             \E where \in Phases \ {"http", "sent"} : Goes(j, where)
      PROVE  RotInv'
  BY <1>5, <1>6, GoesTo
<1>7. ASSUME NEW j \in Jobs, JobStep(j) PROVE RotInv'
  <2>1. CASE Spent(j)
    BY <1>6, <2>1, ProfileFacts DEF Spent, Phases
  <2>2. CASE EnterLaunch(j)
    BY <1>6, <2>2 DEF EnterLaunch, Phases
  <2>3. ASSUME NEW result \in {"no_driver", "no_chromium", "up"}, Launch(j, result) PROVE RotInv'
    <3>1. Rendered(j, FALSE) \in {"ok", "again", "failed"}
      BY RenderedTo
    <3> QED BY <1>6, <2>3, <3>1 DEF Launch, Phases
  <2>4. ASSUME NEW ok \in BOOLEAN, OpenContext(j, ok) \/ AddScript(j, ok) \/ Work(j, ok) PROVE RotInv'
    <3>1. Rendered(j, FALSE) \in {"ok", "again", "failed"}
      BY RenderedTo
    <3>2. UNCHANGED <<proxies, kind, left>>
      BY <2>4 DEF OpenContext, AddScript, Work
    <3>3. \E where \in {"script", "page", "close", "ok", "again", "failed"} : Goes(j, where)
      BY <2>4, <3>1 DEF OpenContext, AddScript, Work
    <3> QED BY <1>6, <3>2, <3>3 DEF Phases
  <2>5. ASSUME NEW raises, CloseContext(j, raises) PROVE RotInv'
    <3>1. Goes(j, Rendered(j, worked[j] /\ (raises => SwallowsClose(j)))) /\ UNCHANGED <<proxies, kind, left>>
      BY <2>5 DEF CloseContext
    <3>2. Rendered(j, worked[j] /\ (raises => SwallowsClose(j))) \in Phases \ {"http", "sent"}
      BY RenderedTo DEF Phases
    <3> QED BY <1>6, <3>1, <3>2
  <2> QED BY <1>1, <1>2, <1>3, <1>7, <2>1, <2>2, <2>3, <2>4, <2>5, SendRot DEF JobStep
<1>8. CASE Crash
  BY <1>5, <1>8 DEF Crash
<1>9. CASE UNCHANGED fetchVars
  BY <1>5, <1>9 DEF fetchVars
<1> QED BY <1>4, <1>7, <1>8, <1>9 DEF FetchNext

-----------------------------------------------------------------------------
(* Theorems *)

(* The process starts with no browser, no port benched and no job begun. *)
LEMMA FetchInitInv == FetchInit => FetchTypeOK /\ OwnInv /\ RotInv
<1> SUFFICES ASSUME FetchInit PROVE FetchTypeOK /\ OwnInv /\ RotInv
  OBVIOUS
<1> USE PortNumbers DEF FetchInit
<1>1. JobType /\ ProxyType
  BY MixAssumption DEF JobType, ProxyType, AllPorts, Phases
<1>2. PoolType
  BY DEF PoolType
<1>3. OwnInv
  BY DEF OwnInv, DriverInv, LaunchInv, ContextInv, InBrowser, Holding
<1>4. AliveInv
  BY <1>1, <1>2, ProfileFacts DEF AliveInv, FetchTypeOK
<1>5. AheadInv
  BY DEF AheadInv, Rotates
<1> QED BY <1>1, <1>2, <1>3, <1>4, <1>5 DEF FetchTypeOK, RotInv

(* The state of the process is of its shape. *)
THEOREM FetchTypeCorrect == FetchSpec => []FetchTypeOK
BY FetchInitInv, FetchStepType, PTL DEF FetchSpec

(* One browser, one driver besides those of failed launches, and no open    *)
(* context without a rendering that will close it, whatever crashes when.   *)
THEOREM ContextsAreOwned == FetchSpec => []ContextsOwned
<1>1. FetchTypeOK /\ OwnInv /\ [FetchNext]_fetchVars => OwnInv'
  BY FetchStepOwn
<1>2. FetchTypeOK /\ OwnInv => ContextsOwned
  BY DEF FetchTypeOK, PoolType, OwnInv, DriverInv, ContextInv, ContextsOwned
<1> QED BY <1>1, <1>2, FetchInitInv, FetchTypeCorrect, PTL DEF FetchSpec

(* With as many tries as ports the rotation tries every usable port,        *)
(* wherever it starts and whichever ports are benched or come back.         *)
THEOREM RotationLeavesNoneOut == FetchSpec => []RotationCovers
<1>1. FetchTypeOK /\ RotInv /\ [FetchNext]_fetchVars => RotInv'
  BY FetchStepRot
<1>2. FetchTypeOK /\ RotInv => RotationCovers
  <2> SUFFICES ASSUME FetchTypeOK, RotInv, NEW j \in Jobs, phase[j] = "http", left[j] = 0,
                      Profile(j).pick = "live", Profile(j).tries >= Ports, NEW q \in usable[j]
               PROVE  q \in tried[j]
    BY DEF RotationCovers
  <2>1. q \in AllPorts
    BY DEF FetchTypeOK, ProxyType
  <2>2. PICK i \in AllPorts : PortAt(i) = q
    BY <2>1, EveryPortAhead
  <2>3. ~(i < left[j])
    BY PortNumbers DEF AllPorts
  <2> QED BY <2>2, <2>3 DEF RotInv, AheadInv, Rotates
<1> QED BY <1>1, <1>2, FetchInitInv, FetchTypeCorrect, PTL DEF FetchSpec

=============================================================================
