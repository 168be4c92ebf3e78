------------------------------ MODULE Fetching ------------------------------
(***************************************************************************)
(* How one process fetches pages: every scraper first tries plain HTTP     *)
(* through the proxies of one shared round-robin list and then, most of    *)
(* them, renders the page in one shared headless browser.  Jobs of several *)
(* kinds run on one event loop; between a request and its answer, and      *)
(* between the steps of the browser, any other job may run.                *)
(*                                                                         *)
(* Shared by the jobs: the index of the proxy list, two memories of dead   *)
(* ports (one of yandex_maps and http_fetch, one of rotating_client), the  *)
(* launch lock of the browser pool, the browser.                           *)
(***************************************************************************)
EXTENDS Integers, FiniteSets, FiniteSetsExt

CONSTANTS
  Jobs, Mixes,     \* jobs, and the kinds they may be of: functions of jobs
  Ports,           \* number of proxies of the list
  DeadTtl,         \* _DEAD_TTL_S, in ticks
  Tries            \* tries of the patient kinds (20, 6, 4 and 5 in the code)

ASSUME FetchAssumption == {Ports, DeadTtl, Tries} \subseteq Nat \ {0}

VARIABLES
  idx,             \* ProxyProvider._idx, modulo Ports
  dead,            \* memory -> port -> ticks it stays benched
  kind,            \* the kind of each job
  phase,           \* where each job is
  left,            \* HTTP tries, then renderings, a job has left
  port,            \* the port a job's request goes through
  worked,          \* the rendering in progress has its result
  lock,            \* the job that holds StealthPool._lock, or "free"
  browser,         \* "none", "up" or "crashed": StealthPool._browser
  drivers,         \* playwright drivers started and not stopped
  contexts,        \* job -> browser contexts it opened that are open
  tried,           \* history: ports a job's HTTP tries went through
  usable,          \* history: ports not benched for this job since it began, if
                   \* no other job took a proxy in between
  orphans,         \* history: contexts whose opening failed half way, or whose session
                   \* lost Redis before it closed them
  misstarts        \* history: launches that failed after the driver was started

proxies == <<idx, dead, tried, usable>>
pool == <<lock, browser, drivers, contexts, worked, orphans, misstarts>>
fetchVars == <<proxies, pool, kind, phase, left, port>>

AllPorts == 0..(Ports - 1)
Free == "free"

-----------------------------------------------------------------------------
(* The kinds of fetch: how a try picks its proxy, which memory of dead ports it *)
(* uses and which answers bench a port, where an answer or the end of the tries *)
(* takes the job, how often it may render.                                      *)

Answers == {"good", "challenge", "refused", "slow", "reset", "junk"}

(* _http_get_html: 20 tries; only a refused connection benches the port; a short *)
(* body, a read timeout or a broken connection just rotate; a captcha ends it.   *)
Maps(onCaptcha, onSpent, renders) ==
  [pick |-> "live", memory |-> "maps", tries |-> Tries, benches |-> {"refused"},
   leaves |-> [good |-> "ok", challenge |-> onCaptcha], spent |-> onSpent, renders |-> renders]

(* extract: the browser is asked for whatever HTTP does not answer *)
Discovery == Maps("render", "render", 1)
(* a page of reviews: the browser is asked only on captcha *)
Reviews == Maps("render", "failed", 1)
(* an organisation's card has no browser path *)
Card == Maps("failed", "failed", 0)

(* scrape_url of an allowlisted host (httpx_ssr_fetch): anything short of a long *)
(* 200 rotates, and whatever names a connection, a reset, a tunnel or a timeout  *)
(* benches the port; then SiteEnrichAction, twice.  Another host is rendered at  *)
(* once, a page behind a login is answered with its name.                        *)
Page == [pick |-> "live", memory |-> "maps", tries |-> Tries,
         benches |-> {"refused", "slow", "reset"},
         leaves |-> [good |-> "ok"], spent |-> "render", renders |-> 2]
PlainPage == [Page EXCEPT !.tries = 0]
Stub == [PlainPage EXCEPT !.spent = "ok"]

(* RotatingHTTPClient with proxies: gateway statuses and timeouts rotate; a read *)
(* broken off is none of its infrastructure errors and ends the rotation.        *)
Rotating(onFailure, renders) ==
  [pick |-> "live", memory |-> "rotating", tries |-> IF Tries < Ports THEN Tries ELSE Ports,
   benches |-> {"refused"},
   leaves |-> [good |-> "ok", challenge |-> onFailure, reset |-> onFailure],
   spent |-> onFailure, renders |-> renders]

(* BaseSourceScraper.fetch_text renders what HTTP did not get clean, fetch_json *)
(* cannot; without MONITOR_USE_PROXY there is one direct try                     *)
Source == Rotating("render", 1)
Direct == [Source EXCEPT !.pick = "none", !.tries = 1]
Json == Rotating("failed", 0)

(* catalog_request: a fresh proxy for each try, no memory, blocks are retried;  *)
(* for fl.ru without proxies                                                    *)
Catalog == [pick |-> "next", memory |-> "maps", tries |-> Tries, benches |-> {},
            leaves |-> [good |-> "ok"], spent |-> "failed", renders |-> 0]
Profiles == [Catalog EXCEPT !.pick = "none"]

(* SearXNG rotates its own proxies: an error status, a broken connection or too *)
(* few results are retried; what is no JSON is no RuntimeError and ends it.      *)
Search == [pick |-> "none", memory |-> "maps", tries |-> Tries, benches |-> {},
           leaves |-> [good |-> "ok", junk |-> "failed"], spent |-> "failed", renders |-> 0]

(* the enrichment endpoint, hh.ru and a session only render *)
Enrichment == [pick |-> "none", memory |-> "maps", tries |-> 0, benches |-> {},
               leaves |-> [good |-> "ok"], spent |-> "render", renders |-> 1]
Vacancy == Enrichment
Session == Enrichment

Kinds == [discovery |-> Discovery, reviews |-> Reviews, card |-> Card,
          page |-> Page, plain |-> PlainPage, stub |-> Stub,
          source |-> Source, direct |-> Direct, json |-> Json,
          catalog |-> Catalog, profiles |-> Profiles, search |-> Search,
          enrichment |-> Enrichment, vacancy |-> Vacancy, session |-> Session]

ASSUME MixAssumption == Mixes \subseteq [Jobs -> DOMAIN Kinds] /\ Free \notin Jobs

Profile(j) == Kinds[kind[j]]

FetchInit ==
  /\ idx = 0 /\ dead = [m \in {"maps", "rotating"} |-> [p \in AllPorts |-> 0]]
  /\ kind \in Mixes
  /\ phase = [j \in Jobs |-> "new"] /\ left = [j \in Jobs |-> 0] /\ port = [j \in Jobs |-> -1]
  /\ worked = [j \in Jobs |-> FALSE]
  /\ lock = Free /\ browser = "none" /\ drivers = 0 /\ contexts = [j \in Jobs |-> 0]
  /\ tried = [j \in Jobs |-> {}] /\ usable = [j \in Jobs |-> AllPorts]
  /\ orphans = [j \in Jobs |-> 0] /\ misstarts = 0

Goes(j, where) == phase' = [phase EXCEPT ![j] = where]

-----------------------------------------------------------------------------
(* Proxies *)

PortAt(i) == (idx + i) % Ports

(* _httpx_proxy, _next_proxy_url: up to Ports calls of get_proxy, each of which *)
(* advances the index, until a port is not benched; a pool that is benched      *)
(* altogether gives the last one.  "next" and the browser take what comes.      *)
Skipped(memory) ==
  LET alive == {i \in AllPorts : dead[memory][PortAt(i)] = 0}
  IN IF alive = {} THEN Ports - 1 ELSE Min(alive)

Steps(j) == IF Profile(j).pick = "live" THEN Skipped(Profile(j).memory) ELSE 0

StandStill(n) == idx' = PortAt(n - 1)     \* Mutant: the index stays at the proxy given out

Advance(n) == idx' = PortAt(n)

(* taking proxies, seen by the others *)
Disturb(j) == usable' = [k \in Jobs |-> IF k = j THEN usable[k] ELSE {}]

StartJob(j) ==
  /\ phase[j] = "new"
  /\ left' = [left EXCEPT ![j] = Profile(j).tries]
  /\ Goes(j, "http")
  /\ tried' = [tried EXCEPT ![j] = {}]
  /\ usable' = [usable EXCEPT ![j] = {p \in AllPorts : dead[Profile(j).memory][p] = 0}]
  /\ UNCHANGED <<idx, dead, pool, kind, port>>

(* one try: pick a proxy and send the request *)
Send(j) ==
  /\ phase[j] = "http" /\ left[j] > 0
  /\ left' = [left EXCEPT ![j] = @ - 1]
  /\ Goes(j, "sent")
  /\ IF Profile(j).pick = "none"
       THEN UNCHANGED <<proxies, port>>
       ELSE /\ Advance(Steps(j) + 1)
            /\ port' = [port EXCEPT ![j] = PortAt(Steps(j))]
            /\ tried' = [tried EXCEPT ![j] = @ \cup {PortAt(Steps(j))}]
            /\ Disturb(j)
            /\ dead' = dead
  /\ UNCHANGED <<pool, kind>>

(* the answer of one try: it ends the tries, or the next one follows *)
Answer(j, answer) ==
  /\ phase[j] = "sent"
  /\ Goes(j, IF answer \in DOMAIN Profile(j).leaves THEN Profile(j).leaves[answer] ELSE "http")
  /\ IF answer \in Profile(j).benches /\ port[j] # -1
       THEN /\ dead' = [dead EXCEPT ![Profile(j).memory][port[j]] = DeadTtl]
            /\ usable' = [k \in Jobs |-> IF Profile(k).memory = Profile(j).memory
                                          THEN usable[k] \ {port[j]} ELSE usable[k]]
       ELSE UNCHANGED <<dead, usable>>
  /\ port' = [port EXCEPT ![j] = -1]
  /\ UNCHANGED <<idx, tried, left, pool, kind>>

(* all tries used up *)
Spent(j) ==
  /\ phase[j] = "http" /\ left[j] = 0
  /\ Goes(j, Profile(j).spent)
  /\ UNCHANGED <<proxies, left, port, pool, kind>>

(* a benched port is given another chance after its TTL *)
Unbench ==
  /\ \E m \in DOMAIN dead, p \in AllPorts : dead[m][p] > 0
  /\ dead' = [m \in DOMAIN dead |-> [p \in AllPorts |-> IF dead[m][p] > 0 THEN dead[m][p] - 1 ELSE 0]]
  /\ UNCHANGED <<idx, tried, usable, pool, kind, phase, left, port>>

-----------------------------------------------------------------------------
(* The browser *)

(* a rendering failed: scrape_url tries once more, the others give up *)
Rendered(j, ok) ==
  IF ok THEN "ok" ELSE IF left[j] > 0 THEN "again" ELSE "failed"

(* A rendering begins by taking a proxy for its context.  "left" counts on with *)
(* the renderings.                                                              *)
BeginRender(j) ==
  /\ phase[j] \in {"render", "again"}
  /\ left' = [left EXCEPT ![j] = (IF phase[j] = "render" THEN Profile(j).renders ELSE @) - 1]
  /\ IF kind[j] \in {"direct", "session"} THEN UNCHANGED <<idx, usable>>
     ELSE Advance(1) /\ Disturb(j)
  /\ Goes(j, "lock")
  /\ UNCHANGED <<dead, tried, pool, kind, port>>

(* StealthPool.launch: under the lock, unless there is a browser already *)
NeedsLaunch == browser = "none"
EnterLaunch(j) ==
  /\ phase[j] = "lock" /\ lock = Free
  /\ IF NeedsLaunch THEN lock' = j /\ Goes(j, "launch")
                    ELSE lock' = lock /\ Goes(j, "open")
  /\ UNCHANGED <<proxies, browser, drivers, contexts, worked, orphans, misstarts, kind, left, port>>

(* A launch that fails leaves the lock, and the driver it started *)
UnlockWhenUp(result) ==     \* Mutant: no finally around the launch
  lock' = IF result = "up" THEN Free ELSE lock

Unlock(result) == lock' = Free
Launch(j, result) ==
  /\ phase[j] = "launch"
  /\ Unlock(result)
  /\ drivers' = IF result = "no_driver" THEN drivers ELSE drivers + 1
  /\ IF result = "up" THEN browser' = "up" /\ Goes(j, "open") /\ misstarts' = misstarts
     ELSE /\ Goes(j, Rendered(j, FALSE)) /\ browser' = browser
          /\ misstarts' = IF result = "no_chromium" THEN misstarts + 1 ELSE misstarts
  /\ UNCHANGED <<proxies, contexts, worked, orphans, kind, left, port>>

Opens(j, n) == contexts' = [contexts EXCEPT ![j] = @ + n]

(* browser.new_context *)
OpenContext(j, ok) ==
  /\ phase[j] = "open" /\ (ok => browser = "up")
  /\ IF ok THEN Opens(j, 1) /\ Goes(j, "script")
           ELSE contexts' = contexts /\ Goes(j, Rendered(j, FALSE))
  /\ UNCHANGED <<proxies, lock, browser, drivers, worked, orphans, misstarts, kind, left, port>>

(* add_init_script, and for a session its first page and its subscription: not  *)
(* yet inside the try that closes the context, so a failure leaves it open       *)
AddScript(j, ok) ==
  /\ phase[j] = "script" /\ (ok => browser = "up")
  /\ Goes(j, IF ok THEN "page" ELSE Rendered(j, FALSE))
  /\ orphans' = [orphans EXCEPT ![j] = IF ok \/ browser # "up" THEN @ ELSE @ + 1]
  /\ UNCHANGED <<proxies, lock, browser, drivers, contexts, worked, misstarts, kind, left, port>>

(* the page is loaded and read, or not *)
Work(j, ok) ==
  /\ phase[j] = "page" /\ (ok => browser = "up")
  /\ worked' = [worked EXCEPT ![j] = ok]
  /\ Goes(j, "close")
  /\ UNCHANGED <<proxies, lock, browser, drivers, contexts, orphans, misstarts, kind, left, port>>

(* The finally clause.  Closing may raise once the browser is gone: the maps     *)
(* actions swallow that, for the others it replaces the result.  A session       *)
(* unsubscribes first: if that raises, it does not close its context at all.     *)
SwallowsClose(j) == kind[j] \in {"discovery", "reviews"}
ClosesIfRead(j) ==     \* Mutant: no finally around the page
  Opens(j, IF browser = "up" /\ worked[j] THEN -1 ELSE 0)

Closes(j) == Opens(j, IF browser = "up" THEN -1 ELSE 0)
CloseContext(j, raises) ==
  /\ phase[j] = "close" /\ (raises => browser = "crashed" \/ kind[j] = "session")
  /\ IF raises /\ browser = "up"
       THEN contexts' = contexts /\ orphans' = [orphans EXCEPT ![j] = @ + 1]
       ELSE Closes(j) /\ orphans' = orphans
  /\ Goes(j, Rendered(j, worked[j] /\ (raises => SwallowsClose(j))))
  /\ UNCHANGED <<proxies, lock, browser, drivers, worked, misstarts, kind, left, port>>

(* Chromium dies with its contexts.  Nothing notices: _browser stays set, and   *)
(* every later context fails to open.                                            *)
Crash ==
  /\ browser = "up" /\ browser' = "crashed"
  /\ contexts' = [j \in Jobs |-> 0] /\ orphans' = [j \in Jobs |-> 0]
  /\ UNCHANGED <<proxies, lock, drivers, worked, misstarts, kind, phase, left, port>>

-----------------------------------------------------------------------------
JobStep(j) ==
  \/ StartJob(j) \/ Send(j) \/ Spent(j)
  \/ \E answer \in Answers : Answer(j, answer)
  \/ BeginRender(j) \/ EnterLaunch(j)
  \/ \E result \in {"no_driver", "no_chromium", "up"} : Launch(j, result)
  \/ \E ok \in BOOLEAN : OpenContext(j, ok) \/ AddScript(j, ok) \/ Work(j, ok) \/ CloseContext(j, ~ok)

FetchNext == (\E j \in Jobs : JobStep(j)) \/ Unbench \/ Crash

FetchSpec == FetchInit /\ [][FetchNext]_fetchVars

(* every request, navigation and launch has a timeout, asyncio.Lock is fair *)
FetchFairSpec == FetchSpec /\ \A j \in Jobs : WF_fetchVars(JobStep(j))

-----------------------------------------------------------------------------
(* What fetching must keep *)

(* A job that gives up on HTTP with as many tries as there are ports has tried  *)
(* every port that stayed usable: rotation leaves none out, whichever ports are *)
(* benched or come back meanwhile, unless another job took proxies in between.  *)
RotationCovers ==
  \A j \in Jobs :
    phase[j] = "http" /\ left[j] = 0 /\ Profile(j).pick = "live" /\ Profile(j).tries >= Ports =>
      usable[j] \subseteq tried[j]

(* Whatever fails or crashes in whatever order, the process has one browser and *)
(* one driver besides those of failed launches, and every open context belongs  *)
(* to a rendering that will close it, or is one of the two kinds of orphan: its *)
(* opening failed before the try block that closes it, or it is a session's     *)
(* whose unsubscription raised (orphans counts these, once each).               *)
Holding(j) == IF phase[j] \in {"script", "page", "close"} THEN 1 ELSE 0
ContextsOwned ==
  /\ drivers <= misstarts + 1
  /\ browser = "up" => \A j \in Jobs : contexts[j] <= Holding(j) + orphans[j]

(* Every job ends, and none waits forever for the launch lock. *)
JobsEnd == \A j \in Jobs : <>(phase[j] \in {"ok", "failed"})

=============================================================================
