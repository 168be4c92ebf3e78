----------------------------- MODULE MCScraping -----------------------------
(***************************************************************************)
(* The two layers of scraping, checked side by side on small instances:    *)
(* "fetch", two jobs that share the proxies and the browser, and "scan",   *)
(* the paging of one listing.  part is chosen once and says which runs;    *)
(* the other rests in one initial state.                                   *)
(***************************************************************************)
EXTENDS Fetching, Collectors, TLC

CONSTANTS j1, j2

VARIABLE part

(* which kinds of fetch meet *)
Mix(a, b) == j1 :> a @@ j2 :> b
Pairs ==
  {Mix("discovery", "page"), Mix("reviews", "source"), Mix("json", "card"),
   Mix("search", "direct"), Mix("session", "catalog"), Mix("enrichment", "vacancy"),
   Mix("profiles", "plain"), Mix("stub", "card")}

(* no item, a page, up to more pages than a scan reads; reviews by rating, *)
(* old ones first; feeds that overlap                                      *)
Feeds(a, b, c) == 1 :> a @@ 2 :> b @@ 3 :> c
Listings ==
  {Feeds(l, <<>>, <<>>) : l \in {<<>>, <<5>>, <<5, 4, 3>>, <<5, 4, 3, 2, 1>>, <<2, 1, 5, 4>>, <<7, 6, 5, 4, 3, 2, 1>>}}
    \cup {Feeds(<<5, 4>>, <<4, 3>>, <<>>), Feeds(<<5>>, <<>>, <<3, 2>>)}

scrapingVars == <<part, fetchVars, scanVars>>

ScrapingInit ==
  /\ part \in {"fetch", "scan"}
  /\ FetchInit /\ CollectInit
  /\ part = "fetch" => scan = "habr" /\ site = Feeds(<<5>>, <<>>, <<3, 2>>)
  /\ part = "scan" => kind = Mix("stub", "card")

ScrapingNext ==
  \/ part = "fetch" /\ FetchNext /\ UNCHANGED <<part, scanVars>>
  \/ part = "scan" /\ CollectNext /\ UNCHANGED <<part, fetchVars>>

ScrapingSpec ==
  /\ ScrapingInit /\ [][ScrapingNext]_scrapingVars
  /\ \A j \in Jobs : WF_fetchVars(part = "fetch" /\ JobStep(j))
  /\ WF_scanVars(part = "scan" /\ ScanStep)

(* Every job ends, whichever requests, renderings and launches fail, and   *)
(* none waits forever for the launch lock; every scan ends, even while     *)
(* items keep being published and withdrawn.                               *)
JobsAndScansEnd ==
  /\ \A j \in Jobs : <>(part = "fetch" => phase[j] \in {"ok", "failed"})
  /\ <>(part = "scan" => status \in {"done", "raised"})

=============================================================================
