----------------------------- MODULE Collectors -----------------------------
(***************************************************************************)
(* How the scrapers page through a listing that changes under them: the    *)
(* catalog actions (kwork services, fl.ru freelancers, a seller's gigs),   *)
(* the reviews of an organisation, the scrolled search of Yandex Maps, and *)
(* the monitoring sources, which read one page, several feeds, or (avito)  *)
(* two pages and then a paged fallback.                                    *)
(*                                                                         *)
(* One scan runs; between two of its requests items are published at the   *)
(* head of a listing and withdrawn, which shifts every later page.  A      *)
(* request that fails has used up the retries of Fetching.  Parsing is     *)
(* abstracted: a page is the items the site lists on it.                   *)
(***************************************************************************)
EXTENDS Integers, Sequences, SequencesExt, Functions

CONSTANTS
  Items,           \* everything the site ever lists
  Sites,           \* listings a scan may begin with: functions of feeds
  Scans,           \* the kinds of scan to check
  Per,             \* items of a page
  MaxPages,        \* max_pages of the catalogs, 12 for reviews, 5 for avito
  ShownPages,      \* page numbers the pagination block of fl.ru links to
  Limit,           \* limit of a source, max_count of reviews, target_count of a search
  ScrollLimit,     \* scroll_limit
  Old, Undated,    \* reviews before the cutoff, and without a readable date
  Relevant,        \* avito items that pass the IT filter
  Cards,           \* cards (kwork) or profiles (fl.ru) asked for after the listing
  MaxChanges       \* bound: publications and withdrawals during a scan

ASSUME CollectAssumption ==
  /\ {Per, MaxPages, ShownPages, Limit, ScrollLimit} \subseteq Nat \ {0}
  /\ {Cards, MaxChanges} \subseteq Nat

(* three feeds, none of which lists an item twice *)
ASSUME SitesAssumption ==
  \A l \in Sites : 1..3 \subseteq DOMAIN l
                 /\ \A f \in DOMAIN l : l[f] \in Seq(Items) /\ IsInjective(l[f])

VARIABLES
  scan,            \* what is scanned
  site,            \* feed -> its items, newest first
  pos,             \* the page, feed, scroll or card the next request is for; gigs: the offset
  last,            \* pages to get, known after the first one; scrolls so far
  streak,          \* pages or scrolls in a row that brought nothing new
  got,             \* what has been collected, in order
  entries,         \* entries of the scrolled list, read or not
  cards,           \* the items whose card was fetched, in order
  status,          \* "scanning", "cards", "done", "raised"
  via,             \* "http", or "browser" after a captcha
  site0, lost,     \* history: the site at the start, requests that failed
  added, gone      \* history: items published and withdrawn since the start

progress == <<pos, last, streak, got, entries, cards, status, via>>
scanVars == <<scan, site, progress, site0, lost, added, gone>>

Catalogs == {"services", "freelancers"}
Least(a, b) == IF a < b THEN a ELSE b
FullPages(n) == n \div Per     \* Mutant: the last, shorter page is not counted

Pages(n) == (n + Per - 1) \div Per

CollectInit ==
  /\ scan \in Scans /\ site \in Sites
  /\ pos = (IF scan = "gigs" THEN 0 ELSE 1) /\ last = 1 /\ streak = 0
  /\ got = <<>> /\ entries = 0 /\ cards = <<>> /\ status = "scanning" /\ via = "http"
  /\ site0 = site /\ lost = 0 /\ added = 0 /\ gone = 0

-----------------------------------------------------------------------------
(* The site *)

SitePage(p) == SubSeq(site[1], (p - 1) * Per + 1, Least(p * Per, Len(site[1])))

Listed == UNION {Range(site[f]) \cup Range(site0[f]) : f \in DOMAIN site}

Change(f, list) ==
  /\ status = "scanning" /\ added + gone < MaxChanges
  /\ site' = [site EXCEPT ![f] = list]
  /\ UNCHANGED <<scan, progress, site0, lost>>

Publish ==
  /\ \E f \in DOMAIN site, x \in (Items \ Old) \ Listed : Change(f, <<x>> \o site[f])
  /\ added' = added + 1 /\ gone' = gone
Withdraw ==
  /\ \E f \in DOMAIN site : \E i \in DOMAIN site[f] : Change(f, RemoveAt(site[f], i))
  /\ gone' = gone + 1 /\ added' = added

-----------------------------------------------------------------------------
(* Steps of a scan *)

(* what the loop over a page takes: the items it does not pass over, in order *)
Without(page, passed) ==
  LET taken[i \in 0..Len(page)] ==
        IF i = 0 THEN <<>>
        ELSE IF page[i] \in passed THEN taken[i - 1] ELSE Append(taken[i - 1], page[i])
  IN taken[Len(page)]

Everything(page) == page     \* Mutant: no memory of what was collected

New(page) == Without(page, Range(got))

Stop(how) == status' = how /\ UNCHANGED <<pos, last, streak>>

(* a request that fails: what it means to the scan is the caller's business *)
Lose == lost' = lost + 1 /\ UNCHANGED <<scan, site, entries, cards, via, site0, added, gone>>
Keep == UNCHANGED <<scan, site, entries, cards, via, site0, lost, added, gone>>

(* scrape_category, scrape_profession: the first page says how many there are, a *)
(* page that fails ends the scan with what there is, and so do pages without     *)
(* anything new: two in a row for kwork, one for fl.ru.  The ids kwork is sent   *)
(* with each page (excludeIds) leave out repeats, as the scan itself does.       *)
Announced ==
  LET pages == Pages(Len(site[1])) IN
  IF scan = "services" THEN IF pages = 0 THEN 1 ELSE pages
  ELSE Least(pages, ShownPages) + (IF pages > ShownPages THEN 1 ELSE 0)
PagesToGet == IF pos = 1 THEN Least(MaxPages, Announced) ELSE last
Patience == IF scan = "services" THEN 2 ELSE 1

CatalogPage ==
  /\ scan \in Catalogs /\ status = "scanning"
  /\ LET new == New(SitePage(pos))
         empty == IF pos > 1 /\ new = <<>> THEN streak + 1 ELSE 0
     IN /\ got' = got \o new
        /\ last' = PagesToGet /\ streak' = empty
        /\ IF empty >= Patience \/ pos >= PagesToGet THEN status' = "cards" /\ pos' = 1
                                                     ELSE status' = status /\ pos' = pos + 1
  /\ Keep

CatalogPageFails ==
  /\ scan \in Catalogs /\ status = "scanning"
  /\ status' = "cards" /\ pos' = 1 /\ UNCHANGED <<last, streak, got>> /\ Lose

(* fetch_card, fetch_profile_rate for the first of what was found, ranked; pos   *)
(* counts them.  A card that cannot be had is passed over.                       *)
Ranked == SubSeq(got, 1, Least(Cards, Len(got)))
CardFetched(ok) ==
  /\ status = "cards" /\ pos <= Len(Ranked)
  /\ pos' = pos + 1
  /\ cards' = IF ok THEN Append(cards, Ranked[pos]) ELSE cards
  /\ lost' = IF ok THEN lost ELSE lost + 1
  /\ UNCHANGED <<scan, site, last, streak, got, entries, status, via, site0, added, gone>>
CardsDone ==
  /\ status = "cards" /\ pos > Len(Ranked)
  /\ Stop("done") /\ got' = got /\ Keep

(* fetch_user_gigs: the offset counts what was received, the total is read anew *)
(* with each batch, nothing is deduplicated                                     *)
GigBatch ==
  /\ scan = "gigs" /\ status = "scanning"
  /\ LET batch == SubSeq(site[1], pos + 1, Least(pos + Per, Len(site[1]))) IN
       /\ got' = got \o batch /\ pos' = pos + Len(batch)
       /\ status' = IF batch = <<>> \/ pos + Len(batch) >= Len(site[1]) THEN "done" ELSE "scanning"
  /\ UNCHANGED <<last, streak>> /\ Keep

GigBatchFails ==
  /\ scan = "gigs" /\ status = "scanning"
  /\ Stop("done") /\ got' = got /\ Lose

(* Reviews, since some date ("recent") or not: what is older than the cutoff is  *)
(* passed over; the scan ends at max_count, on an empty page, with a cutoff on a *)
(* page without a new dated review in the window, or at the depth limit.         *)
InWindow(page) == Without(New(page), IF scan = "recent" THEN Old ELSE {})
ReviewPage ==
  /\ scan \in {"reviews", "recent"} /\ status = "scanning"
  /\ LET fit == InWindow(SitePage(pos))
         taken == SubSeq(fit, 1, Least(Len(fit), Limit - Len(got)))
         dated == {x \in Range(fit) : x \notin Undated}
     IN /\ got' = got \o taken /\ pos' = pos + 1
        /\ status' = IF \/ SitePage(pos) = <<>> \/ Len(got) + Len(taken) >= Limit
                        \/ scan = "recent" /\ dated = {}
                        \/ pos >= MaxPages
                       THEN "done" ELSE "scanning"
  /\ UNCHANGED <<last, streak>> /\ Keep

(* any failure but a captcha raises, and what was collected is lost *)
ReviewPageFails ==
  /\ scan \in {"reviews", "recent"} /\ status = "scanning"
  /\ Stop("raised") /\ got' = <<>> /\ Lose

(* A captcha starts over in the browser: of the review requests the page makes    *)
(* while it is scrolled, up to the pages max_count stands for are replayed, each    *)
(* with or without success, and all they hold is returned; or this fails as well.   *)
Replayed(pages) == FlattenSeq([p \in 1..Pages(Limit) |-> IF p \in pages THEN SitePage(p) ELSE <<>>])
ReviewCaptcha ==
  /\ scan \in {"reviews", "recent"} /\ status = "scanning"
  /\ via' = "browser"
  /\ \/ \E pages \in SUBSET (1..Pages(Limit)) : got' = Replayed(pages) /\ Stop("done")
     \/ got' = <<>> /\ Stop("raised")
  /\ UNCHANGED <<scan, site, entries, cards, site0, lost, added, gone>>

(* The search in the browser: the entries the page comes with are read from its    *)
(* script, those each scroll adds from the captured responses, deduplicated; either *)
(* may fail without a word.  _scroll_until ends when the list has the target's      *)
(* length, the third time in a row it has not grown, or after scroll_limit.         *)
SsrItems(read) == IF read THEN SitePage(pos) ELSE <<>>
Captured(read) == IF read THEN New(SitePage(pos)) ELSE <<>>
Scroll(grows, read) ==
  LET more == IF grows THEN Len(SitePage(pos)) ELSE 0
      stale == IF more = 0 THEN streak + 1 ELSE 0
  IN
  /\ scan = "scroll" /\ status = "scanning" /\ (read => grows)
  /\ got' = got \o IF last = 1 THEN SsrItems(read) ELSE Captured(read)
  /\ entries' = entries + more /\ streak' = stale
  /\ pos' = IF more = 0 THEN pos ELSE pos + 1
  /\ last' = last + 1
  /\ lost' = IF read THEN lost ELSE lost + 1
  /\ status' = IF entries + more >= Limit \/ stale >= 3 \/ last > ScrollLimit
                 THEN "done" ELSE "scanning"
  /\ UNCHANGED <<scan, site, cards, via, site0, added, gone>>

(* the end of a source's collect: an empty result raises, a longer one is cut *)
Finish(items) ==
  IF items = <<>> THEN status' = "raised" /\ got' = <<>>
  ELSE status' = "done" /\ got' = SubSeq(items, 1, Least(Len(items), Limit))

(* The sources: how many feeds or pages a source reads, whether it passes over    *)
(* one that fails, and whether it leaves out what it has already taken (kwork      *)
(* replaces it in place).  habr, superjob and youdo take their page as it is.      *)
Fl == [reads |-> 3, tolerant |-> TRUE, distinct |-> TRUE]
Kwork == [reads |-> 2, tolerant |-> TRUE, distinct |-> TRUE]
Habr == [reads |-> 1, tolerant |-> FALSE, distinct |-> FALSE]
Youdo == [reads |-> 1, tolerant |-> FALSE, distinct |-> FALSE]
Hh == [reads |-> 1, tolerant |-> FALSE, distinct |-> TRUE]
Superjob == [reads |-> 1, tolerant |-> FALSE, distinct |-> FALSE]
Zarplata == [reads |-> 1, tolerant |-> FALSE, distinct |-> TRUE]
Sources == [fl |-> Fl, kwork |-> Kwork, habr |-> Habr, hh |-> Hh,
            superjob |-> Superjob, youdo |-> Youdo, zarplata |-> Zarplata]

NextFeed(items) ==
  IF pos < Sources[scan].reads THEN pos' = pos + 1 /\ got' = items /\ status' = status
                               ELSE pos' = pos /\ Finish(items)

Feed ==
  /\ scan \in DOMAIN Sources /\ status = "scanning"
  /\ NextFeed(got \o IF Sources[scan].distinct THEN New(site[pos]) ELSE site[pos])
  /\ UNCHANGED <<last, streak>> /\ Keep

(* to a source that is not tolerant the failure is its own *)
FeedFails ==
  /\ scan \in DOMAIN Sources /\ status = "scanning"
  /\ IF Sources[scan].tolerant THEN NextFeed(got)
     ELSE pos' = pos /\ status' = "raised" /\ got' = <<>>
  /\ UNCHANGED <<last, streak>> /\ Lose

(* avito: the two filtered pages (feeds 2 and 3), of which the first that lists    *)
(* anything is the answer, then the pages of the whole listing, filtered here      *)
Filtered(p) == Without(New(SitePage(p)), Items \ Relevant)
AvitoPage ==
  /\ scan = "avito" /\ status = "scanning"
  /\ IF pos <= 2
       THEN IF site[pos + 1] # <<>> THEN pos' = pos /\ Finish(site[pos + 1])
                                     ELSE pos' = pos + 1 /\ UNCHANGED <<got, status>>
       ELSE LET all == got \o Filtered(pos - 2) IN
            IF SitePage(pos - 2) = <<>> \/ Len(all) >= Limit \/ pos - 2 >= MaxPages
              THEN pos' = pos /\ Finish(all)
              ELSE pos' = pos + 1 /\ got' = all /\ status' = status
  /\ UNCHANGED <<last, streak>> /\ Keep

AvitoPageFails ==
  /\ scan = "avito" /\ status = "scanning"
  /\ Stop("raised") /\ got' = <<>> /\ Lose

ScanStep ==
  \/ CatalogPage \/ CatalogPageFails \/ (\E ok \in BOOLEAN : CardFetched(ok)) \/ CardsDone
  \/ GigBatch \/ GigBatchFails
  \/ ReviewPage \/ ReviewPageFails \/ ReviewCaptcha
  \/ \E grows, read \in BOOLEAN : Scroll(grows, read)
  \/ Feed \/ FeedFails \/ AvitoPage \/ AvitoPageFails

CollectNext == ScanStep \/ Publish \/ Withdraw

CollectSpec == CollectInit /\ [][CollectNext]_scanVars

CollectFairSpec == CollectSpec /\ WF_scanVars(ScanStep)

-----------------------------------------------------------------------------
(* What a scan must keep *)

(* No item is returned twice, however items published meanwhile shift the pages; *)
(* only a seller's gigs, which are not deduplicated, may repeat then.  Reviews    *)
(* keep to the date window and max_count as well, but for the captcha fallback,  *)
(* which applies neither.                                                        *)
ResultIsClean ==
  /\ status = "done" /\ (scan = "gigs" => added + gone = 0) => IsInjective(got)
  /\ scan = "recent" /\ via = "http" => Len(got) <= Limit /\ Range(got) \cap Old = {}

(* What a scan is to return of a listing that holds still *)
FirstOf(n, items) == SubSeq(items, 1, Least(n, Len(items)))
Reach == FirstOf(MaxPages * Per, site0[1])
AllOnce(feeds, n) ==
  LET all[f \in 0..n] ==
        IF f = 0 THEN <<>> ELSE all[f - 1] \o Without(feeds[f], Range(all[f - 1]))
  IN all[n]
Wanted ==
  CASE scan \in Catalogs -> Reach
    [] scan = "gigs" -> site0[1]
    [] scan = "reviews" -> FirstOf(Limit, Reach)
    [] scan = "recent" -> FirstOf(Limit, Without(Reach, Old))
    [] scan = "scroll" -> FirstOf(Least(Pages(Limit), ScrollLimit + 1) * Per, site0[1])
    [] scan \in DOMAIN Sources -> FirstOf(Limit, AllOnce(site0, Sources[scan].reads))
    [] scan = "avito" -> FirstOf(Limit, IF site0[2] # <<>> THEN site0[2]
                                     ELSE IF site0[3] # <<>> THEN site0[3]
                                     ELSE Without(Reach, Items \ Relevant))

(* Two scans end early by a sign that not every listing gives.  With a cutoff a  *)
(* page without a dated review in the window ends the scan: right for reviews    *)
(* listed newest first without a page of undated ones in a row, which is what    *)
(* ranking = "by_time" asks for, but wrong for "by_rating", which the endpoint   *)
(* accepts together with since_months.  And of fl.ru no more pages are read than *)
(* the first one links to and one behind the dots, whatever max_pages says.      *)
ByTime(reviews) ==
  /\ \A i, j \in DOMAIN reviews : i < j /\ reviews[i] \in Old => reviews[j] \in Old
  /\ \A i \in DOMAIN reviews : \E k \in i..(i + Per - 1) :
       k \notin DOMAIN reviews \/ reviews[k] \notin Undated
LinksSuffice(n) == Least(MaxPages, Pages(n)) <= ShownPages + 1
Legible ==
  /\ scan = "recent" => ByTime(site0[1])
  /\ scan = "freelancers" => LinksSuffice(Len(site0[1]))

(* A scan of a listing that holds still returns what it stands for, in order: no *)
(* item falls between two pages, and no rule for ending early ends it too early, *)
(* but for the two where the listing does not give the sign.  A seller's gigs    *)
(* are complete even when others are published meanwhile.                        *)
NothingMissed ==
  status = "done" /\ lost = 0 /\ via = "http" =>
    /\ added + gone = 0 /\ Legible => got = Wanted
    /\ scan \in Catalogs => cards = Ranked
    /\ scan = "gigs" /\ gone = 0 => Range(site0[1]) \subseteq Range(got)

(* Every scan ends, even while items keep being published. *)
ScanEnds == <>(status \in {"done", "raised"})

=============================================================================
