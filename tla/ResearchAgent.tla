--------------------------- MODULE ResearchAgent ---------------------------
(***************************************************************************)
(* One call of run_research (src/src/actions/research/agent.py): the flat  *)
(* loop of model turns, each of which may search, scrape and submit, with  *)
(* a critic over the submissions, compaction of the dialog, a cost wall,   *)
(* and a salvage call when the loop ends with nothing to report.           *)
(*                                                                         *)
(* The loop is sequential; what makes it hard is that every step of it is  *)
(* an answer of something outside: the model may call any tools in any     *)
(* order with any arguments, and the model, the critic, the compactor, the *)
(* search engine and the scraper may each fail at any time.  Texts are     *)
(* abstracted: a submission is its number and whether it says anything,    *)
(* the dialog is how many tool calls in it still lack a result, a prompt   *)
(* is its size relative to the compaction trigger.                         *)
(***************************************************************************)
EXTENDS Integers, Sequences, FiniteSets

CONSTANTS
  Turns,           \* turns_cap of the mode, or the caller's max_iters
  TokenCap,        \* token_cap, in units of one main call
  MaxCalls,        \* bound: the tool calls of one model answer
  MaxRejects,      \* RESEARCH_MAX_SUBMIT_REJECTS
  MaxCompactions,  \* RESEARCH_MAX_COMPACTIONS
  Queries, NormOf, \* search strings, and their normal form ("" for no word at all)
  Urls, DomainOf,  \* pages and the netloc of each ("" for none)
  VisitCap         \* RESEARCH_SCRAPE_DOMAIN_VISIT_CAP

ASSUME AgentAssumption ==
  /\ {Turns, MaxCalls, MaxRejects, MaxCompactions, VisitCap} \subseteq Nat
  /\ TokenCap \in Nat \ {0}
  /\ DOMAIN NormOf = Queries /\ DOMAIN DomainOf = Urls
  /\ {NormOf[q] : q \in Queries} \cap Urls = {}    \* requests counts them apart

VARIABLES
  pc,              \* where run_research stands
  turn,            \* turns begun
  open,            \* tool calls of the dialog without a result message
  left,            \* calls of this turn still to execute
  prompt,          \* last_prompt: "small", "near" (85% of the trigger) or "over" it
  spent,           \* main_usage, one unit per answered main call
  compactions,     \* state.compaction_count
  searched,        \* state.serp_seen
  visited,         \* state.visited_urls
  failed,          \* pages whose scrape failed: domain_fail_count counts them by domain
  attempts,        \* state.submit_attempts
  accepted,        \* a submission was accepted
  last, lastCritic,    \* the last proposal; the submission the last critique is of
  final, finalCritic,  \* what the report carries
  salvage,         \* "no", or what the forced submission gave: "nothing" or "answer"
  verdicts,        \* history: what became of each submission of the loop
  requests,        \* history: network calls made for each search and page
  hard             \* history: the last turn ended in a hard compaction

dialog == <<open, left, prompt, spent, compactions, hard>>
tools == <<searched, visited, failed, requests>>
proposals == <<attempts, accepted, last, lastCritic, verdicts>>
report == <<final, finalCritic, salvage>>
vars == <<pc, turn, dialog, tools, proposals, report>>

Nothing == [id |-> 0, full |-> FALSE]
Submission == [id : Nat, full : BOOLEAN]
Norms == {NormOf[q] : q \in Queries}
Blank == ""                               \* no word, no netloc
Words == Norms \ {Blank}
Twice(n) == IF n < 2 THEN n + 1 ELSE 2    \* bound: counts stop at two

Init ==
  /\ pc = "turn" /\ turn = 0
  /\ open = 0 /\ left = 0 /\ prompt = "small" /\ spent = 0 /\ compactions = 0 /\ hard = FALSE
  /\ searched = {} /\ visited = {} /\ failed = {}
  /\ requests = [x \in Norms \cup Urls |-> 0]
  /\ attempts = 0 /\ accepted = FALSE /\ last = Nothing /\ lastCritic = 0 /\ verdicts = <<>>
  /\ final = Nothing /\ finalCritic = 0 /\ salvage = "no"

-----------------------------------------------------------------------------
(* Turns *)

(* The head of the loop: the turns run out, the deadline has passed, or a turn *)
(* begins.  This is the only place the clock is looked at.                     *)
BeginTurn ==
  /\ pc = "turn"
  /\ \/ turn = Turns /\ pc' = "exit" /\ turn' = turn
     \/ turn < Turns /\ pc' \in {"llm", "exit"} /\ turn' = turn + 1
  /\ UNCHANGED <<dialog, tools, proposals, report>>

(* client.chat raises: the loop ends *)
ModelFails ==
  /\ pc = "llm" /\ pc' = "exit"
  /\ UNCHANGED <<turn, dialog, tools, proposals, report>>

(* The answer fills the prompt past the trigger: its tool calls are dropped *)
(* from the dialog unexecuted, and the dialog is compacted.                 *)
KeepAnswer(n) == open' = n /\ left' = 0     \* Mutant: the answer stays in the dialog

DropAnswer(n) == open' = 0 /\ left' = 0

MustCompact(size) == size = "over" /\ compactions < MaxCompactions

(* The model answers with n tool calls.  An answer without any ends the loop, *)
(* whatever it says.                                                          *)
ModelAnswers(n, size) ==
  /\ pc = "llm"
  /\ spent' = spent + 1 /\ prompt' = size /\ hard' = MustCompact(size)
  /\ IF MustCompact(size)
       THEN pc' = "hard" /\ DropAnswer(n)
       ELSE /\ pc' = IF n = 0 THEN "exit" ELSE "tools"
            /\ open' = n /\ left' = n
  /\ UNCHANGED <<turn, compactions, tools, proposals, report>>

(* compact_context: a digest replaces all but the first two messages; when the *)
(* summarising call fails the messages stay as they are and nothing is counted.*)
(* After a hard compaction the loop goes on with the next turn at once.        *)
Compact(ok) ==
  /\ pc \in {"hard", "post"}
  /\ IF ok THEN open' = 0 /\ compactions' = compactions + 1
           ELSE UNCHANGED <<open, compactions>>
  /\ pc' = IF pc = "hard" THEN "turn" ELSE "cap"
  /\ UNCHANGED <<turn, left, prompt, spent, hard, tools, proposals, report>>

(* the end of a turn whose calls are all executed *)
AfterTools ==
  /\ pc = "tools" /\ left = 0
  /\ pc' = IF accepted THEN "exit"
           ELSE IF prompt \in {"near", "over"} /\ compactions < MaxCompactions THEN "post"
           ELSE "cap"
  /\ UNCHANGED <<turn, dialog, tools, proposals, report>>

(* Mutant: the budget may be overrun by one turn *)
CheckCostLate ==
  /\ pc = "cap" /\ pc' = IF spent > TokenCap THEN "exit" ELSE "turn"
  /\ UNCHANGED <<turn, dialog, tools, proposals, report>>

(* the cost wall *)
CheckCost ==
  /\ pc = "cap" /\ pc' = IF spent >= TokenCap THEN "exit" ELSE "turn"
  /\ UNCHANGED <<turn, dialog, tools, proposals, report>>

-----------------------------------------------------------------------------
(* Tools: each executes one call and appends its result to the dialog. *)

Result ==
  /\ pc = "tools" /\ left > 0
  /\ left' = left - 1 /\ open' = open - 1
  /\ UNCHANGED <<pc, turn, prompt, spent, compactions, hard>>

Request(x) == requests' = [requests EXCEPT ![x] = Twice(@)]

Repeated(q) == NormOf[q] \in searched

(* web_serp: a search whose normal form was seen is answered without searching; *)
(* a failed one is remembered like any other, one without a word is not.        *)
Search(q) ==
  /\ Result
  /\ IF Repeated(q)
       THEN UNCHANGED <<searched, requests>>
       ELSE searched' = (searched \cup {NormOf[q]}) \ {Blank} /\ Request(NormOf[q])
  /\ UNCHANGED <<visited, failed, proposals, report>>

VisitsOf(d) == Cardinality({u \in visited : DomainOf[u] = d})

(* a page without a netloc belongs to no domain *)
DomainFull(d) == d # Blank /\ VisitsOf(d) >= VisitCap

(* Mutant: a page that could not be fetched may be tried again *)
ExhaustedIfRead(u) == u \in visited \ failed \/ DomainFull(DomainOf[u])

Exhausted(u) == u \in visited \/ DomainFull(DomainOf[u])

(* web_scrape: a page already fetched, or of an exhausted domain, is not fetched *)
Scrape(u, ok) ==
  /\ Result
  /\ IF Exhausted(u)
       THEN UNCHANGED <<visited, failed, requests>>
       ELSE /\ visited' = visited \cup {u} /\ Request(u)
            /\ failed' = IF ok THEN failed ELSE failed \cup {u}
  /\ UNCHANGED <<searched, proposals, report>>

(* a tool the model made up *)
UnknownTool == Result /\ UNCHANGED <<tools, proposals, report>>

(* Arguments the code trips over (a k that is no number, a URL urlparse refuses, *)
(* sources that are no list): the exception leaves run_research.                 *)
Malformed ==
  /\ pc = "tools" /\ left > 0 /\ pc' = "raised"
  /\ UNCHANGED <<turn, dialog, tools, proposals, report>>

(* critic_call: it fails open, so only a critique that could be read fails *)
CriticAnswers == {"good", "poor", "unreachable", "unreadable"}
Passes(critique) == critique # "poor"
Forced(attempt) == attempt >= MaxRejects + 1

AcceptLate(proposal) ==     \* Mutant: reported with the critique before its own
  final' = proposal /\ finalCritic' = lastCritic

Accept(proposal) == final' = proposal /\ finalCritic' = proposal.id

(* The submit tool.  The proposal and the critique are remembered in any case; *)
(* acceptance sets what is reported and leaves the rest of the turn's calls to *)
(* be executed.  A result that is no object (or an empty answer) is graded as  *)
(* well, and forgets the proposal before it.                                   *)
Submit(full, critique) ==
  LET n == attempts + 1
      proposal == [id |-> n, full |-> full]
      accept == Passes(critique) \/ Forced(n)
  IN
  /\ Result
  /\ attempts' = n /\ last' = proposal /\ lastCritic' = n
  /\ verdicts' = Append(verdicts, IF Passes(critique) THEN "passed"
                                  ELSE IF accept THEN "forced" ELSE "rejected")
  /\ accepted' = (accepted \/ accept)
  /\ IF accept THEN Accept(proposal) ELSE UNCHANGED <<final, finalCritic>>
  /\ UNCHANGED <<tools, salvage>>

ExecuteCall ==
  \/ \E q \in Queries : Search(q)
  \/ \E u \in Urls, ok \in BOOLEAN : Scrape(u, ok)
  \/ \E full \in BOOLEAN, critique \in CriticAnswers : Submit(full, critique)
  \/ UnknownTool
  \/ Malformed

-----------------------------------------------------------------------------
(* The end of the run *)

NeedsSalvageUnsaid == last.id = 0 /\ salvage = "no"    \* Mutant: an empty proposal will do

NeedsSalvage == ~accepted /\ ~last.full /\ salvage = "no"

(* _forced_submit: one more call, pinned to the submit tool.  Without parsable *)
(* arguments nothing changes; with them they are the last proposal, ungraded.  *)
Salvage(outcome) ==
  /\ pc = "exit" /\ NeedsSalvage
  /\ IF outcome = "failed"
       THEN salvage' = "nothing" /\ UNCHANGED <<last, attempts>>
       ELSE /\ last' = [id |-> attempts + 1, full |-> outcome = "full"]
            /\ attempts' = attempts + 1
            /\ salvage' = IF outcome = "full" THEN "answer" ELSE "nothing"
  /\ UNCHANGED <<pc, turn, dialog, tools, accepted, lastCritic, verdicts, final, finalCritic>>

(* The report carries what was accepted, or else the last proposal *)
Report ==
  /\ pc = "exit" /\ ~NeedsSalvage
  /\ pc' = "done"
  /\ IF accepted THEN UNCHANGED <<final, finalCritic>>
                 ELSE final' = last /\ finalCritic' = lastCritic
  /\ UNCHANGED <<turn, dialog, tools, proposals, salvage>>

Step ==
  \/ BeginTurn \/ ModelFails
  \/ \E n \in 0..MaxCalls, size \in {"small", "near", "over"} : ModelAnswers(n, size)
  \/ \E ok \in BOOLEAN : Compact(ok)
  \/ ExecuteCall \/ AfterTools \/ CheckCost
  \/ \E outcome \in {"failed", "empty", "full"} : Salvage(outcome)
  \/ Report

Next == Step

Spec == Init /\ [][Next]_vars

(* Every call out of the loop is under a timeout (RESEARCH_LLM_TIMEOUT_S, the   *)
(* search client's and the scraper's own), so an enabled step is taken.         *)
FairSpec == Spec /\ WF_vars(Next)

-----------------------------------------------------------------------------
(* What the loop must keep *)

(* The state is of the shape the code gives it, within the bounds. *)
TypeOK ==
  /\ pc \in {"turn", "llm", "hard", "tools", "post", "cap", "exit", "done", "raised"}
  /\ turn \in 0..Turns /\ spent \in 0..Turns
  /\ left \in 0..MaxCalls /\ open \in Nat /\ prompt \in {"small", "near", "over"}
  /\ compactions \in 0..MaxCompactions /\ hard \in BOOLEAN
  /\ searched \subseteq Words /\ failed \subseteq visited /\ visited \subseteq Urls
  /\ requests \in [Norms \cup Urls -> 0..2]
  /\ attempts \in 0..(Turns * MaxCalls + 1) /\ accepted \in BOOLEAN
  /\ last \in Submission /\ final \in Submission /\ {lastCritic, finalCritic} \subseteq Nat
  /\ salvage \in {"no", "nothing", "answer"}
  /\ verdicts \in Seq({"passed", "forced", "rejected"})

(* The dialog the model is sent is complete: every tool call in it has its     *)
(* result.  An endpoint of this protocol refuses a dialog with a dangling call,*)
(* which a dropped answer followed by a failed compaction would leave.         *)
DialogPaired == pc \in {"llm", "exit"} => open = 0

(* The critique a report carries is of the submission it reports, unless that  *)
(* one was salvaged; and a run counts as accepted only on a submission that was*)
(* not rejected, whatever else the model submitted in the same turn.           *)
GradeMatches ==
  pc = "done" /\ final.id # 0 /\ final.id \in DOMAIN verdicts =>
    /\ finalCritic = final.id
    /\ accepted => verdicts[final.id] # "rejected"

(* A run that reports nothing has asked the model a last time for what it has, *)
(* or reports what the critic let pass.                                        *)
NoSilentEmpty == pc = "done" /\ ~final.full => salvage = "nothing" \/ accepted

(* One search per normal form (but for that of no word at all, which is not    *)
(* remembered), one fetch per page and VisitCap per domain, in whatever order  *)
(* and however often the model asks and whatever fails.                        *)
NothingTwice ==
  /\ \A x \in DOMAIN requests \ {Blank} : requests[x] <= 1
  /\ \A u \in Urls : DomainOf[u] # Blank =>
       Cardinality({v \in Urls : DomainOf[v] = DomainOf[u] /\ requests[v] > 0}) <= VisitCap

(* After the cost wall is reached the model is asked again only when the last  *)
(* turn ended in a hard compaction, which skips the wall.                      *)
CostWall == pc = "llm" /\ spent >= TokenCap => hard

(* What modes.py calls the token budget: a hard cap. *)
HardCap == pc = "llm" => spent < TokenCap

(* Every run ends, with a report or an exception. *)
RunEnds == <>(pc \in {"done", "raised"})

=============================================================================
