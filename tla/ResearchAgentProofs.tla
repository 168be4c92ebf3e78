------------------------ MODULE ResearchAgentProofs ------------------------
(***************************************************************************)
(* Proofs about ResearchAgent, for every number of turns, calls of an      *)
(* answer, compactions and rejections, and any queries and pages.  Each    *)
(* invariant below is one reason of the loop's own; they share TypeOK and  *)
(* are otherwise independent of each other.                                *)
(***************************************************************************)
EXTENDS ResearchAgent, FiniteSetTheorems, TLAPS

(* What the bounds in TypeOK rest on: the model answers once a turn, a call *)
(* of an answer submits at most once, and only a dialog that may still be   *)
(* compacted is.  TurnCalls(k) calls are what k answers bring at most.      *)
TurnsAnswered == IF pc = "llm" THEN turn - 1 ELSE turn
TurnCalls(k) == k * MaxCalls
Submittable == IF pc = "tools" THEN left ELSE 0

BoundsInv ==
  /\ pc = "llm" => turn > 0
  /\ spent <= TurnsAnswered
  /\ pc \in {"hard", "post"} => compactions < MaxCompactions
  /\ attempts + Submittable <= TurnCalls(TurnsAnswered) + (IF salvage = "no" THEN 0 ELSE 1)
  /\ salvage # "no" => pc \in {"exit", "done"}

(* TypeOK in three parts, the bound on the submissions left to BoundsInv. *)
LoopType ==
  /\ pc \in {"turn", "llm", "hard", "tools", "post", "cap", "exit", "done", "raised"}
  /\ turn \in 0..Turns /\ spent \in 0..Turns
  /\ left \in 0..MaxCalls /\ open \in Nat /\ prompt \in {"small", "near", "over"}
  /\ compactions \in 0..MaxCompactions /\ hard \in BOOLEAN
ToolsType ==
  /\ searched \subseteq Words /\ failed \subseteq visited /\ visited \subseteq Urls
  /\ requests \in [Norms \cup Urls -> 0..2]
ReportType ==
  /\ attempts \in Nat /\ accepted \in BOOLEAN
  /\ last \in Submission /\ final \in Submission /\ lastCritic \in Nat /\ finalCritic \in Nat
  /\ salvage \in {"no", "nothing", "answer"}
  /\ verdicts \in Seq({"passed", "forced", "rejected"})
Typed == LoopType /\ ToolsType /\ ReportType

(* In every state but the execution of calls all tool calls have a result;  *)
(* there, as many lack one as are still to be executed.                     *)
PairedInv ==
  /\ pc \notin {"tools", "raised"} => open = 0
  /\ pc = "tools" => open = left

(* The wall is passed by a hard compaction only. *)
WallInv ==
  /\ pc = "hard" => hard
  /\ pc \in {"turn", "llm"} /\ spent >= TokenCap => hard

(* Submissions are numbered as they are graded; a salvaged one is numbered  *)
(* after them.                                                              *)
GradeInv ==
  /\ salvage = "no" => /\ attempts = Len(verdicts) /\ last.id = attempts /\ lastCritic = attempts
                       /\ pc = "done" => accepted \/ last.full
  /\ salvage # "no" => ~accepted /\ pc \in {"exit", "done"}
  /\ salvage = "answer" => last.full
  /\ last.id = lastCritic \/ last.id > Len(verdicts)
  /\ accepted => /\ final.id \in 1..Len(verdicts) /\ verdicts[final.id] # "rejected"
                 /\ finalCritic = final.id
  /\ pc = "done" /\ ~accepted => final = last /\ finalCritic = lastCritic

(* What was requested is remembered, and no domain is remembered too often. *)
AskedInv ==
  /\ \A x \in Words : requests[x] > 0 => requests[x] = 1 /\ x \in searched
  /\ \A u \in Urls : requests[u] > 0 => requests[u] = 1 /\ u \in visited
  /\ IsFiniteSet(visited)
  /\ \A u \in Urls : DomainOf[u] # Blank => VisitsOf(DomainOf[u]) <= VisitCap

-----------------------------------------------------------------------------
(* Types *)

(* The numbers among the constants. *)
LEMMA Numbers ==
  /\ Turns \in Nat /\ MaxCalls \in Nat /\ MaxRejects \in Nat /\ MaxCompactions \in Nat
  /\ VisitCap \in Nat /\ TokenCap \in Nat /\ TokenCap > 0
BY AgentAssumption

(* Each turn adds the calls of one answer. *)
LEMMA TurnCallsGrow ==
  ASSUME NEW a \in Nat, NEW b \in Nat, a <= b
  PROVE  /\ TurnCalls(0) = 0
         /\ TurnCalls(a) \in Nat /\ TurnCalls(b) \in Nat /\ TurnCalls(a) <= TurnCalls(b)
         /\ TurnCalls(a + 1) = TurnCalls(a) + MaxCalls
<1> SUFFICES ASSUME NEW m \in Nat
    PROVE /\ 0 * m = 0 /\ a * m \in Nat /\ b * m \in Nat /\ a * m <= b * m
          /\ (a + 1) * m = a * m + m
  BY Numbers DEF TurnCalls
<1> QED OBVIOUS

(* The bounds complete the types. *)
LEMMA TypeFromBounds == ASSUME Typed, BoundsInv PROVE TypeOK
<1> USE Numbers
<1>1. TurnsAnswered \in Nat /\ TurnsAnswered <= Turns
  BY DEF Typed, LoopType, BoundsInv, TurnsAnswered
<1>2. /\ TurnCalls(TurnsAnswered) \in Nat /\ TurnCalls(Turns) \in Nat
      /\ TurnCalls(TurnsAnswered) <= TurnCalls(Turns)
  BY <1>1, TurnCallsGrow
<1>3. Submittable \in Nat
  BY DEF Typed, LoopType, Submittable
<1>4. attempts \in Nat /\ attempts <= TurnCalls(Turns) + 1
  BY <1>2, <1>3 DEF Typed, ReportType, BoundsInv
<1>5. attempts \in 0..(Turns * MaxCalls + 1)
  <2>1. TurnCalls(Turns) = Turns * MaxCalls
    BY DEF TurnCalls
  <2> QED BY <1>2, <1>4, <2>1
<1> QED
  BY <1>5 DEF TypeOK, Typed, LoopType, ToolsType, ReportType

(* The first state is well typed and within the bounds. *)
LEMMA InitType == Init => Typed /\ BoundsInv
<1> SUFFICES ASSUME Init PROVE Typed /\ BoundsInv
  OBVIOUS
<1> USE Numbers
<1>1. LoopType
  <2>1. /\ pc = "turn" /\ turn = 0
        /\ open = 0 /\ left = 0 /\ prompt = "small" /\ spent = 0 /\ compactions = 0 /\ hard = FALSE
    BY DEF Init
  <2>2. hard \in BOOLEAN
    BY <2>1
  <2> QED BY <2>1, <2>2 DEF LoopType
<1>2. ToolsType
  BY DEF ToolsType, Init
<1>3. ReportType
  <2>1. /\ attempts = 0 /\ accepted = FALSE /\ lastCritic = 0 /\ finalCritic = 0 /\ salvage = "no"
        /\ last = [id |-> 0, full |-> FALSE] /\ final = [id |-> 0, full |-> FALSE]
    BY DEF Init, Nothing
  <2>2. verdicts \in Seq({"passed", "forced", "rejected"})
    BY DEF Init
  <2> QED BY <2>1, <2>2 DEF ReportType, Submission
<1>4. BoundsInv
  <2>1. TurnCalls(0) = 0
    <3>1. 0 \in Nat /\ 0 <= 0
      OBVIOUS
    <3> QED BY <3>1, TurnCallsGrow
  <2> QED BY <2>1 DEF BoundsInv, TurnsAnswered, Submittable, Init
<1> QED BY <1>1, <1>2, <1>3, <1>4 DEF Typed

(* A turn begins: the calls of one more answer are allowed. *)
LEMMA BeginTurnType == ASSUME Typed, BoundsInv, BeginTurn PROVE Typed' /\ BoundsInv'
<1> USE Numbers DEF BeginTurn
<1>1. LoopType'
  BY DEF Typed, LoopType, dialog
<1>2. ToolsType' /\ ReportType'
  BY DEF Typed, ToolsType, ReportType, tools, proposals, report
<1>3. TurnCalls(turn) \in Nat /\ TurnCalls(turn + 1) = TurnCalls(turn) + MaxCalls
  BY TurnCallsGrow DEF Typed, LoopType
<1>4. BoundsInv'
  BY <1>3
  DEF Typed, LoopType, ReportType, BoundsInv, TurnsAnswered, Submittable, dialog, proposals, report
<1> QED BY <1>1, <1>2, <1>4 DEF Typed

(* The answer of a turn brings at most MaxCalls calls. *)
LEMMA ModelAnswersType ==
  ASSUME Typed, BoundsInv, NEW n \in 0..MaxCalls, NEW size \in {"small", "near", "over"},
         ModelAnswers(n, size)
  PROVE  Typed' /\ BoundsInv'
<1> USE Numbers DEF ModelAnswers
<1>1. LoopType'
  BY DEF Typed, LoopType, BoundsInv, TurnsAnswered, MustCompact, DropAnswer
<1>2. ToolsType' /\ ReportType'
  BY DEF Typed, ToolsType, ReportType, tools, proposals, report
<1>3. TurnCalls(turn) = TurnCalls(turn - 1) + MaxCalls /\ TurnCalls(turn - 1) \in Nat
  <2>1. turn - 1 \in Nat /\ turn = (turn - 1) + 1
    BY DEF Typed, LoopType, BoundsInv
  <2> QED BY <2>1, TurnCallsGrow
<1>4. BoundsInv'
  BY <1>3 DEF Typed, LoopType, ReportType, BoundsInv, TurnsAnswered, Submittable, MustCompact,
              DropAnswer, proposals, report
<1> QED BY <1>1, <1>2, <1>4 DEF Typed

(* A call that is executed uses up one of the turn's submissions. *)
LEMMA ResultType ==
  ASSUME Typed, BoundsInv, PairedInv, Result,
         salvage' = salvage, attempts' \in Nat, attempts' <= attempts + 1
  PROVE  LoopType' /\ BoundsInv'
<1> USE Numbers DEF Result
<1>1. LoopType'
  BY DEF Typed, LoopType, PairedInv
<1>2. TurnCalls(turn) \in Nat
  BY TurnCallsGrow DEF Typed, LoopType
<1>3. BoundsInv'
  BY <1>2 DEF Typed, LoopType, ReportType, BoundsInv, TurnsAnswered, Submittable
<1> QED BY <1>1, <1>3

(* Each tool keeps the types, and a call submits at most once. *)
LEMMA ExecuteCallType ==
  ASSUME Typed, BoundsInv, PairedInv, ExecuteCall PROVE Typed' /\ BoundsInv'
<1>1. ASSUME NEW q \in Queries, Search(q) PROVE Typed' /\ BoundsInv'
  <2>1. ToolsType'
    <3>1. CASE Repeated(q)
      BY <1>1, <3>1 DEF Search, Typed, ToolsType
    <3>2. CASE ~Repeated(q)
      <4>1. NormOf[q] \in Norms
        BY DEF Norms
      <4>2. /\ requests' = [requests EXCEPT ![NormOf[q]] = Twice(@)]
            /\ searched' = (searched \cup {NormOf[q]}) \ {Blank} /\ visited' = visited /\ failed' = failed
        BY <1>1, <3>2 DEF Search, Request
      <4>3. requests' \in [Norms \cup Urls -> 0..2]
        BY <4>1, <4>2 DEF Twice, Typed, ToolsType
      <4> QED BY <4>1, <4>2, <4>3 DEF Words, Typed, ToolsType
    <3> QED BY <3>1, <3>2
  <2>2. Result /\ UNCHANGED <<proposals, report>>
    BY <1>1 DEF Search
  <2>3. ReportType' /\ salvage' = salvage /\ attempts' \in Nat /\ attempts' <= attempts + 1
    BY <2>2 DEF Typed, ReportType, proposals, report
  <2> QED BY <2>1, <2>2, <2>3, ResultType DEF Typed
<1>2. ASSUME NEW u \in Urls, NEW ok \in BOOLEAN, Scrape(u, ok) PROVE Typed' /\ BoundsInv'
  <2>1. ToolsType'
    <3>1. CASE Exhausted(u)
      BY <1>2, <3>1 DEF Scrape, Typed, ToolsType
    <3>2. CASE ~Exhausted(u)
      BY <1>2, <3>2 DEF Scrape, Request, Twice, Typed, ToolsType
    <3> QED BY <3>1, <3>2
  <2>2. ReportType'
    BY <1>2 DEF Scrape, Typed, ReportType, proposals, report
  <2>3. Result /\ salvage' = salvage /\ attempts' \in Nat /\ attempts' <= attempts + 1
    BY <1>2 DEF Scrape, Typed, ReportType, proposals, report
  <2> QED BY <2>1, <2>2, <2>3, ResultType DEF Typed
<1>3. ASSUME NEW full \in BOOLEAN, NEW critique \in CriticAnswers, Submit(full, critique)
      PROVE  Typed' /\ BoundsInv'
  <2>1. ToolsType'
    BY <1>3 DEF Submit, Typed, ToolsType, tools
  <2>2. /\ Result /\ salvage' = salvage /\ attempts' \in Nat /\ attempts' <= attempts + 1
        /\ last' \in Submission /\ lastCritic' \in Nat
    BY <1>3 DEF Submit, Typed, ReportType, Submission
  <2>3. final' \in Submission /\ finalCritic' \in Nat
    BY <1>3 DEF Submit, Accept, Typed, ReportType, Submission
  <2>4. verdicts' \in Seq({"passed", "forced", "rejected"})
    BY <1>3 DEF Submit, Typed, ReportType
  <2>5. accepted' \in BOOLEAN
    BY <1>3 DEF Submit
  <2>6. ReportType'
    BY <2>2, <2>3, <2>4, <2>5 DEF Typed, ReportType
  <2> QED BY <2>1, <2>2, <2>6, ResultType DEF Typed
<1>4. CASE UnknownTool
  <2>1. ToolsType' /\ ReportType'
    BY <1>4 DEF UnknownTool, Typed, ToolsType, ReportType, tools, proposals, report
  <2>2. Result /\ salvage' = salvage /\ attempts' \in Nat /\ attempts' <= attempts + 1
    BY <1>4 DEF UnknownTool, Typed, ReportType, proposals, report
  <2> QED BY <2>1, <2>2, ResultType DEF Typed
<1>5. CASE Malformed
  <2>1. Typed'
    BY <1>5 DEF Malformed, Typed, LoopType, ToolsType, ReportType, dialog, tools, proposals, report
  <2>2. TurnCalls(turn) \in Nat
    BY TurnCallsGrow, Numbers DEF Typed, LoopType
  <2>3. BoundsInv'
    BY <1>5, <2>2, Numbers
    DEF Malformed, Typed, LoopType, ReportType, BoundsInv, TurnsAnswered, Submittable,
        dialog, proposals, report
  <2> QED BY <2>1, <2>3
<1> QED BY <1>1, <1>2, <1>3, <1>4, <1>5 DEF ExecuteCall

(* Every step of the loop keeps the types and the bounds. *)
LEMMA StepType ==
  ASSUME Typed, BoundsInv, PairedInv, [Next]_vars PROVE Typed' /\ BoundsInv'
<1> USE Numbers
<1>0. TurnCalls(turn) \in Nat
  BY TurnCallsGrow DEF Typed, LoopType
<1>1. CASE ModelFails
  <2>1. turn - 1 \in Nat /\ turn = (turn - 1) + 1
    BY <1>1 DEF Typed, LoopType, BoundsInv, ModelFails
  <2>2. TurnCalls(turn - 1) \in Nat /\ TurnCalls(turn) = TurnCalls(turn - 1) + MaxCalls
    BY <2>1, TurnCallsGrow
  <2>3. Typed'
    BY <1>1 DEF ModelFails, Typed, LoopType, ToolsType, ReportType, dialog, tools, proposals, report
  <2> QED
    BY <1>1, <2>2, <2>3 DEF Typed, LoopType, ReportType, BoundsInv, TurnsAnswered, Submittable,
                            ModelFails, dialog, proposals, report
<1>2. ASSUME NEW ok \in BOOLEAN, Compact(ok) PROVE Typed' /\ BoundsInv'
  <2>1. LoopType'
    BY <1>2 DEF Compact, Typed, LoopType, BoundsInv
  <2>2. ToolsType' /\ ReportType'
    BY <1>2 DEF Compact, Typed, ToolsType, ReportType, tools, proposals, report
  <2>3. BoundsInv'
    BY <1>0, <1>2 DEF Typed, LoopType, ReportType, BoundsInv, TurnsAnswered, Submittable, Compact,
                      proposals, report
  <2> QED BY <2>1, <2>2, <2>3 DEF Typed
<1>3. CASE AfterTools
  <2>1. Typed'
    BY <1>3 DEF AfterTools, Typed, LoopType, ToolsType, ReportType, dialog, tools, proposals, report
  <2> QED BY <1>0, <1>3, <2>1 DEF Typed, LoopType, ReportType, BoundsInv, TurnsAnswered, Submittable,
                      AfterTools, dialog, proposals, report
<1>4. CASE CheckCost
  <2>1. Typed'
    BY <1>4 DEF CheckCost, Typed, LoopType, ToolsType, ReportType, dialog, tools, proposals, report
  <2> QED BY <1>0, <1>4, <2>1 DEF Typed, LoopType, ReportType, BoundsInv, TurnsAnswered, Submittable,
                      CheckCost, dialog, proposals, report
<1>5. ASSUME NEW outcome \in {"failed", "empty", "full"}, Salvage(outcome)
      PROVE  Typed' /\ BoundsInv'
  <2>1. LoopType' /\ ToolsType'
    BY <1>5 DEF Salvage, Typed, LoopType, ToolsType, dialog, tools
  <2>2. ReportType'
    <3>1. CASE outcome = "failed"
      BY <1>5, <3>1 DEF Salvage, Typed, ReportType
    <3>2. CASE outcome # "failed"
      <4>1. attempts' = attempts + 1 /\ last' = [id |-> attempts + 1, full |-> outcome = "full"]
        BY <1>5, <3>2 DEF Salvage
      <4>2. (outcome = "full") \in BOOLEAN
        OBVIOUS
      <4>3. attempts' \in Nat /\ last' \in Submission
        BY <4>1, <4>2 DEF Typed, ReportType, Submission
      <4> QED BY <1>5, <3>2, <4>3 DEF Salvage, Typed, ReportType
    <3> QED BY <3>1, <3>2
  <2> QED BY <1>0, <1>5, <2>1, <2>2 DEF Typed, LoopType, ReportType, BoundsInv, TurnsAnswered,
                      Submittable, Salvage, NeedsSalvage, dialog
<1>6. CASE Report
  <2>1. LoopType' /\ ToolsType'
    BY <1>6 DEF Report, Typed, LoopType, ToolsType, dialog, tools
  <2>2. ReportType'
    BY <1>6 DEF Report, Typed, ReportType, proposals
  <2> QED BY <1>0, <1>6, <2>1, <2>2 DEF Typed, LoopType, ReportType, BoundsInv, TurnsAnswered,
                      Submittable, Report, NeedsSalvage, dialog, proposals
<1>7. CASE UNCHANGED vars
  <2>1. Typed'
    BY <1>7 DEF vars, Typed, LoopType, ToolsType, ReportType, dialog, tools, proposals, report
  <2> QED BY <1>7, <2>1 DEF BoundsInv, TurnsAnswered, Submittable, vars, dialog, proposals, report
<1> QED
  BY <1>1, <1>2, <1>3, <1>4, <1>5, <1>6, <1>7, BeginTurnType, ModelAnswersType, ExecuteCallType
  DEF Next, Step

-----------------------------------------------------------------------------
(* The dialog and the cost wall *)

(* Every step leaves the tool calls of the dialog paired with their results. *)
LEMMA StepPaired == ASSUME Typed, PairedInv, [Next]_vars PROVE PairedInv'
<1>1. CASE BeginTurn
  BY <1>1 DEF BeginTurn, PairedInv, dialog
<1>2. CASE ModelFails
  BY <1>2 DEF ModelFails, PairedInv, dialog
<1>3. ASSUME NEW n \in 0..MaxCalls, NEW size \in {"small", "near", "over"}, ModelAnswers(n, size)
      PROVE  PairedInv'
  BY <1>3 DEF ModelAnswers, MustCompact, DropAnswer, PairedInv
<1>4. ASSUME NEW ok \in BOOLEAN, Compact(ok) PROVE PairedInv'
  BY <1>4 DEF Compact, PairedInv
<1>5. CASE ExecuteCall
  <2>1. CASE Malformed
    BY <2>1 DEF Malformed, PairedInv
  <2>2. CASE Result
    BY <2>2 DEF Result, PairedInv
  <2> QED BY <1>5, <2>1, <2>2 DEF ExecuteCall, Search, Scrape, Submit, UnknownTool
<1>6. CASE AfterTools
  BY <1>6 DEF AfterTools, PairedInv, dialog
<1>7. CASE CheckCost
  BY <1>7 DEF CheckCost, PairedInv, dialog
<1>8. ASSUME NEW outcome \in {"failed", "empty", "full"}, Salvage(outcome) PROVE PairedInv'
  BY <1>8 DEF Salvage, PairedInv, dialog
<1>9. CASE Report
  BY <1>9 DEF Report, PairedInv, dialog
<1>10. CASE UNCHANGED vars
  BY <1>10 DEF vars, PairedInv, dialog
<1> QED
  BY <1>1, <1>2, <1>3, <1>4, <1>5, <1>6, <1>7, <1>8, <1>9, <1>10 DEF Next, Step

(* Every step that leads to another model call looks at the wall, or is the *)
(* end of a hard compaction.                                                *)
LEMMA StepWall == ASSUME Typed, WallInv, [Next]_vars PROVE WallInv'
<1> USE Numbers
<1>1. CASE BeginTurn
  BY <1>1 DEF BeginTurn, WallInv, dialog
<1>2. CASE ModelFails
  BY <1>2 DEF ModelFails, WallInv, dialog
<1>3. ASSUME NEW n \in 0..MaxCalls, NEW size \in {"small", "near", "over"}, ModelAnswers(n, size)
      PROVE  WallInv'
  BY <1>3 DEF ModelAnswers, WallInv
<1>4. ASSUME NEW ok \in BOOLEAN, Compact(ok) PROVE WallInv'
  BY <1>4 DEF Compact, WallInv
<1>5. CASE ExecuteCall
  <2>1. CASE Malformed
    BY <2>1 DEF Malformed, WallInv
  <2>2. CASE Result
    BY <2>2 DEF Result, WallInv
  <2> QED BY <1>5, <2>1, <2>2 DEF ExecuteCall, Search, Scrape, Submit, UnknownTool
<1>6. CASE AfterTools
  BY <1>6 DEF AfterTools, WallInv, dialog
<1>7. CASE CheckCost
  BY <1>7 DEF CheckCost, WallInv, dialog, Typed, LoopType
<1>8. ASSUME NEW outcome \in {"failed", "empty", "full"}, Salvage(outcome) PROVE WallInv'
  BY <1>8 DEF Salvage, WallInv, dialog
<1>9. CASE Report
  BY <1>9 DEF Report, WallInv, dialog
<1>10. CASE UNCHANGED vars
  BY <1>10 DEF vars, WallInv, dialog
<1> QED
  BY <1>1, <1>2, <1>3, <1>4, <1>5, <1>6, <1>7, <1>8, <1>9, <1>10 DEF Next, Step

-----------------------------------------------------------------------------
(* The report and what was asked of the network *)

(* A step within the loop that touches no proposal keeps the grades. *)
LEMMA LoopKeepsGrades ==
  ASSUME GradeInv, UNCHANGED <<proposals, report>>, pc \notin {"exit", "done"}, pc' # "done"
  PROVE  GradeInv'
BY DEF GradeInv, proposals, report

(* A submission gets the next number, and is reported only when not rejected. *)
LEMMA SubmitGrade ==
  ASSUME Typed, GradeInv, NEW full \in BOOLEAN, NEW critique \in CriticAnswers,
         Submit(full, critique)
  PROVE  GradeInv'
<1> DEFINE k == Len(verdicts) + 1
           accept == Passes(critique) \/ Forced(k)
           verdict == IF Passes(critique) THEN "passed" ELSE IF accept THEN "forced" ELSE "rejected"
<1>1. pc = "tools" /\ pc' = "tools" /\ salvage = "no" /\ salvage' = "no"
  BY DEF Submit, Result, GradeInv
<1>2. attempts = Len(verdicts)
  BY <1>1 DEF GradeInv
<1>3. /\ attempts' = k /\ last' = [id |-> k, full |-> full] /\ lastCritic' = k
      /\ verdicts' = Append(verdicts, verdict) /\ accepted' = (accepted \/ accept)
      /\ IF accept THEN final' = last' /\ finalCritic' = k ELSE UNCHANGED <<final, finalCritic>>
  BY <1>2 DEF Submit, Accept
<1>4. /\ Len(verdicts) \in Nat /\ Len(verdicts') = k /\ verdicts'[k] = verdict
      /\ \A i \in 1..Len(verdicts) : verdicts'[i] = verdicts[i]
  <2>1. verdict \in {"passed", "forced", "rejected"}
    OBVIOUS
  <2> HIDE DEF verdict
  <2> QED BY <1>3, <2>1 DEF Typed, ReportType
<1>5. accepted' => /\ final'.id \in 1..Len(verdicts') /\ verdicts'[final'.id] # "rejected"
                   /\ finalCritic' = final'.id
  <2>1. CASE accept
    <3>1. verdict # "rejected"
      BY <2>1
    <3> HIDE DEF verdict, accept
    <3> QED BY <1>3, <1>4, <2>1, <3>1
  <2>2. CASE ~accept
    <3>1. accepted' = accepted /\ final' = final /\ finalCritic' = finalCritic
      BY <1>3, <2>2 DEF Typed, ReportType
    <3> HIDE DEF verdict, accept
    <3> QED BY <1>4, <3>1 DEF GradeInv
  <2> QED BY <2>1, <2>2
<1> HIDE DEF verdict, accept
<1> QED BY <1>1, <1>3, <1>4, <1>5 DEF GradeInv

(* Every step keeps the numbering and what is accepted. *)
LEMMA StepGrade == ASSUME Typed, GradeInv, [Next]_vars PROVE GradeInv'
<1>1. CASE BeginTurn
  BY <1>1, LoopKeepsGrades DEF BeginTurn
<1>2. CASE ModelFails
  BY <1>2, LoopKeepsGrades DEF ModelFails
<1>3. ASSUME NEW n \in 0..MaxCalls, NEW size \in {"small", "near", "over"}, ModelAnswers(n, size)
      PROVE  GradeInv'
  BY <1>3, LoopKeepsGrades DEF ModelAnswers
<1>4. ASSUME NEW ok \in BOOLEAN, Compact(ok) PROVE GradeInv'
  BY <1>4, LoopKeepsGrades DEF Compact
<1>5. ASSUME NEW q \in Queries, Search(q) PROVE GradeInv'
  BY <1>5, LoopKeepsGrades DEF Search, Result
<1>6. ASSUME NEW u \in Urls, NEW ok \in BOOLEAN, Scrape(u, ok) PROVE GradeInv'
  BY <1>6, LoopKeepsGrades DEF Scrape, Result
<1>7. CASE UnknownTool
  BY <1>7, LoopKeepsGrades DEF UnknownTool, Result
<1>8. CASE Malformed
  BY <1>8, LoopKeepsGrades DEF Malformed
<1>9. CASE AfterTools
  BY <1>9, LoopKeepsGrades DEF AfterTools
<1>10. CASE CheckCost
  BY <1>10, LoopKeepsGrades DEF CheckCost
<1>11. ASSUME NEW outcome \in {"failed", "empty", "full"}, Salvage(outcome) PROVE GradeInv'
  <2>1. /\ pc = "exit" /\ pc' = "exit" /\ ~accepted /\ salvage = "no" /\ accepted' = accepted
        /\ UNCHANGED <<lastCritic, verdicts, final, finalCritic>>
    BY <1>11 DEF Salvage, NeedsSalvage
  <2>2. attempts = Len(verdicts) /\ last.id = attempts /\ lastCritic = attempts
    BY <2>1 DEF GradeInv
  <2>3. CASE outcome = "failed"
    BY <1>11, <2>1, <2>2, <2>3 DEF Salvage, GradeInv
  <2>4. CASE outcome # "failed"
    <3>1. /\ last'.id = Len(verdicts) + 1 /\ last'.full = (outcome = "full")
          /\ salvage' = IF outcome = "full" THEN "answer" ELSE "nothing"
      BY <1>11, <2>2, <2>4 DEF Salvage
    <3>2. last'.id > Len(verdicts')
      BY <2>1, <3>1 DEF Typed, ReportType
    <3>3. salvage' # "no" /\ (salvage' = "answer" => last'.full)
      BY <3>1
    <3> QED BY <2>1, <3>2, <3>3 DEF GradeInv
  <2> QED BY <2>3, <2>4
<1>12. CASE Report
  BY <1>12 DEF Report, NeedsSalvage, GradeInv, proposals
<1>13. CASE UNCHANGED vars
  BY <1>13 DEF vars, GradeInv, proposals, report
<1> QED
  BY <1>1, <1>2, <1>3, <1>4, <1>5, <1>6, <1>7, <1>8, <1>9, <1>10, <1>11, <1>12, <1>13,
     SubmitGrade
  DEF Next, Step, ExecuteCall

(* A page is added to a domain of fewer than VisitCap pages only. *)
LEMMA ScrapeAsked ==
  ASSUME Typed, AskedInv, NEW u \in Urls, NEW ok \in BOOLEAN, Scrape(u, ok)
  PROVE  AskedInv'
<1>1. CASE Exhausted(u)
  <2>1. UNCHANGED <<visited, requests, searched>>
    BY <1>1 DEF Scrape
  <2> QED BY <2>1 DEF AskedInv, VisitsOf
<1>2. CASE ~Exhausted(u)
  <2>1. /\ visited' = visited \cup {u} /\ requests' = [requests EXCEPT ![u] = Twice(@)]
        /\ searched' = searched
    BY <1>2 DEF Scrape, Request
  <2>2. u \notin visited /\ requests[u] = 0
    BY <1>2 DEF Exhausted, AskedInv, Typed, ToolsType
  <2>3. \A x \in Norms \cup Urls : requests'[x] = IF x = u THEN 1 ELSE requests[x]
    BY <2>1, <2>2 DEF Twice, Typed, ToolsType
  <2>4. \A x \in Words : x # u
    BY AgentAssumption DEF Norms, Words
  <2>5. /\ \A x \in Words : requests'[x] > 0 => requests'[x] = 1 /\ x \in searched'
        /\ \A v \in Urls : requests'[v] > 0 => requests'[v] = 1 /\ v \in visited'
    BY <2>1, <2>3, <2>4 DEF AskedInv
  <2>6. IsFiniteSet(visited')
    BY <2>1, FS_AddElement DEF AskedInv
  <2>7. ASSUME NEW v \in Urls, DomainOf[v] # Blank PROVE Cardinality({x \in visited' : DomainOf[x] = DomainOf[v]}) <= VisitCap
    <3> DEFINE old == {x \in visited : DomainOf[x] = DomainOf[v]}
    <3>1. IsFiniteSet(old) /\ Cardinality(old) \in Nat
      BY FS_Subset, FS_CardinalityType DEF AskedInv
    <3>2. CASE DomainOf[v] = DomainOf[u]
      <4>1. {x \in visited' : DomainOf[x] = DomainOf[v]} = old \cup {u} /\ u \notin old
        BY <2>1, <2>2, <3>2
      <4>2. Cardinality(old \cup {u}) = Cardinality(old) + 1
        BY <3>1, <4>1, FS_AddElement
      <4>3. ~(Cardinality(old) >= VisitCap)
        BY <1>2, <2>7, <3>2 DEF Exhausted, DomainFull, VisitsOf
      <4> HIDE DEF old
      <4> QED BY <3>1, <4>1, <4>2, <4>3, Numbers
    <3>3. CASE DomainOf[v] # DomainOf[u]
      <4>1. {x \in visited' : DomainOf[x] = DomainOf[v]} = old
        BY <2>1, <3>3
      <4> QED BY <2>7, <4>1 DEF AskedInv, VisitsOf
    <3> QED BY <3>2, <3>3
  <2> QED BY <2>5, <2>6, <2>7 DEF AskedInv, VisitsOf
<1> QED BY <1>1, <1>2

(* Every step asks the network for what was not asked before. *)
LEMMA StepAsked == ASSUME Typed, AskedInv, [Next]_vars PROVE AskedInv'
<1>1. ASSUME NEW q \in Queries, Search(q) PROVE AskedInv'
  <2>1. visited' = visited
    BY <1>1 DEF Search
  <2>2. CASE Repeated(q)
    BY <1>1, <2>1, <2>2 DEF Search, AskedInv, VisitsOf
  <2>3. CASE ~Repeated(q)
    <3>1. /\ searched' = (searched \cup {NormOf[q]}) \ {Blank} /\ NormOf[q] \notin searched
          /\ requests' = [requests EXCEPT ![NormOf[q]] = Twice(@)]
      BY <1>1, <2>3 DEF Search, Request, Repeated
    <3>2. NormOf[q] \in Norms /\ NormOf[q] \notin Urls
      BY AgentAssumption DEF Norms, Words
    <3>3. NormOf[q] # Blank => requests[NormOf[q]] = 0
      BY <3>1, <3>2 DEF Words, AskedInv, Typed, ToolsType
    <3>4. \A x \in Words \cup Urls : requests'[x] = IF x = NormOf[q] THEN 1 ELSE requests[x]
      BY <3>1, <3>2, <3>3 DEF Words, Twice, Typed, ToolsType
    <3>5. /\ \A x \in Words : requests'[x] > 0 => requests'[x] = 1 /\ x \in searched'
          /\ \A v \in Urls : requests'[v] > 0 => requests'[v] = 1 /\ v \in visited'
      BY <2>1, <3>1, <3>2, <3>4 DEF Words, AskedInv
    <3> QED BY <2>1, <3>5 DEF AskedInv, VisitsOf
  <2> QED BY <2>2, <2>3
<1>2. CASE UNCHANGED tools
  <2>1. UNCHANGED <<searched, visited, requests>>
    BY <1>2 DEF tools
  <2> QED BY <2>1 DEF AskedInv, VisitsOf
<1> QED
  BY <1>1, <1>2, ScrapeAsked
  DEF Next, Step, vars, BeginTurn, ModelFails, ModelAnswers, Compact, ExecuteCall, Submit,
      UnknownTool, Malformed, AfterTools, CheckCost, Salvage, Report

-----------------------------------------------------------------------------
(* Theorems *)

(* What all the theorems rest on. *)
AgentInv == Typed /\ BoundsInv /\ PairedInv /\ WallInv /\ GradeInv /\ AskedInv

(* A run starts with nothing asked, submitted or spent. *)
LEMMA InitAgentInv == Init => AgentInv
<1> SUFFICES ASSUME Init PROVE AgentInv
  OBVIOUS
<1>1. PairedInv
  BY DEF Init, PairedInv
<1>2. WallInv
  BY Numbers DEF Init, WallInv
<1>3. GradeInv
  BY DEF Init, GradeInv, Nothing
<1>4. AskedInv
  <2>1. visited = {} /\ \A x \in Norms \cup Urls : requests[x] = 0
    BY DEF Init
  <2>2. \A u \in Urls : VisitsOf(DomainOf[u]) = 0
    BY <2>1, FS_EmptySet DEF VisitsOf
  <2> QED BY <2>1, <2>2, FS_EmptySet, Numbers DEF Words, AskedInv
<1> QED BY <1>1, <1>2, <1>3, <1>4, InitType DEF AgentInv

(* Together the reasons are inductive. *)
LEMMA AgentInvariant == Spec => []AgentInv
<1>1. AgentInv /\ [Next]_vars => AgentInv'
  BY StepType, StepPaired, StepWall, StepGrade, StepAsked DEF AgentInv
<1> QED BY <1>1, InitAgentInv, PTL DEF Spec

(* Type correctness of one research run: the loop stays within its turns, a *)
(* run spends one call a turn, and submits no more often than answers allow.*)
THEOREM TypeCorrect == Spec => []TypeOK
BY AgentInvariant, TypeFromBounds, PTL DEF AgentInv

(* The dialog sent to the model never has a dangling tool call, whatever    *)
(* the model answers, whichever calls fail and wherever compaction falls.   *)
THEOREM DialogIsPaired == Spec => []DialogPaired
<1>1. AgentInv => DialogPaired
  BY DEF AgentInv, PairedInv, DialogPaired
<1> QED BY <1>1, AgentInvariant, PTL

(* Past the cost wall only a hard compaction leads to another model call.   *)
THEOREM WallHolds == Spec => []CostWall
<1>1. AgentInv => CostWall
  BY DEF AgentInv, WallInv, CostWall
<1> QED BY <1>1, AgentInvariant, PTL

(* The critique in a report is the critique of the submission it reports,   *)
(* and no rejected submission counts as accepted.                           *)
THEOREM GradesMatch == Spec => []GradeMatches
<1>1. AgentInv => GradeMatches
  <2> SUFFICES ASSUME AgentInv, pc = "done", final.id # 0, final.id \in DOMAIN verdicts
               PROVE  finalCritic = final.id /\ (accepted => verdicts[final.id] # "rejected")
    BY DEF GradeMatches
  <2>1. CASE accepted
    BY <2>1 DEF AgentInv, GradeInv
  <2>2. CASE ~accepted
    <3>1. final = last /\ finalCritic = lastCritic
      BY <2>2 DEF AgentInv, GradeInv
    <3>2. final.id \in 1..Len(verdicts) /\ Len(verdicts) \in Nat
      BY DEF AgentInv, Typed, ReportType
    <3>3. last.id = lastCritic
      BY <3>1, <3>2 DEF AgentInv, GradeInv
    <3> QED BY <2>2, <3>1, <3>3
  <2> QED BY <2>1, <2>2
<1> QED BY <1>1, AgentInvariant, PTL

(* A run never ends with an empty report without the salvage call, unless   *)
(* the critic let an empty submission pass.                                 *)
THEOREM NeverSilentlyEmpty == Spec => []NoSilentEmpty
<1>1. AgentInv => NoSilentEmpty
  <2> SUFFICES ASSUME AgentInv, pc = "done", ~final.full, ~accepted PROVE salvage = "nothing"
    BY DEF NoSilentEmpty
  <2>1. ~last.full
    BY DEF AgentInv, GradeInv
  <2>2. salvage # "no" /\ salvage # "answer"
    BY <2>1 DEF AgentInv, GradeInv
  <2> QED BY <2>2 DEF AgentInv, Typed, ReportType
<1> QED BY <1>1, AgentInvariant, PTL

(* No search with a word in it and no page is requested twice in a run, and *)
(* no domain more than VisitCap times, for any queries, pages and order.    *)
THEOREM NothingAskedTwice == Spec => []NothingTwice
<1>1. AgentInv => NothingTwice
  <2> SUFFICES ASSUME AgentInv PROVE NothingTwice
    OBVIOUS
  <2> USE DEF AgentInv
  <2>1. \A x \in DOMAIN requests \ {Blank} : requests[x] <= 1
    BY DEF Words, AskedInv, Typed, ToolsType
  <2>2. ASSUME NEW u \in Urls, DomainOf[u] # Blank
        PROVE  Cardinality({v \in Urls : DomainOf[v] = DomainOf[u] /\ requests[v] > 0}) <= VisitCap
    <3> DEFINE asked == {v \in Urls : DomainOf[v] = DomainOf[u] /\ requests[v] > 0}
               seen == {v \in visited : DomainOf[v] = DomainOf[u]}
    <3>1. asked \subseteq seen /\ seen \subseteq visited
      BY DEF AskedInv
    <3>2. IsFiniteSet(seen) /\ IsFiniteSet(asked)
      BY <3>1, FS_Subset DEF AskedInv
    <3>3. Cardinality(asked) <= Cardinality(seen)
      BY <3>1, <3>2, FS_Subset
    <3>4. Cardinality(seen) <= VisitCap
      BY <2>2 DEF AskedInv, VisitsOf
    <3>5. Cardinality(seen) \in Nat /\ Cardinality(asked) \in Nat
      BY <3>2, FS_CardinalityType
    <3> HIDE DEF asked, seen
    <3>6. Cardinality(asked) <= VisitCap
      BY <3>3, <3>4, <3>5, Numbers
    <3> QED BY <3>6 DEF asked
  <2> QED BY <2>1, <2>2 DEF NothingTwice
<1> QED BY <1>1, AgentInvariant, PTL

=============================================================================
