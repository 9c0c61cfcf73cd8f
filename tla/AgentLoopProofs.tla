--------------------------- MODULE AgentLoopProofs ---------------------------
(***************************************************************************)
(* Proofs about the agent loop, for every tool registry, guardrail         *)
(* configuration, step limit and budget.                                   *)
(***************************************************************************)
EXTENDS AgentLoop, TLAPS

-----------------------------------------------------------------------------
(* Where the loop is among the calls of a response, and how many requests  *)
(* it has made: every request belongs to a step of its own.                *)
Position ==
  /\ Len(outcomes) <= Len(calls)
  /\ pc \in {"run", "approve"} => Len(outcomes) < Len(calls)
  /\ pc = "tool" => Len(calls) > 0
  /\ ran \subseteq 1..Len(outcomes)

RequestPerStep ==
  /\ pc = "loop" => asked <= step
  /\ pc = "llm" => asked <= step /\ step < MaxSteps
  /\ pc \in {"tool", "run", "approve", "stop", "input"} => asked <= step + 1

(* A response has at most MaxCalls calls, and each of them is one of Calls. *)
LEMMA ResponseCalls ==
  ASSUME NEW r \in Responses
  PROVE  /\ r \in Seq(Calls)
         /\ Len(r) \in 0..MaxCalls
         /\ \A i \in 1..Len(r) : r[i] \in Calls
<1>1. PICK k \in 0..MaxCalls : r \in [1..k -> Calls]
  BY DEF Responses
<1>2. k \in Nat
  BY LoopAssumption
<1>3. r \in Seq(Calls)
  BY <1>1, <1>2
<1>4. Len(r) = k
  BY <1>1, <1>2
<1> QED
  BY <1>1, <1>3, <1>4

(* Initially everything has its type. *)
LEMMA TypeInit == Init => TypeOK /\ Position
<1> SUFFICES ASSUME Init PROVE TypeOK /\ Position
  OBVIOUS
<1>1. calls \in Responses
  <2>1. <<>> \in [1..0 -> Calls]
    OBVIOUS
  <2> QED
    BY <2>1, LoopAssumption DEF Init, Responses
<1>2. history \in Seq(Message) /\ outcomes \in Seq(StepOutcome)
  BY DEF Init
<1>3. Position
  BY DEF Init, Position
<1>4. exhausted \in BOOLEAN
  BY DEF Init
<1>5. /\ pc \in Place /\ signal \in ControlSignal
      /\ turns \in 0..MaxTurns /\ step \in Nat /\ failures \in Nat
      /\ used \in Nat /\ asked \in Nat /\ done \in Nat
      /\ ran \in SUBSET (1..MaxCalls) /\ approved \in SUBSET (1..MaxCalls)
  BY LoopAssumption DEF Init, Place, ControlSignal
<1> QED
  BY <1>1, <1>2, <1>3, <1>4, <1>5, Zenon DEF TypeOK

(* Every action keeps the types and the position among the calls. *)
LEMMA TypeStep ==
  ASSUME TypeOK, Position, [Next]_vars
  PROVE  TypeOK' /\ Position'
<1> USE LoopAssumption
<1>0. /\ Len(calls) \in 0..MaxCalls
      /\ Len(outcomes) \in Nat
      /\ User \in Message /\ Summary \in Message
  BY ResponseCalls DEF TypeOK, User, Summary, Message
<1>1. CASE runAgentTurn
  <2>1. history' \in Seq(Message)
    BY <1>0, <1>1 DEF runAgentTurn, TypeOK
  <2>2. exhausted' \in BOOLEAN
    BY <1>1 DEF runAgentTurn
  <2>3. /\ pc' \in Place /\ turns' \in 0..MaxTurns
        /\ step' \in Nat /\ failures' \in Nat /\ asked' \in Nat
    BY <1>1 DEF runAgentTurn, TypeOK, Place
  <2>4. Position'
    BY <1>1 DEF runAgentTurn, Position, stepVars
  <2>5. UNCHANGED <<calls, outcomes, ran, approved, signal, used, done>>
    BY <1>1 DEF runAgentTurn, stepVars
  <2> QED
    BY <2>1, <2>2, <2>3, <2>4, <2>5, Zenon DEF TypeOK
<1>2. CASE cmdClear
  BY <1>2 DEF cmdClear, TypeOK, Position, stepVars
<1>3. CASE cancelled
  BY <1>3 DEF cancelled, TypeOK, Position, Place, stepVars
<1>4. CASE maxStepsExceeded
  BY <1>4 DEF maxStepsExceeded, TypeOK, Position, Place, stepVars, ControlSignal
<1>5. CASE maybeCompact
  <2>0. <<Summary>> \in Seq(Message)
    <3>1. \A m \in Message : <<m>> \in Seq(Message)
      OBVIOUS
    <3> QED
      BY <1>0, <3>1
  <2>1. history' \in Seq(Message)
    BY <1>5, <2>0 DEF maybeCompact, compact, TypeOK
  <2> QED
    BY <1>5, <2>1 DEF maybeCompact, TypeOK, Position, Place, stepVars
<1>6. CASE llmError
  BY <1>6 DEF llmError, TypeOK, Position, Place, stepVars, ControlSignal, assessControlSignal
<1>7. CASE budgetExhausted
  BY <1>7 DEF budgetExhausted, TypeOK, Position, Place, stepVars, ControlSignal
<1>8. CASE llmResponse
  <2>1. PICK response \in Responses :
          /\ history' = Append(history, Assistant(Len(response)))
          /\ calls' = response
          /\ \/ /\ response = <<>>
                /\ pc' = "stop"
                /\ \E endTurn \in BOOLEAN : signal' = completionSignal(endTurn)
             \/ response # <<>> /\ pc' = "tool" /\ signal' = signal
    BY <1>8 DEF llmResponse
  <2>2. Assistant(Len(response)) \in Message
    BY <2>1, ResponseCalls DEF Assistant, Message
  <2>3. response \in Seq(Calls)
    BY <2>1, ResponseCalls
  <2>4. history' \in Seq(Message)
    BY <2>1, <2>2 DEF TypeOK
  <2>5. signal' \in ControlSignal
    BY <2>1 DEF TypeOK, completionSignal, ControlSignal
  <2>6. /\ pc' \in Place
        /\ pc' = "tool" => Len(response) > 0
        /\ pc' \notin {"run", "approve"}
    BY <2>1, <2>3 DEF Place
  <2>7. used' \in Nat
    BY <1>8 DEF llmResponse, TypeOK
  <2>8. outcomes' = <<>> /\ Len(calls') >= 0
    BY <1>8, <2>1, <2>3 DEF llmResponse
  <2> QED
    BY <1>8, <2>1, <2>4, <2>5, <2>6, <2>7, <2>8 DEF llmResponse, TypeOK, Position
<1>9. CASE executeTool
  <2>1. \/ \E o \in StepOutcome : Outcome(o)
        \/ pc' \in {"run", "approve"} /\ outcomes' = outcomes
    BY <1>9 DEF executeTool, StepOutcome, FailureClass, decision, evaluate, tierDecision
  <2>2. Len(outcomes) < Len(calls)
    BY <1>0, <1>9 DEF executeTool, AllExecuted, Position
  <2>3. /\ pc' \in {"tool", "run", "approve"}
        /\ outcomes' \in Seq(StepOutcome)
        /\ Len(outcomes') <= Len(calls)
        /\ pc' # "tool" => Len(outcomes') < Len(calls)
        /\ Len(outcomes') >= Len(outcomes)
    <3>1. outcomes \in Seq(StepOutcome) /\ Len(outcomes) \in Nat /\ Len(calls) \in Nat
      BY <1>0 DEF TypeOK
    <3>2. ASSUME NEW o \in StepOutcome, Outcome(o)
          PROVE  pc' = "tool" /\ outcomes' \in Seq(StepOutcome) /\ Len(outcomes') = Len(outcomes) + 1
      BY <3>1, <3>2 DEF Outcome
    <3>3. CASE \E o \in StepOutcome : Outcome(o)
      BY <2>2, <3>1, <3>2, <3>3
    <3>4. CASE pc' \in {"run", "approve"} /\ outcomes' = outcomes
      BY <2>2, <3>1, <3>4
    <3> QED
      BY <2>1, <3>3, <3>4
  <2>4. ran \subseteq 1..Len(outcomes')
    BY <1>0, <2>3 DEF Position
  <2> QED
    BY <1>0, <1>9, <2>2, <2>3, <2>4 DEF executeTool, toolFrame, TypeOK, Position, Place
<1>10. CASE approve
  <2>1. approved' \in SUBSET (1..MaxCalls)
    <3>1. Len(outcomes) + 1 \in 1..MaxCalls
      BY <1>0, <1>10 DEF approve, Position
    <3> QED
      BY <1>10, <3>1 DEF approve, TypeOK
  <2> QED
    BY <1>10, <2>1 DEF approve, toolFrame, TypeOK, Position, Place
<1>11. CASE reject
  BY <1>0, <1>11 DEF reject, Outcome, toolFrame, TypeOK, Position, Place, StepOutcome, FailureClass
<1>12. CASE runTool
  <2>1. PICK o \in StepOutcome : Outcome(o)
    BY <1>12 DEF runTool, StepOutcome, FailureClass, ToolErrorClass
  <2>2. Len(outcomes) < Len(calls)
    BY <1>12 DEF runTool, Position
  <2>3. outcomes' \in Seq(StepOutcome) /\ Len(outcomes') = Len(outcomes) + 1
    BY <2>1 DEF Outcome, TypeOK
  <2>4. ran' \subseteq 1..Len(outcomes') /\ ran' \in SUBSET (1..MaxCalls)
    <3>1. Len(outcomes) + 1 \in 1..MaxCalls /\ Len(outcomes) + 1 \in 1..Len(outcomes')
      BY <1>0, <2>2, <2>3
    <3>2. ran \subseteq 1..Len(outcomes')
      BY <1>0, <2>3 DEF Position
    <3>3. ran' = ran \cup {Len(outcomes) + 1} /\ ran \in SUBSET (1..MaxCalls)
      BY <1>12 DEF runTool, TypeOK
    <3> QED
      BY <3>1, <3>2, <3>3
  <2> QED
    BY <1>0, <1>12, <2>1, <2>2, <2>3, <2>4
    DEF runTool, Outcome, toolFrame, TypeOK, Position, Place
<1>13. CASE processToolCalls
  <2>1. ToolResults(Len(outcomes)) \in Message
    BY <1>0, <1>13 DEF processToolCalls, AllExecuted, ToolResults, Message
  <2>2. history' \in Seq(Message)
    BY <1>13, <2>1 DEF processToolCalls, TypeOK
  <2>3. /\ pc' \in {"loop", "stop"}
        /\ step' \in Nat /\ failures' \in Nat /\ signal' \in ControlSignal
    BY <1>13 DEF processToolCalls, TypeOK, ControlSignal, countConsecutiveFailures
  <2> QED
    BY <1>13, <2>2, <2>3 DEF processToolCalls, TypeOK, Position, Place, stepVars
<1>14. CASE stopStep
  BY <1>14 DEF stopStep, TypeOK, Position, Place, stepVars
<1>15. CASE userResponds
  BY <1>0, <1>15 DEF userResponds, TypeOK, Position, Place, stepVars
<1>16. CASE finish
  BY <1>16 DEF finish, TypeOK, Position, Place, stepVars
<1>17. CASE UNCHANGED vars
  BY <1>17 DEF vars, TypeOK, Position, stepVars
<1> QED
  BY <1>1, <1>2, <1>3, <1>4, <1>5, <1>6, <1>7, <1>8, <1>9, <1>10, <1>11, <1>12,
     <1>13, <1>14, <1>15, <1>16, <1>17 DEF Next, LoopStep, UserStep

(* Every reachable state of the loop is well typed, and the loop never     *)
(* runs past the calls of a response.                                      *)
THEOREM LoopTypes == Spec => [](TypeOK /\ Position)
<1>1. TypeOK /\ Position /\ [Next]_vars => (TypeOK /\ Position)'
  BY TypeStep
<1> QED
  BY TypeInit, <1>1, PTL DEF Spec
-----------------------------------------------------------------------------
(* Every action keeps one request per step. *)
LEMMA RequestStep ==
  ASSUME TypeOK, RequestPerStep, [Next]_vars
  PROVE  RequestPerStep'
<1> USE LoopAssumption DEF TypeOK, RequestPerStep
<1>1. CASE runAgentTurn \/ cmdClear \/ cancelled \/ finish
  BY <1>1 DEF runAgentTurn, cmdClear, cancelled, finish
<1>2. CASE maxStepsExceeded \/ maybeCompact
  BY <1>2 DEF maxStepsExceeded, maybeCompact
<1>3. CASE llmError \/ budgetExhausted
  BY <1>3 DEF llmError, budgetExhausted
<1>4. CASE llmResponse
  <2>1. pc = "llm" /\ asked' = asked + 1 /\ step' = step /\ pc' \in {"stop", "tool"}
    BY <1>4 DEF llmResponse
  <2> QED
    BY <2>1
<1>5. CASE executeTool
  <2>1. pc = "tool" /\ pc' \in {"tool", "run", "approve"} /\ asked' = asked /\ step' = step
    BY <1>5 DEF executeTool, Outcome, toolFrame, decision, evaluate, tierDecision
  <2> QED
    BY <2>1
<1>6. CASE approve \/ reject
  BY <1>6 DEF approve, reject, Outcome, toolFrame
<1>7. CASE runTool
  <2>1. pc = "run" /\ pc' = "tool" /\ asked' = asked /\ step' = step
    BY <1>7 DEF runTool, Outcome, toolFrame
  <2> QED
    BY <2>1
<1>8. CASE processToolCalls
  <2>1. /\ pc = "tool" /\ asked' = asked
        /\ \/ pc' = "loop" /\ step' = step + 1
           \/ pc' = "stop" /\ step' = step
    BY <1>8 DEF processToolCalls
  <2> QED
    BY <2>1
<1>9. CASE stopStep \/ userResponds
  BY <1>9 DEF stopStep, userResponds
<1>10. CASE UNCHANGED vars
  BY <1>10 DEF vars
<1> QED
  BY <1>1, <1>2, <1>3, <1>4, <1>5, <1>6, <1>7, <1>8, <1>9, <1>10
  DEF Next, LoopStep, UserStep

(* The loop implements the turn its callers rely on: every action is a     *)
(* step of AgentTurn or leaves its variables alone.  A request is within   *)
(* the limit because it belongs to a step of its own.                      *)
THEOREM LoopImplementsTurn == Spec => TurnProtocol
<1>1. Init => RequestPerStep /\ Turn!TurnInit
  BY DEF Init, RequestPerStep, Turn!TurnInit, phase
<1>2. TypeOK /\ RequestPerStep /\ [Next]_vars => [Turn!TurnNext]_Turn!turnVars
  <2> SUFFICES ASSUME TypeOK, RequestPerStep, [Next]_vars
               PROVE  Turn!TurnNext \/ UNCHANGED Turn!turnVars
    OBVIOUS
  <2> USE LoopAssumption DEF TypeOK, phase
  <2>1. CASE runAgentTurn
    BY <2>1 DEF runAgentTurn, Turn!TurnNext, Turn!Begin
  <2>2. CASE cmdClear \/ maxStepsExceeded \/ maybeCompact
    BY <2>2 DEF cmdClear, maxStepsExceeded, maybeCompact, Turn!turnVars
  <2>3. CASE cancelled
    BY <2>3 DEF cancelled, Place, Turn!TurnNext, Turn!Cancel
  <2>4. CASE llmError \/ budgetExhausted \/ llmResponse
    <3>1. /\ pc = "llm" /\ pc' \in {"stop", "tool"}
          /\ asked' = asked + 1 /\ turns' = turns /\ done' = done
      BY <2>4 DEF llmError, budgetExhausted, llmResponse
    <3>2. asked < MaxSteps
      BY <3>1 DEF RequestPerStep
    <3> QED
      BY <3>1, <3>2 DEF Turn!TurnNext, Turn!Request
  <2>5. CASE executeTool
    <3>1. /\ pc = "tool" /\ pc' \in {"tool", "run", "approve"}
          /\ asked' = asked /\ turns' = turns /\ done' = done
      BY <2>5 DEF executeTool, Outcome, toolFrame, decision, evaluate, tierDecision
    <3> QED
      BY <3>1 DEF Turn!TurnNext, Turn!Ask, Turn!turnVars
  <2>6. CASE approve \/ reject \/ userResponds
    BY <2>6 DEF approve, reject, userResponds, Outcome, toolFrame, Turn!TurnNext, Turn!Answered
  <2>7. CASE runTool \/ processToolCalls
    <3>1. /\ pc \in {"run", "tool"} /\ pc' \in {"tool", "loop", "stop"}
          /\ asked' = asked /\ turns' = turns /\ done' = done
      BY <2>7 DEF runTool, processToolCalls, Outcome, toolFrame
    <3> QED
      BY <3>1 DEF Turn!turnVars
  <2>8. CASE stopStep
    BY <2>8 DEF stopStep, Turn!TurnNext, Turn!Ask, Turn!turnVars
  <2>9. CASE finish
    BY <2>9 DEF finish, Turn!TurnNext, Turn!Report
  <2>10. CASE UNCHANGED vars
    BY <2>10 DEF vars, Turn!turnVars
  <2> QED
    BY <2>1, <2>2, <2>3, <2>4, <2>5, <2>6, <2>7, <2>8, <2>9, <2>10
    DEF Next, LoopStep, UserStep
<1>3. TypeOK /\ RequestPerStep /\ [Next]_vars => RequestPerStep'
  BY RequestStep
<1> QED
  BY LoopTypes, <1>1, <1>2, <1>3, PTL DEF Spec, TurnProtocol, Turn!TurnSpec

-----------------------------------------------------------------------------
(* The budget: BudgetEnforced is inductive given the types.                *)
THEOREM BudgetHolds == Spec => []BudgetEnforced
<1>1. Init => BudgetEnforced
  BY LoopAssumption DEF Init, BudgetEnforced
<1>2. TypeOK /\ BudgetEnforced /\ [Next]_vars => BudgetEnforced'
  <2> SUFFICES ASSUME TypeOK, BudgetEnforced, [Next]_vars
               PROVE  BudgetEnforced'
    OBVIOUS
  <2> USE LoopAssumption DEF TypeOK, BudgetEnforced
  <2>1. CASE runAgentTurn \/ cmdClear \/ cancelled \/ finish \/ stopStep
    BY <2>1 DEF runAgentTurn, cmdClear, cancelled, finish, stopStep
  <2>2. CASE maxStepsExceeded \/ maybeCompact \/ llmError \/ budgetExhausted
    BY <2>2 DEF maxStepsExceeded, maybeCompact, llmError, budgetExhausted
  <2>3. CASE llmResponse
    <3>1. used' <= TokenLimit /\ pc = "llm" /\ exhausted' = exhausted
      BY <2>3 DEF llmResponse, withinBudget
    <3> QED
      BY <3>1
  <2>4. CASE executeTool \/ approve \/ reject \/ runTool \/ processToolCalls \/ userResponds
    <3>1. /\ used' = used /\ exhausted' = exhausted
          /\ pc \in {"tool", "approve", "run", "input"}
      BY <2>4 DEF executeTool, approve, reject, runTool, processToolCalls, userResponds, toolFrame
    <3> QED
      BY <3>1
  <2>5. CASE UNCHANGED vars
    BY <2>5 DEF vars
  <2> QED
    BY <2>1, <2>2, <2>3, <2>4, <2>5 DEF Next, LoopStep, UserStep
<1> QED
  BY LoopTypes, <1>1, <1>2, PTL DEF Spec
-----------------------------------------------------------------------------
(* Authorisation.  While a call is waiting or running, the loop's place    *)
(* says what its decision was.                                             *)
PlaceDecides ==
  /\ pc = "approve" => decision(current) = "RequireApproval"
  /\ pc = "run" => \/ decision(current) = "Allow"
                   \/ /\ decision(current) = "RequireApproval"
                      /\ Len(outcomes) + 1 \in approved

(* The next outcome of a call that ran, or of one that was turned down,    *)
(* keeps ToolsAuthorised.                                                  *)
LEMMA OutcomeAuthorised ==
  ASSUME TypeOK, Position, ToolsAuthorised,
         NEW o \in StepOutcome, Outcome(o), calls' = calls,
         \/ ran' = ran /\ isFailure(o)
         \/ /\ ran' = ran \cup {Len(outcomes) + 1}
            /\ \/ decision(current) = "Allow"
               \/ /\ decision(current) = "RequireApproval"
                  /\ Len(outcomes) + 1 \in approved,
         approved' = approved
  PROVE  ToolsAuthorised' /\ PlaceDecides'
<1>1. /\ outcomes' = Append(outcomes, o) /\ pc' = "tool"
      /\ outcomes \in Seq(StepOutcome)
  BY DEF Outcome, TypeOK
<1>2. /\ DOMAIN outcomes' = DOMAIN outcomes \cup {Len(outcomes) + 1}
      /\ \A i \in DOMAIN outcomes : outcomes'[i] = outcomes[i]
      /\ outcomes'[Len(outcomes) + 1] = o
  BY <1>1
<1>3. \A i : decision(calls[i])' = decision(calls[i])
  BY DEF decision, evaluate, violatesScope, isWriteTool, tierDecision
<1>4. \A i \in ran' : \/ decision(calls[i])' = "Allow"
                      \/ decision(calls[i])' = "RequireApproval" /\ i \in approved'
  BY <1>3 DEF ToolsAuthorised, current
<1>5. \A i \in DOMAIN outcomes' : i \notin ran' => isFailure(outcomes'[i])
  BY <1>2 DEF ToolsAuthorised, isFailure
<1>6. ToolsAuthorised'
  BY <1>3, <1>4, <1>5 DEF ToolsAuthorised, isFailure, decision, evaluate,
     violatesScope, isWriteTool, tierDecision
<1> QED
  BY <1>1, <1>6 DEF PlaceDecides

(* A tool call runs only on a permission, an Allow or the user's approval  *)
(* of that call, for every guardrail configuration.                        *)
THEOREM AuthorisationHolds == Spec => []ToolsAuthorised
<1> DEFINE Inv == ToolsAuthorised /\ PlaceDecides
<1>1. Init => Inv
  BY DEF Init, ToolsAuthorised, PlaceDecides
<1>2. TypeOK /\ Position /\ Inv /\ [Next]_vars => Inv'
  <2> SUFFICES ASSUME TypeOK, Position, Inv, [Next]_vars
               PROVE  Inv'
    OBVIOUS
  <2>1. CASE runAgentTurn \/ cmdClear \/ cancelled \/ finish \/ maxStepsExceeded
             \/ maybeCompact \/ llmError \/ budgetExhausted \/ stopStep
             \/ userResponds \/ processToolCalls
    <3>1. /\ UNCHANGED <<calls, outcomes, ran, approved>>
          /\ pc' \notin {"run", "approve"}
      BY <2>1 DEF runAgentTurn, cmdClear, cancelled, finish, maxStepsExceeded,
         maybeCompact, llmError, budgetExhausted, stopStep, userResponds,
         processToolCalls, stepVars
    <3> QED
      BY <3>1 DEF ToolsAuthorised, PlaceDecides, isFailure, decision, evaluate,
         violatesScope, isWriteTool, tierDecision
  <2>2. CASE llmResponse
    <3>1. outcomes' = <<>> /\ ran' = {} /\ pc' \in {"stop", "tool"}
      BY <2>2 DEF llmResponse
    <3> QED
      BY <3>1 DEF ToolsAuthorised, PlaceDecides
  <2>3. CASE executeTool
    <3>1. CASE UNCHANGED outcomes
      <4>1. /\ UNCHANGED <<calls, outcomes, ran, approved>>
            /\ pc' = "approve" => decision(current) = "RequireApproval"
            /\ pc' = "run" => decision(current) = "Allow"
        BY <2>3, <3>1 DEF executeTool, toolFrame, Outcome, decision, evaluate, tierDecision
      <4> QED
        BY <4>1 DEF ToolsAuthorised, PlaceDecides, isFailure, current, decision,
           evaluate, violatesScope, isWriteTool, tierDecision
    <3>2. CASE \E o \in {"Policy", "StepNeedsReplan"} : Outcome(o)
      BY <2>3, <3>2, OutcomeAuthorised
      DEF executeTool, toolFrame, StepOutcome, FailureClass, isFailure
    <3> QED
      BY <2>3, <3>1, <3>2 DEF executeTool, decision, evaluate, tierDecision
  <2>4. CASE approve
    <3>1. /\ UNCHANGED <<calls, outcomes, ran>>
          /\ approved' = approved \cup {Len(outcomes) + 1}
          /\ pc' = "run" /\ decision(current) = "RequireApproval"
      BY <2>4 DEF approve, toolFrame, PlaceDecides
    <3> QED
      BY <3>1 DEF ToolsAuthorised, PlaceDecides, isFailure, current, decision,
         evaluate, violatesScope, isWriteTool, tierDecision
  <2>5. CASE reject
    BY <2>5, OutcomeAuthorised
    DEF reject, toolFrame, StepOutcome, FailureClass, isFailure
  <2>6. CASE runTool
    <3>1. PICK o \in StepOutcome : Outcome(o)
      BY <2>6 DEF runTool, StepOutcome, FailureClass, ToolErrorClass
    <3>2. \/ decision(current) = "Allow"
          \/ decision(current) = "RequireApproval" /\ Len(outcomes) + 1 \in approved
      BY <2>6 DEF runTool, PlaceDecides
    <3> QED
      BY <2>6, <3>1, <3>2, OutcomeAuthorised DEF runTool, toolFrame
  <2>7. CASE UNCHANGED vars
    BY <2>7 DEF vars, stepVars, ToolsAuthorised, PlaceDecides, isFailure, current,
       decision, evaluate, violatesScope, isWriteTool, tierDecision
  <2> QED
    BY <2>1, <2>2, <2>3, <2>4, <2>5, <2>6, <2>7 DEF Next, LoopStep, UserStep
<1> QED
  BY LoopTypes, <1>1, <1>2, PTL DEF Spec
-----------------------------------------------------------------------------
(* The pairing of tool calls and results, for the first k messages of h.    *)
PairedUpTo(h, k) ==
  \A i \in 1..k :
    /\ h[i].role = "assistant" /\ h[i].n > 0 => i < k /\ h[i + 1] = ToolResults(h[i].n)
    /\ h[i].role = "tool" => i > 1 /\ h[i - 1] = Assistant(h[i].n)

(* Between an answer with tool calls and its results the history is paired *)
(* but for its last message, which is that answer.                         *)
PairedInv ==
  /\ pc \in {"tool", "run", "approve"} =>
       /\ Len(history) > 0
       /\ history[Len(history)] = Assistant(Len(calls))
       /\ PairedUpTo(history, Len(history) - 1)
  /\ pc \notin {"tool", "run", "approve", "cancelled"} => PairedUpTo(history, Len(history))

(* Appending a message keeps the pairing of what was there before.         *)
LEMMA PairedAppend ==
  ASSUME NEW h \in Seq(Message), NEW m \in Message, NEW k \in 0..Len(h), PairedUpTo(h, k)
  PROVE  PairedUpTo(Append(h, m), k)
<1>1. \A i \in 1..Len(h) : Append(h, m)[i] = h[i]
  OBVIOUS
<1> QED
  BY <1>1 DEF PairedUpTo

(* A message without calls or results keeps a paired history paired.       *)
LEMMA PairedPlain ==
  ASSUME NEW h \in Seq(Message), NEW m \in Message, PairedUpTo(h, Len(h)),
         m.role = "assistant" => m.n = 0, m.role # "tool"
  PROVE  PairedUpTo(Append(h, m), Len(Append(h, m)))
<1>1. Len(h) \in Nat /\ Len(Append(h, m)) = Len(h) + 1 /\ Append(h, m)[Len(h) + 1] = m
  OBVIOUS
<1>2. \A i \in 1..Len(h) : Append(h, m)[i] = h[i]
  OBVIOUS
<1> QED
  BY <1>1, <1>2 DEF PairedUpTo, ToolResults, Assistant

(* The results of an answer's calls restore the pairing.                   *)
LEMMA PairedResults ==
  ASSUME NEW h \in Seq(Message), Len(h) > 0, NEW n \in 1..MaxCalls,
         h[Len(h)] = Assistant(n), PairedUpTo(h, Len(h) - 1)
  PROVE  PairedUpTo(Append(h, ToolResults(n)), Len(Append(h, ToolResults(n))))
<1> DEFINE g == Append(h, ToolResults(n))
<1>1. Len(h) \in Nat /\ Len(g) = Len(h) + 1 /\ g[Len(h) + 1] = ToolResults(n)
  OBVIOUS
<1>2. \A i \in 1..Len(h) : g[i] = h[i]
  OBVIOUS
<1>3. g[Len(h)].role = "assistant" /\ g[Len(h)].n = n /\ g[Len(h)] = Assistant(n)
  BY <1>1, <1>2 DEF Assistant
<1>4. g[Len(h) + 1].role = "tool" /\ g[Len(h) + 1].n = n
  BY <1>1 DEF ToolResults
<1> SUFFICES ASSUME NEW i \in 1..Len(g)
             PROVE  /\ g[i].role = "assistant" /\ g[i].n > 0 =>
                         i < Len(g) /\ g[i + 1] = ToolResults(g[i].n)
                    /\ g[i].role = "tool" => i > 1 /\ g[i - 1] = Assistant(g[i].n)
  BY DEF PairedUpTo
<1> HIDE DEF g
<1>5. CASE i = Len(h) + 1
  BY <1>1, <1>3, <1>4, <1>5
<1>6. CASE i = Len(h)
  BY <1>1, <1>3, <1>6
<1>7. CASE i < Len(h)
  <2>1. i \in 1..(Len(h) - 1) /\ i \in 1..Len(h) /\ i + 1 \in 1..Len(h)
    BY <1>1, <1>7
  <2>2. g[i] = h[i] /\ g[i + 1] = h[i + 1]
    BY <1>2, <2>1
  <2>3. i > 1 => g[i - 1] = h[i - 1]
    BY <1>1, <1>2, <2>1
  <2>4. /\ h[i].role = "assistant" /\ h[i].n > 0 =>
              i < Len(h) /\ h[i + 1] = ToolResults(h[i].n)
        /\ h[i].role = "tool" => i > 1 /\ h[i - 1] = Assistant(h[i].n)
    BY <2>1, SMT DEF PairedUpTo
  <2> QED
    BY <1>1, <1>7, <2>1, <2>2, <2>3, <2>4
<1> QED
  BY <1>1, <1>5, <1>6, <1>7

(* A history of one summary, or of nothing, is paired.                     *)
LEMMA PairedShort == PairedUpTo(<<>>, Len(<<>>)) /\ PairedUpTo(<<Summary>>, Len(<<Summary>>))
BY DEF PairedUpTo, Summary

(* The history stays paired however steps and turns end. *)
THEOREM HistoryPairing == Spec => []HistoryPaired
<1>1. Init => PairedInv
  BY PairedShort DEF Init, PairedInv
<1>2. TypeOK /\ Position /\ PairedInv /\ [Next]_vars => PairedInv'
  <2> SUFFICES ASSUME TypeOK, Position, PairedInv, [Next]_vars
               PROVE  PairedInv'
    OBVIOUS
  <2>0. /\ history \in Seq(Message) /\ Len(history) \in Nat
        /\ User \in Message /\ User.role = "user"
        /\ Len(calls) \in 0..MaxCalls
    BY ResponseCalls, LoopAssumption DEF TypeOK, User, Message
  <2>1. CASE runAgentTurn \/ userResponds
    <3>1. /\ history' = Append(history, User) /\ pc' = "loop"
          /\ PairedUpTo(history, Len(history))
      BY <2>1 DEF runAgentTurn, userResponds, PairedInv
    <3> QED
      BY <2>0, <3>1, PairedPlain DEF PairedInv
  <2>2. CASE cmdClear \/ maybeCompact
    <3>1. /\ pc \in {"idle", "loop"} /\ pc' \in {"idle", "llm"}
          /\ history' \in {history, <<>>, <<Summary>>}
      BY <2>2 DEF cmdClear, maybeCompact, compact
    <3> QED
      BY <3>1, PairedShort DEF PairedInv
  <2>3. CASE cancelled
    BY <2>3 DEF cancelled, PairedInv
  <2>4. CASE finish \/ maxStepsExceeded \/ llmError \/ budgetExhausted \/ stopStep
    <3>1. /\ pc \in {"finish", "loop", "llm", "stop"}
          /\ pc' \in {"idle", "finish", "stop", "input"}
          /\ history' = history
      BY <2>4 DEF finish, maxStepsExceeded, llmError, budgetExhausted, stopStep
    <3> QED
      BY <3>1 DEF PairedInv
  <2>5. CASE llmResponse
    <3>1. PICK response \in Responses :
            /\ history' = Append(history, Assistant(Len(response)))
            /\ calls' = response
            /\ \/ response = <<>> /\ pc' = "stop"
               \/ response # <<>> /\ pc' = "tool"
      BY <2>5 DEF llmResponse
    <3>2. PairedUpTo(history, Len(history))
      BY <2>5 DEF llmResponse, PairedInv
    <3>3. Assistant(Len(response)) \in Message /\ response \in Seq(Calls)
      BY <3>1, ResponseCalls DEF Assistant, Message
    <3>4. CASE pc' = "stop"
      <4>1. Assistant(Len(response)).n = 0 /\ Assistant(Len(response)).role # "tool"
        BY <3>1, <3>4 DEF Assistant
      <4> QED
        BY <2>0, <3>1, <3>2, <3>3, <3>4, <4>1, PairedPlain DEF PairedInv
    <3>5. CASE pc' = "tool"
      <4>1. PairedUpTo(history', Len(history))
        BY <2>0, <3>1, <3>2, <3>3, PairedAppend
      <4>2. Len(history') = Len(history) + 1 /\ history'[Len(history) + 1] = Assistant(Len(calls'))
        BY <2>0, <3>1, <3>3
      <4> QED
        BY <2>0, <3>5, <4>1, <4>2 DEF PairedInv
    <3> QED
      BY <3>1, <3>4, <3>5
  <2>6. CASE executeTool \/ approve \/ reject \/ runTool
    <3>1. /\ pc \in {"tool", "run", "approve"} /\ pc' \in {"tool", "run", "approve"}
          /\ history' = history /\ calls' = calls
      BY <2>6 DEF executeTool, approve, reject, runTool, Outcome, toolFrame,
         decision, evaluate, tierDecision
    <3> QED
      BY <3>1 DEF PairedInv
  <2>7. CASE processToolCalls
    <3>1. /\ pc = "tool" /\ pc' \in {"loop", "stop"}
          /\ history' = Append(history, ToolResults(Len(calls)))
      BY <2>7 DEF processToolCalls, AllExecuted
    <3>2. Len(calls) \in 1..MaxCalls
      BY <2>0, <3>1 DEF Position
    <3> QED
      BY <2>0, <3>1, <3>2, PairedResults DEF PairedInv
  <2>8. CASE UNCHANGED vars
    BY <2>8 DEF vars, stepVars, PairedInv
  <2> QED
    BY <2>1, <2>2, <2>3, <2>4, <2>5, <2>6, <2>7, <2>8 DEF Next, LoopStep, UserStep
<1>3. PairedInv => HistoryPaired
  BY DEF PairedInv, HistoryPaired, Paired, PairedUpTo
<1> QED
  BY LoopTypes, <1>1, <1>2, <1>3, PTL DEF Spec

-----------------------------------------------------------------------------
(* The signal of a step is Blocked after three failures, and only then.    *)
LEMMA StuckSignal ==
  ASSUME TypeOK, Position, pc = "tool", AllExecuted
  PROVE  stepSignal = "Blocked" <=> failures >= 3
<1> DEFINE S == {assessWithHistory(failures, outcomes[i]) : i \in DOMAIN outcomes}
<1>1. Len(outcomes) > 0 /\ outcomes \in Seq(StepOutcome)
  BY ResponseCalls DEF TypeOK, Position, AllExecuted
<1>2. 1 \in DOMAIN outcomes
  BY <1>1
<1>3. CASE failures >= 3
  <2>1. S = {"Blocked"}
    BY <1>2, <1>3 DEF assessWithHistory
  <2>2. \A s \in {"Blocked"} : controlSignalSeverity[s] <= controlSignalSeverity[s]
    BY DEF controlSignalSeverity, ControlSignal
  <2> QED
    BY <1>3, <2>1, <2>2 DEF stepSignal, worstSignal
<1>4. CASE ~(failures >= 3)
  <2>1. S \subseteq {"Continue", "NeedsInput"} /\ S # {}
    BY <1>2, <1>4 DEF assessWithHistory, assessControlSignal
  <2>2. /\ controlSignalSeverity["Continue"] = 1
        /\ controlSignalSeverity["NeedsInput"] = 2
    BY DEF controlSignalSeverity, ControlSignal
  <2>3. \E s \in S : \A t \in S : controlSignalSeverity[t] <= controlSignalSeverity[s]
    <3> HIDE DEF S
    <3>1. CASE "NeedsInput" \in S
      BY <2>1, <2>2, <3>1
    <3>2. CASE "NeedsInput" \notin S
      <4>1. S = {"Continue"}
        BY <2>1, <3>2
      <4> QED
        BY <2>2, <4>1
    <3> QED
      BY <3>1, <3>2
  <2>4. worstSignal(S) \in S
    <3> HIDE DEF S
    <3> QED
      BY <2>3 DEF worstSignal
  <2>5. stepSignal = worstSignal(S)
    BY DEF stepSignal
  <2> HIDE DEF S
  <2> QED
    BY <1>4, <2>1, <2>4, <2>5
<1> QED
  BY <1>3, <1>4

(* A step ends the turn as Blocked exactly when the three steps before it  *)
(* failed and it asked for no edit (assessWithHistory, verifyStepResult).  *)
THEOREM LoopDetection == Spec => StuckStops
<1> DEFINE Edits == \E i \in DOMAIN calls : modifies(calls[i])
           A == pc = "tool" /\ pc' \in {"loop", "stop"} =>
                  (pc' = "stop" /\ signal' = "Blocked" <=> failures >= 3 /\ ~Edits)
<1>1. TypeOK /\ Position /\ [Next]_vars => [A]_vars
  <2> SUFFICES ASSUME TypeOK, Position, Next, pc = "tool", pc' \in {"loop", "stop"}
               PROVE  pc' = "stop" /\ signal' = "Blocked" <=> failures >= 3 /\ ~Edits
    OBVIOUS
  <2>1. processToolCalls
    <3>1. ~executeTool
      BY DEF executeTool, Outcome, decision, evaluate, tierDecision
    <3>2. ~runAgentTurn /\ ~cmdClear /\ ~cancelled /\ ~UserStep
      BY DEF runAgentTurn, cmdClear, cancelled, UserStep, approve, reject, userResponds
    <3>3. ~maxStepsExceeded /\ ~maybeCompact /\ ~llmError /\ ~budgetExhausted /\ ~llmResponse
      BY DEF maxStepsExceeded, maybeCompact, llmError, budgetExhausted, llmResponse
    <3>4. ~runTool /\ ~stopStep /\ ~finish
      BY DEF runTool, stopStep, finish
    <3> QED
      BY <3>1, <3>2, <3>3, <3>4 DEF Next, LoopStep
  <2>2. PICK verdict \in Verdicts :
          \/ /\ verifyStepResult(stepSignal, verdict) \in {"Continue", "NeedsInput"}
             /\ pc' = "loop"
          \/ /\ verifyStepResult(stepSignal, verdict) \in {"Done", "Blocked"}
             /\ pc' = "stop"
             /\ signal' = verifyStepResult(stepSignal, verdict)
    BY <2>1 DEF processToolCalls
  <2>3. stepSignal = "Blocked" <=> failures >= 3
    BY <2>1, StuckSignal DEF processToolCalls
  <2>4. CASE Edits
    <3>1. verdict \in {"failed", "passed"}
      BY <2>2, <2>4 DEF Verdicts
    <3>2. verifyStepResult(stepSignal, verdict) \in {"Continue", "Done"}
      BY <3>1 DEF verifyStepResult
    <3> QED
      BY <2>2, <2>4, <3>2
  <2>5. CASE ~Edits
    <3>1. verdict = "none"
      BY <2>2, <2>5 DEF Verdicts
    <3>2. verifyStepResult(stepSignal, verdict) = stepSignal
      BY <3>1 DEF verifyStepResult
    <3> QED
      BY <2>2, <2>3, <2>5, <3>2
  <2> QED
    BY <2>4, <2>5
<1>2. [][A]_vars => StuckStops
  BY DEF StuckStops
<1> QED
  BY LoopTypes, <1>1, <1>2, PTL DEF Spec
=============================================================================
