------------------------------ MODULE AgentLoop ------------------------------
(***************************************************************************)
(* The agent loop (AgentLoop.hs) with the parts it calls on every step:    *)
(* signal assessment (Signal.hs, Types.hs), guardrails (Guardrails.hs),    *)
(* verification (Verification.hs), compaction (Compaction.hs) and the      *)
(* session budget (Platform/CostTracker.hs).                               *)
(*                                                                         *)
(* One agent runs turn after turn: a turn is a user message, then steps of *)
(* one LLM request and the tool calls it answered with, until a signal     *)
(* ends it.  What the LLM answers, what a tool returns, what the           *)
(* verification finds and what the user decides are choices; everything    *)
(* the loop does with them is the code's.  Texts are left out, so a        *)
(* ControlSignal is its constructor and a message is who wrote it and how  *)
(* many tool calls or tool results it carries.                             *)
(***************************************************************************)
EXTENDS Naturals, Sequences

CONSTANTS
  Calls,        \* the tool calls an LLM may make: [tool, secret, outside, path]
  Registered,   \* names in the tool registry
  ReadOnly,     \* registered tools whose risk tier is ReadOnly
  LocalWrite,   \* registered tools whose risk tier is LocalWrite
  DenyList,     \* GuardrailConfig.denyList
  AllowList,    \* GuardrailConfig.allowList
  Permitted,    \* tools with a stored permission (loaded when the agent is set up)
  Interactive,  \* the server's environment: envWaitForInput/Approval are Just
  MaxSteps,     \* budgets.maxSteps
  TokenLimit,   \* budgets.sessionTokenMax
  CompactAt,    \* history length at which shouldCompact holds
  MaxCalls,     \* bound: tool calls in one response
  MaxTokens,    \* bound: tokens of one response
  MaxTurns      \* bound: turns of one run

ASSUME LoopAssumption ==
  /\ \A c \in Calls : /\ c.secret \in BOOLEAN
                      /\ c.outside \in BOOLEAN
                      /\ c.path \in BOOLEAN
  /\ Interactive \in BOOLEAN
  /\ MaxSteps \in Nat
  /\ TokenLimit \in Nat
  /\ CompactAt \in Nat
  /\ MaxCalls \in Nat
  /\ MaxTokens \in Nat
  /\ MaxTurns \in Nat

VARIABLES
  pc,         \* where the loop is
  turns,      \* turns begun (ssTurnCount, not reset by /clear)
  step,       \* tsStep
  failures,   \* trailing failures in tsRecentOutcomes
  history,    \* ssHistory
  calls,      \* the tool calls of the current response
  outcomes,   \* outcomes of the calls executed so far
  signal,     \* the ControlSignal a step stopped with
  used,       \* tokens the cost tracker has recorded for the session
  asked,      \* history: LLM requests of this turn
  ran,        \* history: calls of this response handed to the registry
  approved,   \* history: calls of this response the user approved
  exhausted,  \* history: the budget was found exhausted in this turn
  done        \* history: AgentDone events emitted

stepVars == <<calls, outcomes, ran, approved>>
vars == <<pc, turns, step, failures, history, stepVars, signal, used, asked,
          exhausted, done>>

-----------------------------------------------------------------------------
(* Signals and outcomes.                                                    *)

FailureClass == {"Transient", "Validation", "Precondition", "Execution", "Policy"}
StepOutcome == FailureClass \cup {"StepSuccess", "StepNeedsReplan"}
ControlSignal == {"Done", "Continue", "NeedsInput", "Blocked"}

controlSignalSeverity ==
  [s \in ControlSignal |->
     CASE s = "Done" -> 0 [] s = "Continue" -> 1
       [] s = "NeedsInput" -> 2 [] s = "Blocked" -> 3]

worstSignal(S) ==
  CHOOSE s \in S : \A t \in S : controlSignalSeverity[t] <= controlSignalSeverity[s]

assessControlSignal(o) ==
  IF o \in {"StepSuccess", "Transient"} THEN "Continue" ELSE "NeedsInput"

isFailure(o) == o # "StepSuccess"

\* countConsecutiveFailures of the recent outcomes with o appended.
countConsecutiveFailures(n, o) == IF isFailure(o) THEN n + 1 ELSE 0

\* Mutant of assessWithHistory: one failure more is tolerated.
assessWithHistoryLate(n, o) == IF n > 3 THEN "Blocked" ELSE assessControlSignal(o)

assessWithHistory(n, o) == IF n >= 3 THEN "Blocked" ELSE assessControlSignal(o)

\* The classes classifyLlmError and classifyToolError can produce.
LlmErrorClass == FailureClass
ToolErrorClass == {"Validation", "Execution", "Transient", "Policy"}

\* Mutant of completionSignal: the stop reason is passed on as a signal.
completionSignalRaw(endTurn) == IF endTurn THEN "Done" ELSE "MaxTokens"

\* EndTurn is the only stop reason that counts as completion.
completionSignal(endTurn) == IF endTurn THEN "Done" ELSE "Continue"

-----------------------------------------------------------------------------
(* Guardrails: what executeTool does with a call.                           *)

isWriteTool(c) == c.tool \in {"write", "edit", "shell", "git"}
violatesScope(c) == isWriteTool(c) /\ c.outside

\* A tool that is not registered has the tier SideEffect.
tierDecision(c) ==
  IF c.tool \in Registered /\ c.tool \in ReadOnly \cup LocalWrite
  THEN "Allow" ELSE "RequireApproval"

evaluate(c) ==
  IF c.tool \in DenyList THEN "Deny"
  ELSE IF c.tool \in AllowList THEN "Allow"
  ELSE IF c.secret \/ violatesScope(c) THEN "Deny"
  ELSE tierDecision(c)

decision(c) == IF c.tool \in Permitted THEN "Allow" ELSE evaluate(c)

-----------------------------------------------------------------------------
(* Verification of a step's edits.                                          *)

modifies(c) == c.tool \in {"edit", "write"} /\ c.path

(* What verifyStepResult may find for the current calls: nothing to check, *)
(* a syntax error or a failed test run, or a clean pass.  The test run is  *)
(* the registry's run_tests; without that tool it counts as failed.        *)
Verdicts ==
  IF \E i \in DOMAIN calls : modifies(calls[i])
  THEN {"failed"} \cup (IF "run_tests" \in Registered THEN {"passed"} ELSE {})
  ELSE {"none"}

verifyStepResult(sig, verdict) ==
  CASE verdict = "none" -> sig
    [] verdict = "failed" -> "Continue"
    [] verdict = "passed" -> "Done"

\* The signal of the whole step: the worst over its outcomes.
stepSignal == worstSignal({assessWithHistory(failures, outcomes[i]) : i \in DOMAIN outcomes})

-----------------------------------------------------------------------------
Message == [role : {"user", "assistant", "tool", "system"}, n : 0..MaxCalls]
User == [role |-> "user", n |-> 0]
Summary == [role |-> "system", n |-> 0]
Assistant(k) == [role |-> "assistant", n |-> k]
ToolResults(k) == [role |-> "tool", n |-> k]

Responses == UNION {[1..k -> Calls] : k \in 0..MaxCalls}
shouldCompact == Len(history) >= CompactAt

\* What the history may be afterwards: a failed compaction keeps it, a
\* successful one replaces all of it by a summary.
compact == {history, <<Summary>>}

\* doRecord counts the tokens of an answer unless they pass the limit.
withinBudget(tokens) == used + tokens <= TokenLimit

AllExecuted == Len(outcomes) = Len(calls)
current == calls[Len(outcomes) + 1]
Place == {"idle", "loop", "llm", "tool", "approve", "run", "stop", "input",
          "finish", "cancelled"}

TypeOK ==
  /\ pc \in Place
  /\ turns \in 0..MaxTurns
  /\ step \in Nat
  /\ failures \in Nat
  /\ history \in Seq(Message)
  /\ calls \in Responses
  /\ outcomes \in Seq(StepOutcome)
  /\ signal \in ControlSignal
  /\ used \in Nat
  /\ asked \in Nat
  /\ ran \in SUBSET (1..MaxCalls)
  /\ approved \in SUBSET (1..MaxCalls)
  /\ exhausted \in BOOLEAN
  /\ done \in Nat

Init ==
  /\ pc = "idle"
  /\ turns = 0
  /\ step = 0
  /\ failures = 0
  /\ history = <<>>
  /\ calls = <<>>
  /\ outcomes = <<>>
  /\ signal = "Continue"
  /\ used = 0
  /\ asked = 0
  /\ ran = {}
  /\ approved = {}
  /\ exhausted = FALSE
  /\ done = 0

-----------------------------------------------------------------------------
(* Turns.                                                                   *)

\* The task becomes a user message; a turn starts with no recent outcomes.
runAgentTurn ==
  /\ pc = "idle" /\ turns < MaxTurns
  /\ pc' = "loop"
  /\ turns' = turns + 1
  /\ step' = 0
  /\ failures' = 0
  /\ history' = Append(history, User)
  /\ asked' = 0
  /\ exhausted' = FALSE
  /\ UNCHANGED <<stepVars, signal, used, done>>

\* /clear in the REPL: the next turn starts from an empty session.
cmdClear ==
  /\ pc = "idle" /\ ~Interactive
  /\ history # <<>>
  /\ history' = <<>>
  /\ UNCHANGED <<pc, turns, step, failures, stepVars, signal, used, asked,
                 exhausted, done>>

\* finish is the way out of every turn that is not cancelled.
finish ==
  /\ pc = "finish"
  /\ pc' = "idle"
  /\ done' = done + 1
  /\ UNCHANGED <<turns, step, failures, history, stepVars, signal, used, asked,
                 exhausted>>

\* The server cancels the agent's thread: the turn is over without an event.
cancelled ==
  /\ Interactive
  /\ pc \notin {"idle", "cancelled"}
  /\ pc' = "cancelled"
  /\ UNCHANGED <<turns, step, failures, history, stepVars, signal, used, asked,
                 exhausted, done>>

-----------------------------------------------------------------------------
(* The head of a step.                                                      *)

maxStepsExceeded ==
  /\ pc = "loop" /\ step >= MaxSteps
  /\ pc' = "finish"
  /\ signal' = "Blocked"
  /\ UNCHANGED <<turns, step, failures, history, stepVars, used, asked,
                 exhausted, done>>

maybeCompact ==
  /\ pc = "loop" /\ step < MaxSteps
  /\ pc' = "llm"
  /\ history' \in IF shouldCompact THEN compact ELSE {history}
  /\ UNCHANGED <<turns, step, failures, stepVars, signal, used, asked,
                 exhausted, done>>

\* Mutant of llmError: a transient failure is tried again without counting a step.
llmErrorRetries ==
  /\ pc = "llm"
  /\ \E cls \in LlmErrorClass :
       IF cls = "Transient"
       THEN pc' = "loop" /\ UNCHANGED <<asked, signal>>
       ELSE pc' = "stop" /\ asked' = asked + 1 /\ signal' = assessControlSignal(cls)
  /\ UNCHANGED <<turns, step, failures, history, stepVars, used, exhausted, done>>

\* The request fails: its class decides the signal the step stops with.
llmError ==
  /\ pc = "llm"
  /\ pc' = "stop"
  /\ asked' = asked + 1
  /\ \E cls \in LlmErrorClass : signal' = assessControlSignal(cls)
  /\ UNCHANGED <<turns, step, failures, history, stepVars, used, exhausted, done>>

\* Mutant of budgetExhausted: the answer is kept although its calls are not run.
budgetExhaustedKeepsAnswer ==
  /\ pc = "llm"
  /\ pc' = "stop"
  /\ asked' = asked + 1
  /\ \E tokens \in 0..MaxTokens : ~withinBudget(tokens)
  /\ \E response \in Responses : history' = Append(history, Assistant(Len(response)))
  /\ signal' = "Blocked"
  /\ exhausted' = TRUE
  /\ UNCHANGED <<turns, step, failures, stepVars, used, done>>

\* doRecord refuses the tokens: they are not counted, the answer is dropped.
budgetExhausted ==
  /\ pc = "llm"
  /\ pc' = "stop"
  /\ asked' = asked + 1
  /\ \E tokens \in 0..MaxTokens : ~withinBudget(tokens)
  /\ signal' = "Blocked"
  /\ exhausted' = TRUE
  /\ UNCHANGED <<turns, step, failures, history, stepVars, used, done>>

\* Mutant of llmResponse: the tokens are recorded without looking at the limit.
llmResponseUnchecked ==
  /\ pc = "llm"
  /\ asked' = asked + 1
  /\ \E tokens \in 0..MaxTokens : used' = used + tokens
  /\ \E response \in Responses :
       /\ history' = Append(history, Assistant(Len(response)))
       /\ calls' = response
       /\ \/ /\ response = <<>>
             /\ pc' = "stop"
             /\ \E endTurn \in BOOLEAN : signal' = completionSignal(endTurn)
          \/ response # <<>> /\ pc' = "tool" /\ signal' = signal
  /\ outcomes' = <<>>
  /\ ran' = {}
  /\ approved' = {}
  /\ UNCHANGED <<turns, step, failures, exhausted, done>>

\* The answer is recorded and appended; without tool calls it ends the step.
llmResponse ==
  /\ pc = "llm"
  /\ asked' = asked + 1
  /\ \E tokens \in 0..MaxTokens : withinBudget(tokens) /\ used' = used + tokens
  /\ \E response \in Responses :
       /\ history' = Append(history, Assistant(Len(response)))
       /\ calls' = response
       /\ \/ /\ response = <<>>
             /\ pc' = "stop"
             /\ \E endTurn \in BOOLEAN : signal' = completionSignal(endTurn)
          \/ response # <<>> /\ pc' = "tool" /\ signal' = signal
  /\ outcomes' = <<>>
  /\ ran' = {}
  /\ approved' = {}
  /\ UNCHANGED <<turns, step, failures, exhausted, done>>

-----------------------------------------------------------------------------
(* Tool calls, one after the other.                                         *)

Outcome(o) ==
  /\ outcomes' = Append(outcomes, o)
  /\ pc' = "tool"

toolFrame == <<turns, step, failures, history, calls, signal, used, asked,
               exhausted, done>>

\* Mutant of executeTool: one approval covers the rest of the response.
executeToolReusesApproval ==
  /\ pc = "tool" /\ ~AllExecuted
  /\ CASE decision(current) = "Deny" -> Outcome("Policy")
       [] decision(current) = "Allow" -> pc' = "run" /\ UNCHANGED outcomes
       [] decision(current) = "RequireApproval" ->
            /\ pc' = IF approved = {} THEN "approve" ELSE "run"
            /\ UNCHANGED outcomes
  /\ UNCHANGED <<toolFrame, ran, approved>>

executeTool ==
  /\ pc = "tool" /\ ~AllExecuted
  /\ CASE decision(current) = "Deny" -> Outcome("Policy")
       [] decision(current) = "Allow" -> pc' = "run" /\ UNCHANGED outcomes
       [] decision(current) = "RequireApproval" ->
            IF Interactive THEN pc' = "approve" /\ UNCHANGED outcomes
            ELSE Outcome("StepNeedsReplan")
  /\ UNCHANGED <<toolFrame, ran, approved>>

approve ==
  /\ pc = "approve"
  /\ pc' = "run"
  /\ approved' = approved \cup {Len(outcomes) + 1}
  /\ UNCHANGED <<toolFrame, outcomes, ran>>

reject ==
  /\ pc = "approve"
  /\ Outcome("Policy")
  /\ UNCHANGED <<toolFrame, ran, approved>>

runTool ==
  /\ pc = "run"
  /\ ran' = ran \cup {Len(outcomes) + 1}
  /\ \E o \in IF current.tool \in Registered
                THEN {"StepSuccess"} \cup ToolErrorClass
                ELSE {"Validation"} : Outcome(o)
  /\ UNCHANGED <<toolFrame, approved>>

(* All calls are executed: aggregate, verify, append the results, go on or *)
(* stop.  NeedsInput goes on like Continue.                                *)
processToolCalls ==
  /\ pc = "tool" /\ AllExecuted
  /\ history' = Append(history, ToolResults(Len(outcomes)))
  /\ \E verdict \in Verdicts :
       LET verified == verifyStepResult(stepSignal, verdict) IN
       /\ \/ /\ verified \in {"Continue", "NeedsInput"}
             /\ pc' = "loop"
             /\ step' = step + 1
             /\ failures' = countConsecutiveFailures(failures, outcomes[Len(outcomes)])
             /\ UNCHANGED signal
          \/ /\ verified \in {"Done", "Blocked"}
             /\ pc' = "stop"
             /\ signal' = verified
             /\ UNCHANGED <<step, failures>>
  /\ UNCHANGED <<turns, stepVars, used, asked, exhausted, done>>

-----------------------------------------------------------------------------
(* The end of a step.                                                       *)

stopStep ==
  /\ pc = "stop"
  /\ pc' = IF signal = "NeedsInput" /\ Interactive THEN "input" ELSE "finish"
  /\ UNCHANGED <<turns, step, failures, history, stepVars, signal, used, asked,
                 exhausted, done>>

\* Mutant of userResponds: waiting for the user does not count as a step.
userRespondsFree ==
  /\ pc = "input"
  /\ pc' = "loop"
  /\ history' = Append(history, User)
  /\ UNCHANGED <<turns, step, failures, stepVars, signal, used, asked, exhausted,
                 done>>

\* The user answers a NeedsInput: one more message, one more step.
userResponds ==
  /\ pc = "input"
  /\ pc' = "loop"
  /\ history' = Append(history, User)
  /\ step' = step + 1
  /\ UNCHANGED <<turns, failures, stepVars, signal, used, asked, exhausted,
                 done>>

-----------------------------------------------------------------------------
LoopStep ==
  \/ maxStepsExceeded \/ maybeCompact
  \/ llmError \/ budgetExhausted \/ llmResponse
  \/ executeTool \/ runTool \/ processToolCalls
  \/ stopStep \/ finish

UserStep == approve \/ reject \/ userResponds

Next == runAgentTurn \/ cmdClear \/ cancelled \/ LoopStep \/ UserStep

Spec == Init /\ [][Next]_vars

(* The loop's thread is scheduled, and requests, tools and the verification *)
(* return; a prompt is answered in the end.                                 *)
Fairness == WF_vars(LoopStep) /\ WF_vars(UserStep)
FairSpec == Spec /\ Fairness
-----------------------------------------------------------------------------
(* Properties that hold.                                                    *)

(* Providers reject a conversation in which a tool call has no result or a *)
(* result no call.  Whatever ends a step - an error, the budget, a Blocked *)
(* or Done signal, a compaction - the history that the next request or the *)
(* next turn starts from pairs every assistant message that made k calls   *)
(* with a message of k results right after it (processToolCalls appends    *)
(* the results on every path, callLlm drops an answer it will not process).*)
Paired(h) ==
  \A i \in 1..Len(h) :
    /\ h[i].role = "assistant" /\ h[i].n > 0 =>
         i < Len(h) /\ h[i + 1] = ToolResults(h[i].n)
    /\ h[i].role = "tool" => i > 1 /\ h[i - 1] = Assistant(h[i].n)

HistoryPaired == pc \notin {"tool", "run", "approve", "cancelled"} => Paired(history)

(* A call is handed to the registry only on a stored permission, an Allow, *)
(* or the user's approval of this very call; a call that was not handed    *)
(* over is reported to the LLM as a failure (executeTool).                 *)
ToolsAuthorised ==
  /\ \A i \in ran : \/ decision(calls[i]) = "Allow"
                    \/ decision(calls[i]) = "RequireApproval" /\ i \in approved
  /\ \A i \in DOMAIN outcomes : i \notin ran => isFailure(outcomes[i])

(* The recorded tokens never pass the session limit, and once the limit    *)
(* was hit in a turn no further request is made and no tool runs in it     *)
(* (checkBudget, callLlm).                                                 *)
BudgetEnforced ==
  /\ used <= TokenLimit
  /\ exhausted => pc \in {"stop", "finish", "idle", "cancelled"} /\ signal = "Blocked"

(* "3+ consecutive failures of any class" end a turn as Blocked            *)
(* (Signal.hs): when the three steps before it failed, a step is the last  *)
(* one, whatever its own outcome is, and no step is ended as Blocked after *)
(* fewer.  The exception: a step that asked for an edit is ended by what   *)
(* the verification finds, however often the turn has failed.              *)
StuckStops ==
  [][pc = "tool" /\ pc' \in {"loop", "stop"} =>
       (pc' = "stop" /\ signal' = "Blocked"
          <=> failures >= 3 /\ ~\E i \in DOMAIN calls : modifies(calls[i]))]_vars

(* Every turn comes to an end, whatever the LLM, the tools and the user    *)
(* answer (loop).                                                          *)
TurnEnds == (pc = "loop") ~> (pc \in {"idle", "cancelled"})

(* The loop implements the turn that its callers rely on (AgentTurn): one  *)
(* report per turn, no request beyond the step limit, no step after a      *)
(* cancellation.                                                           *)
phase ==
  CASE pc \in {"idle", "cancelled"} -> pc
    [] pc \in {"input", "approve"} -> "waiting"
    [] OTHER -> "working"

Turn == INSTANCE AgentTurn WITH MaxRequests <- MaxSteps, requests <- asked, reports <- done

TurnProtocol == Turn!TurnSpec

-----------------------------------------------------------------------------
(* What the documentation says, and the code does not do.                   *)

(* Types.hs on Done: "Task complete; evidence justifies the claim".  A     *)
(* step that ends with Done has modified a file.                           *)
DoneJustified ==
  [][pc = "tool" /\ pc' = "stop" /\ signal' = "Done" =>
       \E i \in DOMAIN calls : modifies(calls[i]) /\ outcomes[i] = "StepSuccess"]_vars
=============================================================================
