# A TLA+ model of CodeStar

CodeStar is a coding agent written in Haskell. `codestar-serve` serves agent
sessions to WebSocket clients over JSON-RPC, `codestar` is an interactive
command line. Both run the same agent loop: send the conversation to an LLM,
execute the tool calls it answers with, verify, repeat.

Its repository map is built by tree-sitter, whose C runtime lives in
`src/libs/tree-sitter/cbits` and is compiled into the executables: an incremental
parser, its syntax trees and a query engine.

This directory models the parts that carry that logic and checks them with TLC on
small instances; the main invariants of the server, of the agent loop, of
tree-sitter's lexer and of its range lists are proved with TLAPS for all values of the
constants.

| module | models | source |
|---|---|---|
| `SessionManager` | session map, command handlers, agent threads of `codestar-serve` | `Platform/SessionManager.hs`, `codestar-serve/Server*.hs` |
| `AgentTurn` | abstract: what the server and the REPL rely on when they start a turn | - |
| `AgentLoop` | turns, steps, tool calls, signals, guardrails, verification, compaction, budget | `AgentLoop.hs` and the modules it calls on every step |
| `Length`, `Language`, `Subtree`, `TreeEdit` | positions, parse tables, syntax trees, edits of a tree | `length.h`, `point.h`, `language.[ch]`, `subtree.[ch]` |
| `Stack`, `StackClient` | the graph-structured parse stack and a caller of it | `stack.c` |
| `ParserTokens`, `Parser`, `ParserClient` | lexing and reuse of tokens, the parser, a client that parses, edits, cancels and parses again | `parser.c`, `reusable_node.h`, `reduce_action.h` |
| `RangeArrays` | lists of included ranges: their differences, their edit | `get_changed_ranges.c`, `tree.c` |
| `ChangedRanges` | differences of two trees | `get_changed_ranges.c` |
| `Lexer`, `LexerClient` | the lexer and the scanners that drive it | `lexer.c` |
| `TreeCursor`, `Node`, `TreeClient` | walking a finished tree | `tree_cursor.c`, `node.c` |
| `Query`, `QueryCursor`, `QueryClient` | compiled patterns, the search, a caller of it | `query.c` |
| `SyntaxTree`, `Places` | reference definitions: leaves, scopes, visible children and siblings of a tree | - |
| `SessionManagerProofs`, `SessionAnswersProofs`, `AgentLoopProofs`, `RangeArraysProofs`, `LexerProofs`, `LexerReplayProofs` | theorems and proofs | - |
| `LoopTheorems` | induction over rounds, and that a loop's states are a function of the round | - |
| `MC*` | constants of the TLC instances; `MCLanguage` is the language of the parser's | - |

`PROJECT.json` maps every definition to the lines it models.

## 1. Inventory

Paths are under `src/apps/src/CodeStar/` unless they start with `codestar-` (under
`src/apps/`) or `libs/` (under `src/`).

| component | state | operations | what is hard | what makes it correct |
|---|---|---|---|---|
| Session manager (`Platform/SessionManager.hs`) | `IORef` map id -> session; per session status and thread `TVar`s, input and approval `MVar`s | create, get, respond, approve, reject, destroy; list, reap, shutdownAll (called by no executable) | nothing spans two accesses: every operation is a sequence of single reads and writes that other connections and the agent interleave with | per-user limit; an id is one session; an answer reaches the prompt it was given for; a stop ends the agent; commands return |
| Server commands and session setup (`codestar-serve/`) | connection, handler position, agent thread | CmdStart, CmdRespond, CmdApprove, CmdReject, CmdSetModel, CmdStop, disconnect | the agent thread is forked before its handle is stored; setup and event sinks throw; cancellation is asynchronous | as above |
| Agent loop (`AgentLoop.hs`) | history, compaction state, step count, recent outcomes | runAgentTurn, loop, stepAgent, callLlm, processToolCalls, executeTool, runTool, verifyStepResult, checkBudget, finish | many ways to end a step; waiting for the user inside it; compaction between steps | turns end; calls and results stay paired; a call runs only when authorised; the budget holds |
| Signals (`Signal.hs`, `Types.hs`) | none | assessControlSignal, assessWithHistory, worstSignal, classify*Error | loop detection depends on earlier steps | a stuck turn stops |
| Guardrails (`Guardrails.hs`) | configuration | evaluate | order of the rules; unregistered tools | no call escapes the rules |
| Verification (`Verification.hs`) | configuration | verify: syntax, tests, evidence | its verdict overrides the step's signal | Done means verified work |
| Compaction (`Compaction.hs`) | `CompactionState` | shouldCompact, compact | replaces the history in the middle of a turn | what must survive does; the history stays well formed |
| Cost tracker (`Platform/CostTracker.hs`) | tokens and cost per session, tokens per user | record, getCost, dailyTokens | read, then write what was computed from the read | limits hold; no update is lost |
| Permission store (`Permissions.hs`) | three layers, two of them files | check, grant, revoke | read-modify-write of the settings file | a grant lasts as long as its scope |
| Plan execution (`PlanExecution.hs`, `Planning.hs`) | plan, results | validation, list and DAG execution, retry, replan | dependencies, failures in the middle | no step before its dependencies; no cycle; retries bounded |
| Repository map worker and cache (`RepoMap/`) | queue, pending files, snapshot, cache directory | enqueue, rebuild, refresh, garbage collection | edits during a rebuild | an edit is in some later map |
| Key cache (`Platform/Auth/Jwks.hs`) | key set, fetch time, lock | lookup, refresh | double-checked refresh, stale keys on failure | one fetch at a time; stale keys only when a refresh fails |
| LLM clients (`LLM/`) | none | complete, stream | retries | - |
| Resilience (`libs/resilience`) | circuit state, failure and success counters in separate `TVar`s | withRecovery: retry with backoff, fallback, circuit breaker | concurrent callers between the reads and writes | opens after the threshold, one probe at a time |
| JSON-RPC SDK (`libs/json-rpc-sdk`) | pending requests | request, response, expiry, batch | late, duplicate and unknown responses | every request is answered once |
| MCP session (`libs/mcp-sdk`) | pending requests, connection state | request, notify, close | timeouts racing answers; stream end; failed sends | no waiter is left behind |
| OpenTelemetry batch processor (`libs/otel`) | bounded queue, worker | onEnd, flush, shutdown | full queue, flush after shutdown | exported or counted as dropped |
| Streaming core (`libs/streaming-core`) | bounded buffers | write, read, pause, close, merge, split | back pressure, closing while others wait | order, nothing lost |
| Cache core (`libs/cache-core`) | entries, statistics | get, put, invalidate, evict | capacity boundary, statistics | size within capacity |
| CLI (`codestar-cli/`) | `SessionState` between turns | tasks, slash commands | one history over many turns | as the agent loop |
| Tools (`Tools/`) | files, processes | read, edit, shell, ... | I/O | - |
| Configuration (`Config/`) | none after start | load, merge, validate | - | - |
| Parse stack (`libs/tree-sitter`, `stack.c`) | versions, nodes with several links, reference counts | push, pop along all paths, copy, merge, pause, resume, halt, summaries | sharing between versions; limits that drop histories | every reference counted; no history lost |
| Parser (`parser.c`) | versions, token cache, old tree, finished tree | parse, reset, cancel; lex, reuse, shift, reduce, accept, recover, condense | reuse of stale nodes; errors in every version; cancellation in the middle | the tree is the text's; incremental equals fresh; it ends |
| Subtrees (`subtree.c`) | immutable trees | construction, edit, balance, compare | edits mark what may no longer be reused | unmarked means unchanged |
| Changed ranges (`get_changed_ranges.c`) | two iterators | compare trees, compare ranges | trees of different shape walked in step | nothing that changed is left out |
| Lexer (`lexer.c`) | position, chunk, included ranges | reset, start, advance, skip, mark_end, get_column, finish | characters cut by chunks and ranges | position, row, column and character agree |
| Tree cursor, nodes (`tree_cursor.c`, `node.c`) | path of entries; a position | children, siblings, parents, descendants, fields, edit | hidden, empty, aliased and extra nodes | both find what the tree has |
| Queries (`query.c`) | steps; states, finished states, pool of capture lists | compile, exec, next_match, next_capture, remove_match | states split and dropped; a bounded pool; deadlines | the matches are those the pattern means, in order |
| Language tables, wasm store, allocation, Haskell bindings | - | look-ups; foreign calls | generated, disabled in this build, or without state | - |
| Provider SDKs, generated protocol buffers | - | - | third-party, generated or HTTP bindings | - |

How they interact. A connection handles one command at a time. CmdStart calls
`create`, sets the session up (LLM client, stores, repository map, MCP endpoints)
and forks an agent thread that runs `runAgent`. The loop calls back into the
session when it needs the user: `waitInput` and `waitApproval` write the status
and block on an `MVar`; CmdRespond, CmdApprove and CmdReject read the status,
fill the `MVar` and write the status; CmdStop fills both `MVar`s, cancels the
thread, waits for it and removes the session.

The repository map parses every source file and runs queries over its tree:
`ts_parser_parse` drives the lexer and the stack and builds subtrees; after
`ts_tree_edit` the old tree is handed to the next parse, which reuses what the edit
left unmarked; `ts_query_cursor_*` walks the tree with a tree cursor.

`PROJECT.json` lists the hazards at their lines, including those of components
that have no module yet.

## 2. SessionManager

State. A session object is a number, in the order of allocation; `sessions` maps
the ids to objects. An id is the size of the map when `doCreate` read it - only
that number is kept. `status`, `worker`, `input`, `approval`, `pendingModel` are
the fields of `Session`. An `MVar` holds a record saying who filled it and, as
history, the prompt that was open when the writer read the status. `pc`, `held`,
`key`, `answer` are a handler's position and locals; `agent` is the position of
an agent thread; `prompt` and `taken` are history. `open` says whether the client
of a connection is still there.

Actions. One step is one access to one shared reference, so every interleaving
of the code's accesses is a behaviour.

| code | actions |
|---|---|
| `doCreate` | `CreateCheck` (reads the map: limit and id), `CreateInsert` |
| `spawnAgentSession`, `runAgentWithTelemetry` | `SetupFails`, `Spawn`, `StoreWorker` |
| `respondToSession`, `approveSession`, `rejectSession` | `AnswerLookup`, `AnswerCheck`, `AnswerPut` (blocks while full), `AnswerWrite` |
| GHC run-time: `BlockedIndefinitelyOnMVar` | `BlockedForever` (external) |
| `setSessionModel` | `ModelLookup`, `ModelWrite` |
| `doDestroy` | `StopLookup`, `StopInput`, `StopApproval`, `StopRead`, `StopThrow`, `StopWait`, `StopStatus`, `StopDelete` |
| socket closed | `Disconnect` |
| agent thread | `AgentBegin`, `AskInput`, `AnnounceInput`, `TakeInput`, `AskApproval`, `TakeApproval`, `AgentReturns`, `AgentFails`, `RecordResult`, `ReportError`, `AgentExit` |

`cancel` of the async library is `throwTo` followed by waiting for the thread.
The exception is caught by `try` around `runAgent` like any other, so a cancelled
agent still reports an error and writes a status; outside of `try` only the
bracket is released, masked, and `throwTo` waits for that. A foreground shell command
has a `try` of its own (`Tools/Shell.hs` 99): when the cancellation comes while it runs,
the tool call fails and the agent goes on as if nothing had happened. `Cancelled` is
therefore a set of places, and a running agent may be left running. A command for an unknown
session, or a start at the limit, replies with an error and changes nothing: it
is a stuttering step.

Two names are bounds of the model and not of the code: `MaxCreated` sessions are
ever created and an agent raises at most `MaxPrompts` prompts. `ClientOps` picks
the commands the clients of an instance use.

## 3. AgentLoop and AgentTurn

State. `history` is a sequence of messages, each its role and the number of tool
calls or results it carries: enough to say whether a provider accepts it.
`calls`, `outcomes` are the current response and how far its calls have been
executed; `step` and `failures` are `tsStep` and the trailing failures of
`tsRecentOutcomes`; `signal` is the signal a step stopped with; `used` is what the
cost tracker has recorded. `asked`, `ran`, `approved`, `exhausted` and `done`
are history variables.

What the LLM answers, what a tool returns, what verification finds and what the
user decides are choices. Everything the loop does with them is the code's: the
guardrail rules in their order (`evaluate`), stored permissions before them
(`decision`), error classes, loop detection (`assessWithHistory`), the worst
signal of a step, the verification that replaces it, the budget check between
answer and history, the step limit.

A tool call is its tool name and three facts the code computes from its
arguments: it matches a secret pattern, its path is outside the workspace, it
names a path. Token estimates are abstracted to a history length (`CompactAt`).

`run_tests` is not in the built-in registry; verification calls it by name, so it
fails unless an MCP endpoint offers that tool. `Verdicts` says just that, and the
server instance registers it. `StepTryAlternative` and a partial verification
exist as types, but the loop's own code with the default configuration never
produces them, and they are left out.

`AgentTurn` is the contract: a turn works or waits, makes at most `MaxRequests`
requests, and ends with one report or is cancelled and never runs again.
`AgentLoop!TurnProtocol` is that specification with `phase`, `asked`, `done`
substituted for its variables and `MaxSteps` for `MaxRequests`.

## 4. tree-sitter

All of these modules describe one thread: the C code has no concurrency of its own
(a cancellation flag is a choice). What is hard is the length of the call sequences
and the number of shapes. Each component therefore has a *client* module whose
actions are the calls of the component's interface, in any order its users respect,
and the component's functions are operators from a state to a state. Pointers are
places: a stack node is a number, a subtree is its value, a node of a finished tree
is its path from the root.

**Stack.** `stk` is the record of `struct Stack`: heads, nodes with their links and
`ref_count`, `refs` counting the owners of each tree. `StackClient` keeps in `held`
what a call left with the caller. Its guards are what `parser.c` respects (only active
versions are copied, two versions at one node do not both enter the error state).

**Parser.** `self` is `TSParser` and `call` the locals of `ts_parser_parse`; one step is
one round of one of its loops, so a cancellation can come between any two of them, as
often as `OP_COUNT_PER_PARSER_TIMEOUT_CHECK` lets it. The text is a sequence of
characters of one byte, and `Scan` plays the language's lex function. `MCLanguage` is
the table of a small ambiguous language with a keyword, an alias, comments as
extras, an external token and the large and small table format; its states were
generated by an LALR construction. The client parses a document, edits it, parses
it with the old tree - perhaps cancelled and then resumed or reset - and parses it
once more from nothing.

**Lexer.** Texts are bytes: `a`, newline, a two-byte character `L C`, an invalid byte, a
byte order mark `B C`. A scanner is any sequence of advance, skip, mark_end and
get_column. A get_column that leaves a chunk with a lexer at its end (`Stranded`,
section 7) is made like any other, and its result is looked at; the model does not go on
from there, because what the next advance reads behind the last range is undefined.

**Trees.** `Places` defines visible children, siblings, parents and extents directly
over a tree; `TreeCursor` and `Node` are the code's walks. `TreeClient` moves a cursor
arbitrarily and compares both at every place it reaches.

**Queries.** A pattern is its syntax tree; `Query` compiles it to steps as
`ts_query__parse_pattern` does, `QueryCursor` runs them. `QueryClient!AllMatches` is an
independent, declarative meaning of a pattern: the words of sibling nodes it stands
for. What the analysis of the parse table finds (steps at which a match may end,
repetitions with rootless patterns) is a parameter of `ts_query_new`.

## 5. Runs

| run | instance | checks |
|---|---|---|
| `OneClient` | one client, two sessions, two prompts each, every answer and stop | `TypeOK`, `AnswersFresh`, `StopCancelsAgent`, `MapConsistent`, `CommandsReturn` |
| `TwoClients` | two clients of one user, one session, two prompts; start, respond, set the model, stop, disconnect | `StopReturns` |
| `ServerTurn` | one interactive turn, 3 steps of up to 2 calls, every kind of call | `TypeOK`, `ToolsAuthorised`, `TurnEnds`, `TurnProtocol` |
| `Repl` | two turns over one history, 4 steps each, `/clear`, compaction, budget 4 | `HistoryPaired`, `BudgetEnforced`, `StuckStops` |
| `Stack` | five trees (two differing in precedence, an extra, an error); an empty stack or one that has forked, once or twice; 3 calls, 6 nodes, 3 versions; 2 links and 3 iterators | `RefsExact`, `PathsAgree`, `PopsComplete`, `MergeKeepsHistories` |
| `Parser` | 9 documents of up to 7 characters, valid and broken, up to 10 edits each, one cancellation | `AssertionsHold`, `TreesMatchText`, `UnmarkedLeavesUnchanged`, `IncrementalEqualsFresh`, `ChangesReported`, `RoundsBounded` |
| `Lexer` | 11 texts, every list of up to two ranges, chunks of 3 bytes, scanners of 4 calls, an edit and other ranges | `StandsOnText`, `LookaheadCovers`, `DifferencesExact`, `RangesFollowEdit`, `ColumnQueryHarmless` |
| `Tree` | 7 trees with up to 4 levels, hidden, aliased, extra, empty and missing nodes, fields; every move, two steps back; edits at every boundary | `CursorExact`, `CursorMovesExact`, `NodesExact`, `StatusExact`, `DescendantSmallest`, `NodeEditAgrees` |
| `Query` | 4 trees, 11 patterns in 4 queries, limits 1 and 2, ranges, start depths, deadlines, removals, a second query | `ListsOwned`, `CapturesInOrder`, `QuantifiersTrue`, `MatchesSound`, `MatchesComplete` |
| `UserLimit` | two connections of one user, limit 1, two sessions created | violated, see section 7 |
| `PromptAnswerable`, `DoneJustified` | smallest instances | violated, see section 7 |

Why the bounds are enough. Two sessions are needed for an id to be reused while
another session runs, two prompts for an answer to reach the wrong one, two
connections for every race between handlers. Two calls per response are needed for an approval
to leak from one to the next and for outcomes to differ; four steps are needed
for loop detection (three failures, then the step it must end); two turns show
what one turn leaves to the next; the token limit and `CompactAt` are below what
the steps can reach, so both happen at every position of a turn.

Three calls on a stack that already forked are enough to merge the forks, pop
through the joined node along both paths and use what came out. With 2 links and 3
iterators both limits are met: a merge meets a full node and drops a history, while a
third version shares the nodes it writes into. The documents make the parser fork, merge, choose by
precedence, reuse nodes with and without breaking them down, skip, insert a missing
token and go back to an earlier state; the code's own limits (8 links, 64 iterators,
6 versions, cost difference 1600) are used. A chunk of 3 bytes cuts a two-byte
character, which `TSInput` may do anywhere; two ranges can be apart, adjoin or be
empty (`MaxRanges`; `LexerClient!RangeLists` are the lists over a text's character
boundaries), and an edit leaves at most `MaxEdited` bytes. The query tasks let states split, wait,
be dropped, be finished early and meet the limit; `MatchesComplete` is asked where
neither a limit, a range nor a removal hides matches.

`CHECK_DEADLOCK FALSE` is set because the systems may stop: clients may stay
silent, and the bounds on sessions, prompts, turns and calls run out. `Parser` checks
deadlock: a parse always has a next step until it has returned.

Fairness. `SessionManager!Fairness` is weak fairness of each handler and of each
agent thread: GHC schedules every runnable thread. Clients are under no
fairness. An agent that waits for an answer is not enabled, so nothing is assumed
about answers; that `runAgent` returns or asks again is weak fairness of the
agent thread's next step. So `StopReturns` and `CommandsReturn` have one exception: a stop
may wait for ever for an agent that survived its cancellation and stands at a prompt
nobody answers (`Starved`); every other stop comes back. `AgentLoop!Fairness` assumes that the loop's thread runs, that
requests, tools and verification return, and that a prompt is answered; only
`TurnEnds` uses it. The answer to prompts is an assumption on users, without
which a turn may wait forever. For the parser termination is stated as a bound,
`RoundsBounded`, which needs no fairness.

Every property of a passing run is violated when one definition is replaced by a
plausible bug (the operators marked "Mutant of"; `PROJECT.json` lists the pairs).

## 6. Proofs

`SessionManagerProofs`, from `SessionAssumption` (finitely many connections, each
with one user; naturals for the bounds):

- `TypeCorrect`: `Spec => [](TypeOK /\ MapConsistent /\ HandlersHold)`. The three are
  inductive only together: a handler writes through the session it holds, which
  is allocated by `HandlersHold`; the id `doCreate` chooses is in range because the
  size of the map is at most the number of sessions allocated (`MapSize`), which
  needs the map to be injective, which follows from `MapConsistent`.
- `OverrunBounded`: `Spec => []LimitOverrun`. The insert comes after the check, without a
  lock, so the limit itself does not hold (section 7). What holds for every number of
  connections is that a user has fewer sessions in the map than the limit and the number
  of their connections together; with one connection this is the limit. It is not
  inductive: `OverrunInv` counts the inserts that are under way (`Inserting`) like the
  sessions they will add. A check that passes saw fewer sessions than the limit, and
  at that moment at most the user's other connections are in front of an insert.

`AgentLoopProofs`, from `LoopAssumption`:

- `LoopTypes`: types, and `Position`: the loop is at a call of the response.
- `LoopImplementsTurn`: `Spec => TurnProtocol`, step by step; a request is within
  the limit because requests are never ahead of steps (`RequestPerStep`).
- `BudgetHolds`: `[]BudgetEnforced`.
- `AuthorisationHolds`: `[]ToolsAuthorised` for every registry, deny and allow list and
  permission set. Strengthened by what the loop's place says about the current
  call (about to run: allowed or approved).
- `HistoryPairing`: `[]HistoryPaired`. Inside a response the pairing holds up to
  the last message, which is the assistant's with as many calls as `calls` has.
- `LoopDetection`: `Spec => StuckStops`, an action property: a step is ended as Blocked
  if and only if the three steps before it failed and it asked for no edit. The proof
  evaluates the step's signal in both cases: no other outcome of a step that ran its calls
  gives Blocked, and a verified edit never does.

`SessionAnswersProofs`, from `SessionAssumption`:

- `TypesHold`: `Spec => []TypeOK`, from `TypeCorrect`.
- `OneClientServed`: with one connection, `Spec => [](AnswersFresh /\ StopCancelsAgent)`. The
  inductive invariant `AnswerInv` says what every place of an
  agent and of a handler implies about status, `MVar`s and worker: a full `MVar` was
  filled for the prompt that is open, or by a stop that is under way; a handler behind its
  status check still faces the prompt it saw, with its `MVar` empty; behind the wait of a
  stop the agent is over. The lemmas `AnswersAreFresh` and `StopCancels` prove it while no
  two connections are inside commands for the same session (`HandlersApart`); the server
  ensures that only when there is one connection (`OneConnectionApart`), and two break
  both properties (section 7).

`LoopTheorems` is how loops are proved about. The prover cannot instantiate
induction over an operator, but it can over a *set*: `NatSetInduction` (a set with 0
that is closed under successor holds every natural) is proved from the least element of a
set of naturals, and every induction here is over `{n \in Nat : ...}`. `LoopExists`
gives what a recursive function definition needs: for a body `F` there is a
function of the round with `f[n + 1] = F[f[n]]`.

`RangeArraysProofs`, for all lists of ranges that `ts_lexer_set_included_ranges` accepts
(`ProperRanges`), with 32-bit places:

- `ChangedRangesExact`: `ts_range_array_get_changed_ranges` reaches the end of both lists,
  and returns exactly the bytes that one of them includes and the other does not. The
  loop invariant `WalkInv` says where the walk stands in each list, and that up to its
  position the differences collected are right (adjoining ones are joined, empty
  ranges are passed); each round crosses at least one boundary, so the rounds end.
- `EditKeepsRanges`: the edit of a tree's included ranges keeps the list acceptable,
  and the bytes outside the edit are included after it if and only if they were before.

`LexerProofs`, from `ChunkAssumption` and `TextAssumption` (chunks of two bytes or more,
texts shorter than 2^32 - 1 bytes), for every text, list of ranges, chunk size and
sequence of calls:

- `LexerStandsOnText`: `Spec => []StandsOnText`. The invariant is `LexerInv`. Its parts: the
  lexer is in the range it believes to be in, or at its end; a chunk it keeps is of
  this text and holds its position; its place and those of the ranges and of the
  token are where a character begins, with the row and column of that byte; at its end it is
  at `InputEnd`, where the last range or the text ends; in a token the
  decoded character is that of the text. Of a stranded lexer it says only where it stands.
  A lemma for each function of
  `lexer.c` (`GotoSound`, `GetLookaheadSound`, `DoAdvanceSound`, ...) says what it keeps
  and what it needs.
- `DifferencesAreExact`, `RangesDoFollowEdit`: from the two theorems on ranges.
- `ColumnQueriesHarmless`: `Spec => ColumnQueryHarmless`. `ts_lexer__get_column` goes back to the
  start of the row and advances until it is where it was. Its rounds are a loop whose
  invariant `RowCounted` says that the walk is between the row's start and the
  goal and has counted the characters it passed; it cannot jump over the goal, because
  the goal is a character boundary inside a range or the end of the input; it ends there,
  so the column is the number of included characters before it, and two lexers that stand
  on the same byte of the same text and ranges agree in all that a scanner sees
  (`StandingUnique`). A lexer at its end makes no round; `BackAtEnd` and `GetColumnAtEnd` say
  when it is left with a chunk, which is the exception of the property: no included range
  is left after the start of the row, and the text goes on.

`LexerReplayProofs`, from the same assumptions:

- `LookaheadIsCovered`: `Spec => []LookaheadCovers`. The scanner's calls, kept in `calls`, are
  made again (`ReplayFrom`, a recursive function of their number) by the lexer that began
  the token, on another text. The invariant is `ReplayInv`, together with `LexerInv`. It
  says that no chunk is left from before the token, and that on every text with the
  same included characters up to the lexer's position (`SameCharacters`), and which ends
  with it if the lexer is at the end of its text (`SameText`), the replay
  stands where the lexer stands: in the same range, at the same place, in the same token
  (`Twin`), though its chunks and what lies behind may differ. `LookaheadCovers` alone is not
  inductive: it speaks of finished tokens only. Each function of the lexer takes
  twins to twins when the texts agree where it comes to (`DoAdvanceTwin`, `MarkEndTwin`,
  `StartTwin`, `GetColumnTwin`), and none goes back, so that the texts agreed before
  (`ApplyStays`). What is left is `EditedSame`: an edit at `lookahead_end_byte` or later leaves
  the characters seen. The character looked at may be invalid only because of the bytes
  behind it, and here the four bytes that `ts_lexer_finish` adds are needed. The edit has to
  begin with a character. `ReplayInv` was first checked with TLC,
  as an invariant of the instance of the run `Lexer`; the run itself checks `LookaheadCovers`.

Only model-checked:

- `CommandsReturn`, `StopReturns`, `TurnEnds`: liveness is out of the prover's reach.
- The stack, the parser, trees and queries: their functions recurse over trees, paths and
  states with RECURSIVE operators, which the prover does not accept.
- The three violations.

## 7. Where code and documentation disagree

Kept as runs, each a short counterexample:

- `UserLimit`: two connections of one user both pass the check of `doCreate` before either
  inserts, and both get a session. A test of the session manager, with concurrent
  creates, says "Exactly maxSessionsPerUser should succeed; the rest must fail". The
  property counts the sessions given to a user: two such creates mostly choose the same
  id, and the map itself then holds one of them.
- `PromptAnswerable`: the handler's late `SActive` overwrites the status of the
  agent's next prompt; no answer is accepted any more.
- `DoneJustified`: verification looks at the paths of the calls, not at what they
  did: a denied edit in a project whose tests pass ends the turn with `Done`.

Seen while modelling, and not kept as runs. Server and agent loop:

- An id is the size of the map, so stopping an older session makes the next one
  take the id of a session that is still running and replace its entry
  (`SessionManager.hs` 91 calls it unique).
- A stop between fork and store removes the session and leaves the agent running.
  It takes a second client of the session.
- The history after a compaction is one System message that does not repeat the task.
- `AnswersFresh` and `CommandsReturn` hold for one client and fail for two: both
  handlers see the prompt open, the second `putMVar` blocks the connection, and an
  approval is then taken for the next tool call.
- A stop that comes while the agent runs a shell command does not cancel it: the tool
  reports the cancellation as its own failure and the agent goes on. `destroy` ("Cancel the
  agent thread and remove the session from the map", `SessionManager.hs` 146) waits for
  the agent, and meanwhile the connection does not stay "responsive (e.g. to @CmdStop@)"
  (`Server/AgentRunner.hs` 7-9). If the agent then waits at a prompt behind the one that
  the stop has answered, and no other connection answers it, the stop never returns. `StopReturns` and `CommandsReturn` state the
  exception.
- The late `SActive` also overwrites the final status of an agent that is over.
- A model switch is consumed at the start of a turn, and a server session runs
  one turn.
- A response cut off by the provider's token limit ends the turn with `Continue`,
  where a comment on `completionSignal` speaks of another step.
- "3+ consecutive failures of any class -> Blocked" (`Signal.hs` 64) looks only at the steps
  before the current one: three failing steps do not end a turn, the fourth does, even
  if it succeeds; and a step that asked for an edit is judged by its verification
  instead. `StuckStops` states the rule in this form. `NeedsInput` from tool calls does not
  pause the loop.

tree-sitter. The properties name these cases as exceptions, so that they say what
the code does and stay as strong as it allows:

- `get_column`, where no included range is left behind the start of the row, fetches a
  chunk although the lexer is at its end; the next advance would read a range that
  is not there (`lexer.c` 259). The call is made in the model, and `ColumnQueryHarmless`
  says that this is the only case; without the exception it is violated.
- After a step to the previous sibling the descendant index of the entry is 0
  (`tree_cursor.c` 115-148), and those of the entries below it and of its later siblings are
  counted from there, until the cursor goes up: `ts_tree_cursor_current_descendant_index`
  is then not "the index of the cursor's current node out of all of the descendants"
  (`api.h` 794-798). `drift` records from which entry on this is so; `CursorExact` is about
  the entries above it, and about `goto_descendant` when there is none. Going back from an
  extra in a production with aliases leaves the structural index one too high, and
  with it the alias (`AliasBesideExtra`). The same function stops at child 255, as it
  compares an `int8_t`; no tree of the instance is so wide.
- `has_later_named_siblings` is missed when a wrapping level already found an
  anonymous later sibling (`tree_cursor.c` 550-577): `SiblingsAhead`.
- Going forward `ts_node__next_sibling` passes over empty siblings at the end of the
  node (`node.c` 299): `NodeSiblingsExact`. The search for a named child from a byte may
  miss one behind a hidden node (331): `ChildForByteExact`. For an empty node
  `ts_node_child_containing_descendant` may answer the node itself (`NodeParentExact`),
  and the smallest node around an empty range may be a parent (`DescendantSmallest`).
- Captures can come out of order although `query.c` 4058 says they are returned in
  order: a pattern like `(_ (number) @2) @1` is searched from its second step, and its
  root is captured late. `CapturesInOrder` is about the other patterns;
  `CapturesSorted` is the unrestricted statement, and fails.
- `ts_query_cursor__advance` computes the start depth for the patterns of a symbol
  from the first of them (3668-3679). `next_capture` gives up a state when the pool is
  exactly full, without setting `did_exceed_match_limit` (4155). A copied state
  keeps the id of the state it was split from, so `remove_match` removes one of
  them. A deadline and the end give the same answer (3481).
- `ts_query_cursor_next_match` releases the capture list before its caller reads it
  (4014); the list is intact until the next call.
- `ts_stack_copy_version` copies a paused head's lookahead without retaining it
  (`stack.c` 685); `parser.c` copies only active versions. `ts_stack_pop_pending` renumbers
  the first slice only (540).
- Resuming a cancelled parse clears `included_range_differences` (`parser.c` 2009). `Parser`
  has one included range, the whole text, so the check of those differences before a
  node is reused (`parser.c` 791) never refuses one and is left out.

## 8. Not modelled

Server and agent: telemetry, reply texts and authentication of connections; `list`, `reap` and
`shutdownAll`, which no executable calls; slash commands that only print; the
cost tracker's daily limit and its concurrent use (each session has a tracker of
its own, with one writer); tokens spent by compaction, which the code does not
record; file and process I/O of tools; provider bindings, generated code.

tree-sitter: the wasm store (the build leaves it out); memory pools, arrays and the two
layouts of a leaf; logging and dot graphs; UTF-16 and characters of more than two
bytes; query text, predicates and the search of the parse table for impossible
patterns; included ranges inside `Parser`, which are checked in `Lexer`; the Haskell
bindings.

## 9. Plan

1. Proofs: `StackClient!RefsExact` and `PathsAgree`, with the recursion of `Stack` written as
   functions of the round.
2. `RepoMapWorker`: queue, pending files, rebuilds against edits; refinement of
   "every edit is in a later map".
3. `PlanExecution`: validation and the list and DAG executors with retry and
   replan; dependency order and bounded retries as invariants to prove.
4. `McpSession` and the JSON-RPC client: pending requests, timeouts against late
   answers, stream end; no waiter left behind.
5. `CostTracker`, `CircuitBreaker`, `BatchSpanProcessor`, `KeyCache`: counters and
   queues at their limits under concurrent callers.
6. `Session`: the prompt protocol between client and agent as an abstract
   specification, `SessionManager` with one connection shown to implement it, and
   its composition with `AgentTurn`.
