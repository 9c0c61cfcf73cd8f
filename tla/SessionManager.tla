--------------------------- MODULE SessionManager ---------------------------
(***************************************************************************)
(* The session layer of codestar-serve: the in-memory session map          *)
(* (Platform/SessionManager.hs), the command handlers that use it          *)
(* (codestar-serve/Server.hs, Server/Commands.hs) and the agent threads    *)
(* they start, block and cancel (Server/SessionSetup.hs,                   *)
(* Server/AgentRunner.hs).                                                 *)
(*                                                                         *)
(* Every WebSocket connection handles its commands one after the other;    *)
(* the connections and the agent threads run concurrently.  The map is an  *)
(* IORef, a session's status and thread handle are TVars, its input and    *)
(* approval slots are MVars: one step of the model is one access to one of *)
(* them.  What an agent does between two prompts is left to AgentLoop.     *)
(***************************************************************************)
EXTENDS Naturals, FiniteSets

CONSTANTS
  Conns,               \* WebSocket connections
  Users,               \* authenticated users
  UserOf,              \* the user a connection was authenticated as
  ClientOps,           \* the operations the clients of this instance perform
  NoConn,              \* "no connection": the home of a session not yet allocated
  MaxSessionsPerUser,  \* SessionConfig.maxSessionsPerUser
  MaxCreated,          \* bound: sessions ever created
  MaxPrompts           \* bound: prompts one agent may raise

AllOps == {"start", "respond", "approve", "reject", "stop", "setModel", "disconnect"}

ASSUME SessionAssumption ==
  /\ IsFiniteSet(Conns)
  /\ UserOf \in [Conns -> Users]
  /\ NoConn \notin Conns
  /\ ClientOps \subseteq AllOps
  /\ MaxSessionsPerUser \in Nat
  /\ MaxCreated \in Nat
  /\ MaxPrompts \in Nat

VARIABLES
  sessions,      \* the session map: SessionId -> session, NoSession if absent
  created,       \* sessions 1..created have been allocated
  sidOf,         \* Session.sessionId
  home,          \* the connection whose socket is the session's eventSink
  status,        \* Session.status
  worker,        \* Session.workerThread is Just
  input,         \* Session.inputMVar
  approval,      \* Session.approvalMVar
  pendingModel,  \* Session.pendingModel is Just
  agent,         \* where the agent thread of a session is
  prompt,        \* how many prompts the agent has raised
  taken,         \* history: the answer the agent took for its last prompt
  open,          \* the client is still connected
  pc,            \* where the handler of a connection is
  held,          \* the session a handler got from the map or allocated
  key,           \* the session id a handler works on
  answer         \* the answer a handler is about to give

sessionVars == <<sidOf, home, status, worker, input, approval, pendingModel>>
agentVars == <<agent, prompt, taken>>
handlerVars == <<pc, held, key, answer>>
vars == <<sessions, created, sessionVars, agentVars, open, handlerVars>>

-----------------------------------------------------------------------------
NoSession == 0
Objects == 1..MaxCreated
\* A SessionId is "session-" followed by a map size; only the size is kept.
Sids == 0..MaxCreated

(* What an MVar holds or a handler is about to put into it: who wrote it   *)
(* and, as history, the prompt that was open when the writer looked.       *)
Answer == [from : {"none", "respond", "approve", "reject", "stop"},
           prompt : 0..MaxPrompts]
Empty == [from |-> "none", prompt |-> 0]
StopAnswer == [from |-> "stop", prompt |-> 0]

SessionStatus ==
  {"active", "waitingForInput", "waitingForApproval", "completed", "terminated"}

(* none: not spawned; start: before the exception handler around runAgent; *)
(* run: inside runAgent; announce, input, approve: inside waitInput and    *)
(* waitApproval; returned, caught: runAgent is over; ending: the bracket   *)
(* around it is being released, masked.                                    *)
AgentState ==
  {"none", "start", "run", "announce", "input", "approve",
   "returned", "caught", "ending", "done"}

HandlerState ==
  {"idle", "insert", "setup", "store", "check", "put", "write", "model",
   "stopInput", "stopApproval", "stopRead", "stopThrow", "stopWait",
   "stopStatus", "stopDelete"}

InMap == {s \in Sids : sessions[s] # NoSession}
UserSessions(u) == {s \in InMap : UserOf[home[sessions[s]]] = u}
Live(o) == agent[o] \notin {"none", "done"}

TypeOK ==
  /\ sessions \in [Sids -> Objects \cup {NoSession}]
  /\ created \in 0..MaxCreated
  /\ sidOf \in [Objects -> Sids]
  /\ home \in [Objects -> Conns \cup {NoConn}]
  /\ status \in [Objects -> SessionStatus]
  /\ worker \in [Objects -> BOOLEAN]
  /\ input \in [Objects -> Answer]
  /\ approval \in [Objects -> Answer]
  /\ pendingModel \in [Objects -> BOOLEAN]
  /\ agent \in [Objects -> AgentState]
  /\ prompt \in [Objects -> 0..MaxPrompts]
  /\ taken \in [Objects -> Answer]
  /\ open \in [Conns -> BOOLEAN]
  /\ pc \in [Conns -> HandlerState]
  /\ held \in [Conns -> Objects \cup {NoSession}]
  /\ key \in [Conns -> Sids]
  /\ answer \in [Conns -> Answer]

\* newSessionManager: an empty map; no connection has sent a command yet.
Init ==
  /\ sessions = [s \in Sids |-> NoSession]
  /\ created = 0
  /\ sidOf = [o \in Objects |-> 0]
  /\ home = [o \in Objects |-> NoConn]
  /\ status = [o \in Objects |-> "active"]
  /\ worker = [o \in Objects |-> FALSE]
  /\ input = [o \in Objects |-> Empty]
  /\ approval = [o \in Objects |-> Empty]
  /\ pendingModel = [o \in Objects |-> FALSE]
  /\ agent = [o \in Objects |-> "none"]
  /\ prompt = [o \in Objects |-> 0]
  /\ taken = [o \in Objects |-> Empty]
  /\ open = [c \in Conns |-> TRUE]
  /\ pc = [c \in Conns |-> "idle"]
  /\ held = [c \in Conns |-> NoSession]
  /\ key = [c \in Conns |-> 0]
  /\ answer = [c \in Conns |-> Empty]
-----------------------------------------------------------------------------
(* Control of a handler: go on at a label, or reply and wait for the next  *)
(* command (listenLoop).                                                   *)
Goto(c, label) ==
  /\ pc' = [pc EXCEPT ![c] = label]
  /\ UNCHANGED <<held, key, answer>>

Reply(c) ==
  /\ pc' = [pc EXCEPT ![c] = "idle"]
  /\ held' = [held EXCEPT ![c] = NoSession]
  /\ key' = [key EXCEPT ![c] = 0]
  /\ answer' = [answer EXCEPT ![c] = Empty]

(* A command can arrive on a connection that is open and not handling one. *)
Ready(c, op) ==
  /\ op \in ClientOps
  /\ open[c]
  /\ pc[c] = "idle"

-----------------------------------------------------------------------------
(* CmdStart: doCreate, then spawnAgentSession.                              *)

(* doCreate reads the map once: the limit is checked and the new id chosen *)
(* from that snapshot.  A user at the limit gets CmdErr.                   *)
CreateCheck(c) ==
  /\ Ready(c, "start")
  /\ created + Cardinality({d \in Conns : pc[d] = "insert"}) < MaxCreated
  /\ Cardinality(UserSessions(UserOf[c])) < MaxSessionsPerUser
  /\ pc' = [pc EXCEPT ![c] = "insert"]
  /\ key' = [key EXCEPT ![c] = Cardinality(InMap)]
  /\ UNCHANGED <<sessions, created, sessionVars, agentVars, open, held, answer>>

(* Mutant of CreateInsert: the session is numbered by a counter, the map   *)
(* still by its size.                                                      *)
CreateInsertNumbered(c) ==
  /\ pc[c] = "insert"
  /\ created < MaxCreated
  /\ created' = created + 1
  /\ sidOf' = [sidOf EXCEPT ![created + 1] = created]
  /\ home' = [home EXCEPT ![created + 1] = c]
  /\ sessions' = [sessions EXCEPT ![key[c]] = created + 1]
  /\ held' = [held EXCEPT ![c] = created + 1]
  /\ pc' = [pc EXCEPT ![c] = "setup"]
  /\ UNCHANGED <<status, worker, input, approval, pendingModel, agentVars,
                 open, key, answer>>

(* doCreate inserts the new session under that id, whatever is there now.  *)
CreateInsert(c) ==
  /\ pc[c] = "insert"
  /\ created < MaxCreated
  /\ created' = created + 1
  /\ sidOf' = [sidOf EXCEPT ![created + 1] = key[c]]
  /\ home' = [home EXCEPT ![created + 1] = c]
  /\ sessions' = [sessions EXCEPT ![key[c]] = created + 1]
  /\ held' = [held EXCEPT ![c] = created + 1]
  /\ pc' = [pc EXCEPT ![c] = "setup"]
  /\ UNCHANGED <<status, worker, input, approval, pendingModel, agentVars,
                 open, key, answer>>

(* The setup of a session (client, stores, grammars, repository map, MCP   *)
(* endpoints) may throw; the JSON-RPC server turns that into an error.     *)
SetupFails(c) ==
  /\ pc[c] = "setup"
  /\ Reply(c)
  /\ UNCHANGED <<sessions, created, sessionVars, agentVars, open>>

(* runAgentWithTelemetry forks the agent thread ...                        *)
Spawn(c) ==
  /\ pc[c] = "setup"
  /\ agent' = [agent EXCEPT ![held[c]] = "start"]
  /\ Goto(c, "store")
  /\ UNCHANGED <<sessions, created, sessionVars, prompt, taken, open>>

(* ... and only then is its handle stored in the session.                  *)
StoreWorker(c) ==
  /\ pc[c] = "store"
  /\ worker' = [worker EXCEPT ![held[c]] = TRUE]
  /\ Reply(c)
  /\ UNCHANGED <<sessions, created, sidOf, home, status, input, approval,
                 pendingModel, agentVars, open>>

-----------------------------------------------------------------------------
(* CmdRespond, CmdApprove, CmdReject: look the session up, read its        *)
(* status, fill the MVar, write the status: four accesses.                 *)

(* The MVar an answer of this kind goes to, and the status it requires.    *)
ForInput(a) == a.from = "respond"
Expected(a) == IF ForInput(a) THEN "waitingForInput" ELSE "waitingForApproval"

(* A command for an unknown session gets CmdErr and changes nothing.       *)
AnswerLookup(c, s, op) ==
  /\ Ready(c, op)
  /\ op \in {"respond", "approve", "reject"}
  /\ sessions[s] # NoSession
  /\ pc' = [pc EXCEPT ![c] = "check"]
  /\ held' = [held EXCEPT ![c] = sessions[s]]
  /\ answer' = [answer EXCEPT ![c] = [from |-> op, prompt |-> 0]]
  /\ UNCHANGED <<sessions, created, sessionVars, agentVars, open, key>>

(* Mutant of AnswerCheck: an answer is accepted whatever the status says.  *)
AnswerCheckAnyStatus(c) ==
  /\ pc[c] = "check"
  /\ answer' = [answer EXCEPT ![c].prompt = prompt[held[c]]]
  /\ pc' = [pc EXCEPT ![c] = "put"]
  /\ UNCHANGED <<sessions, created, sessionVars, agentVars, open, held, key>>

AnswerCheck(c) ==
  /\ pc[c] = "check"
  /\ \/ /\ status[held[c]] = Expected(answer[c])
        /\ answer' = [answer EXCEPT ![c].prompt = prompt[held[c]]]
        /\ pc' = [pc EXCEPT ![c] = "put"]
        /\ UNCHANGED <<held, key>>
     \/ /\ status[held[c]] # Expected(answer[c])
        /\ Reply(c)
  /\ UNCHANGED <<sessions, created, sessionVars, agentVars, open>>

(* putMVar blocks while the MVar is full.                                  *)
AnswerPut(c) ==
  /\ pc[c] = "put"
  /\ \/ /\ ForInput(answer[c])
        /\ input[held[c]] = Empty
        /\ input' = [input EXCEPT ![held[c]] = answer[c]]
        /\ UNCHANGED approval
     \/ /\ ~ForInput(answer[c])
        /\ approval[held[c]] = Empty
        /\ approval' = [approval EXCEPT ![held[c]] = answer[c]]
        /\ UNCHANGED input
  /\ Goto(c, "write")
  /\ UNCHANGED <<sessions, created, sidOf, home, status, worker, pendingModel,
                 agentVars, open>>

AnswerWrite(c) ==
  /\ pc[c] = "write"
  /\ status' = [status EXCEPT ![held[c]] = "active"]
  /\ Reply(c)
  /\ UNCHANGED <<sessions, created, sidOf, home, worker, input, approval,
                 pendingModel, agentVars, open>>

PutBlocked(c) ==
  /\ pc[c] = "put"
  /\ IF ForInput(answer[c]) THEN input[held[c]] # Empty ELSE approval[held[c]] # Empty

(* The run-time system interrupts a putMVar nobody can ever unblock: the   *)
(* session is in no map entry, its agent is over, and every handler that   *)
(* still holds it is blocked in the same way.  The JSON-RPC server turns   *)
(* the exception into an error reply.                                      *)
BlockedForever(c) ==
  /\ pc[c] = "put"
  /\ LET o == held[c] IN
       /\ ~Live(o)
       /\ \A s \in Sids : sessions[s] # o
       /\ \A d \in Conns : held[d] = o => PutBlocked(d)
  /\ Reply(c)
  /\ UNCHANGED <<sessions, created, sessionVars, agentVars, open>>

-----------------------------------------------------------------------------
(* CmdSetModel: setSessionModel, for a model the configuration knows.      *)
ModelLookup(c, s) ==
  /\ Ready(c, "setModel")
  /\ sessions[s] # NoSession
  /\ pc' = [pc EXCEPT ![c] = "model"]
  /\ held' = [held EXCEPT ![c] = sessions[s]]
  /\ UNCHANGED <<sessions, created, sessionVars, agentVars, open, key, answer>>

ModelWrite(c) ==
  /\ pc[c] = "model"
  /\ pendingModel' = [pendingModel EXCEPT ![held[c]] = TRUE]
  /\ Reply(c)
  /\ UNCHANGED <<sessions, created, sidOf, home, status, worker, input,
                 approval, agentVars, open>>
-----------------------------------------------------------------------------
(* CmdStop: doDestroy, one access after the other.  An unknown session is  *)
(* acknowledged and changes nothing.                                       *)
StopLookup(c, s) ==
  /\ Ready(c, "stop")
  /\ sessions[s] # NoSession
  /\ pc' = [pc EXCEPT ![c] = "stopInput"]
  /\ held' = [held EXCEPT ![c] = sessions[s]]
  /\ key' = [key EXCEPT ![c] = s]
  /\ UNCHANGED <<sessions, created, sessionVars, agentVars, open, answer>>

(* tryPutMVar: fill an MVar that is empty, leave one that is full alone.   *)
TryPut(m, o) == IF m[o] = Empty THEN [m EXCEPT ![o] = StopAnswer] ELSE m

StopInput(c) ==
  /\ pc[c] = "stopInput"
  /\ input' = TryPut(input, held[c])
  /\ Goto(c, "stopApproval")
  /\ UNCHANGED <<sessions, created, sidOf, home, status, worker, approval,
                 pendingModel, agentVars, open>>

StopApproval(c) ==
  /\ pc[c] = "stopApproval"
  /\ approval' = TryPut(approval, held[c])
  /\ Goto(c, "stopRead")
  /\ UNCHANGED <<sessions, created, sidOf, home, status, worker, input,
                 pendingModel, agentVars, open>>

(* A session whose handle is not stored yet has no thread to cancel.       *)
StopRead(c) ==
  /\ pc[c] = "stopRead"
  /\ Goto(c, IF worker[held[c]] THEN "stopThrow" ELSE "stopStatus")
  /\ UNCHANGED <<sessions, created, sessionVars, agentVars, open>>

(* Where an agent thread may be after AsyncCancelled: `try' around runAgent *)
(* catches it like any other exception, and so does the `try' around a      *)
(* foreground shell command, which reports it to the LLM as a failed call:  *)
(* the agent goes on.  Outside of runAgent the start of its span is tried   *)
(* too; otherwise only the bracket is released.                             *)
Cancelled(a) ==
  CASE a = "run" -> {"run", "caught"}
    [] a \in {"announce", "input", "approve"} -> {"caught"}
    [] a = "start" -> {"caught", "ending"}
    [] a \in {"returned", "caught"} -> {"ending"}
    [] a = "done" -> {"done"}

(* cancel, first half: throwTo, which waits while the thread is masked.    *)
StopThrow(c) ==
  /\ pc[c] = "stopThrow"
  /\ agent[held[c]] \notin {"none", "ending"}
  /\ \E a \in Cancelled(agent[held[c]]) : agent' = [agent EXCEPT ![held[c]] = a]
  /\ Goto(c, "stopWait")
  /\ UNCHANGED <<sessions, created, sessionVars, prompt, taken, open>>

(* Mutant of StopWait: the thread is not waited for.                       *)
StopWaitSkipped(c) ==
  /\ pc[c] = "stopWait"
  /\ Goto(c, "stopStatus")
  /\ UNCHANGED <<sessions, created, sessionVars, agentVars, open>>

(* cancel, second half: wait for the thread to be over.                    *)
StopWait(c) ==
  /\ pc[c] = "stopWait"
  /\ agent[held[c]] = "done"
  /\ Goto(c, "stopStatus")
  /\ UNCHANGED <<sessions, created, sessionVars, agentVars, open>>

(* Mutant of StopStatus: a status the readers do not know.                 *)
StopStatusUnknown(c) ==
  /\ pc[c] = "stopStatus"
  /\ status' = [status EXCEPT ![held[c]] = "stopped"]
  /\ Goto(c, "stopDelete")
  /\ UNCHANGED <<sessions, created, sidOf, home, worker, input, approval,
                 pendingModel, agentVars, open>>

StopStatus(c) ==
  /\ pc[c] = "stopStatus"
  /\ status' = [status EXCEPT ![held[c]] = "terminated"]
  /\ Goto(c, "stopDelete")
  /\ UNCHANGED <<sessions, created, sidOf, home, worker, input, approval,
                 pendingModel, agentVars, open>>

(* The id is deleted, whatever session it stands for by now.               *)
StopDelete(c) ==
  /\ pc[c] = "stopDelete"
  /\ sessions' = [sessions EXCEPT ![key[c]] = NoSession]
  /\ Reply(c)
  /\ UNCHANGED <<created, sessionVars, agentVars, open>>

(* The client goes away; the handler finishes the command it is on.        *)
Disconnect(c) ==
  /\ "disconnect" \in ClientOps
  /\ open[c]
  /\ open' = [open EXCEPT ![c] = FALSE]
  /\ UNCHANGED <<sessions, created, sessionVars, agentVars, handlerVars>>

-----------------------------------------------------------------------------
(* The agent thread of session o: runAgentWithTelemetry and the callbacks  *)
(* waitInput and waitApproval.                                             *)
Step(o, from, to) ==
  /\ agent[o] = from
  /\ agent' = [agent EXCEPT ![o] = to]

(* runAgent begins its turn by consuming a pending model switch.           *)
AgentBegin(o) ==
  /\ Step(o, "start", "run")
  /\ pendingModel' = [pendingModel EXCEPT ![o] = FALSE]
  /\ UNCHANGED <<sessions, created, sidOf, home, status, worker, input,
                 approval, prompt, taken, open, handlerVars>>

NewPrompt(o) ==
  /\ prompt[o] < MaxPrompts
  /\ prompt' = [prompt EXCEPT ![o] = @ + 1]
  /\ taken' = [taken EXCEPT ![o] = Empty]

AskInput(o) ==
  /\ Step(o, "run", "announce")
  /\ NewPrompt(o)
  /\ status' = [status EXCEPT ![o] = "waitingForInput"]
  /\ UNCHANGED <<sessions, created, sidOf, home, worker, input, approval,
                 pendingModel, open, handlerVars>>

(* waitInput sends a progress event; the sink throws once the client of    *)
(* the session is gone.                                                    *)
AnnounceInput(o) ==
  /\ \/ Step(o, "announce", "input") /\ open[home[o]]
     \/ Step(o, "announce", "caught") /\ ~open[home[o]]
  /\ UNCHANGED <<sessions, created, sessionVars, prompt, taken, open, handlerVars>>

TakeInput(o) ==
  /\ Step(o, "input", "run")
  /\ input[o] # Empty
  /\ taken' = [taken EXCEPT ![o] = input[o]]
  /\ input' = [input EXCEPT ![o] = Empty]
  /\ UNCHANGED <<sessions, created, sidOf, home, status, worker, approval,
                 pendingModel, prompt, open, handlerVars>>

AskApproval(o) ==
  /\ Step(o, "run", "approve")
  /\ NewPrompt(o)
  /\ status' = [status EXCEPT ![o] = "waitingForApproval"]
  /\ UNCHANGED <<sessions, created, sidOf, home, worker, input, approval,
                 pendingModel, open, handlerVars>>

TakeApproval(o) ==
  /\ Step(o, "approve", "run")
  /\ approval[o] # Empty
  /\ taken' = [taken EXCEPT ![o] = approval[o]]
  /\ approval' = [approval EXCEPT ![o] = Empty]
  /\ UNCHANGED <<sessions, created, sidOf, home, status, worker, input,
                 pendingModel, prompt, open, handlerVars>>

AgentReturns(o) ==
  /\ Step(o, "run", "returned")
  /\ UNCHANGED <<sessions, created, sessionVars, prompt, taken, open, handlerVars>>

(* An exception in runAgent, or in starting its span.                      *)
AgentFails(o) ==
  /\ \/ Step(o, "start", "caught")
     \/ Step(o, "run", "caught")
  /\ UNCHANGED <<sessions, created, sessionVars, prompt, taken, open, handlerVars>>

RecordResult(o) ==
  /\ Step(o, "returned", "ending")
  /\ status' = [status EXCEPT ![o] = "completed"]
  /\ UNCHANGED <<sessions, created, sidOf, home, worker, input, approval,
                 pendingModel, prompt, taken, open, handlerVars>>

(* The error is sent to the client before the status is written: if the    *)
(* client is gone, sending throws and the status is left as it is.         *)
ReportError(o) ==
  /\ Step(o, "caught", "ending")
  /\ status' = IF open[home[o]] THEN [status EXCEPT ![o] = "terminated"] ELSE status
  /\ UNCHANGED <<sessions, created, sidOf, home, worker, input, approval,
                 pendingModel, prompt, taken, open, handlerVars>>

(* Mutant of AgentExit: releasing the bracket waits for the client.        *)
AgentExitWhileOpen(o) ==
  /\ Step(o, "ending", "done")
  /\ open[home[o]]
  /\ UNCHANGED <<sessions, created, sessionVars, prompt, taken, open, handlerVars>>

AgentExit(o) ==
  /\ Step(o, "ending", "done")
  /\ UNCHANGED <<sessions, created, sessionVars, prompt, taken, open, handlerVars>>

-----------------------------------------------------------------------------
(* What a client decides, what a handler does on its own, what an agent    *)
(* thread does.                                                            *)
ClientStep(c) ==
  \/ CreateCheck(c)
  \/ Disconnect(c)
  \/ \E s \in Sids :
       \/ \E op \in {"respond", "approve", "reject"} : AnswerLookup(c, s, op)
       \/ ModelLookup(c, s)
       \/ StopLookup(c, s)

AnswerStep(c) ==
  AnswerCheck(c) \/ AnswerPut(c) \/ AnswerWrite(c) \/ BlockedForever(c)

StopStep(c) ==
  \/ StopInput(c) \/ StopApproval(c) \/ StopRead(c) \/ StopThrow(c)
  \/ StopWait(c) \/ StopStatus(c) \/ StopDelete(c)

HandlerStep(c) ==
  \/ CreateInsert(c) \/ SetupFails(c) \/ Spawn(c) \/ StoreWorker(c)
  \/ ModelWrite(c)
  \/ AnswerStep(c)
  \/ StopStep(c)

AgentStep(o) ==
  \/ AgentBegin(o)
  \/ AskInput(o) \/ AnnounceInput(o) \/ TakeInput(o)
  \/ AskApproval(o) \/ TakeApproval(o)
  \/ AgentReturns(o) \/ AgentFails(o)
  \/ RecordResult(o) \/ ReportError(o) \/ AgentExit(o)

Next ==
  \/ \E c \in Conns : ClientStep(c) \/ HandlerStep(c)
  \/ \E o \in Objects : AgentStep(o)

Spec == Init /\ [][Next]_vars

(* The run-time system schedules every runnable thread; clients may stay   *)
(* silent forever.                                                         *)
Fairness ==
  /\ \A c \in Conns : WF_vars(HandlerStep(c))
  /\ \A o \in Objects : WF_vars(AgentStep(o))

FairSpec == Spec /\ Fairness

-----------------------------------------------------------------------------
(* Properties                                                              *)

(* doCreate checks the limit and inserts in two steps, so that every       *)
(* connection of a user may be past the check at once: a user never has    *)
(* more sessions in the map than maxSessionsPerUser and one for every      *)
(* connection of theirs but one.                                           *)
ConnsOf(u) == {c \in Conns : UserOf[c] = u}
LimitOverrun ==
  \A c \in Conns :
    Cardinality(UserSessions(UserOf[c])) < MaxSessionsPerUser + Cardinality(ConnsOf(UserOf[c]))

(* Why: an insert that is under way counts like the session it will add.   *)
Inserting(u) == {c \in ConnsOf(u) : pc[c] = "insert"}
OverrunInv ==
  \A c \in Conns :
    LET u == UserOf[c] IN
    Cardinality(UserSessions(u)) + Cardinality(Inserting(u))
      < MaxSessionsPerUser + Cardinality(ConnsOf(u))

(* What every reader of the map relies on: an entry is a session that was  *)
(* allocated for a connection, under its own id.                           *)
MapConsistent ==
  \A s \in InMap :
    /\ sessions[s] <= created
    /\ sidOf[sessions[s]] = s
    /\ home[sessions[s]] \in Conns

(* A handler that is past its lookup works on an allocated session.        *)
HandlersHold ==
  \A c \in Conns : pc[c] \notin {"idle", "insert"} => held[c] \in 1..created

(* respondToSession, approveSession, rejectSession: the answer an agent    *)
(* takes for a prompt was given by a client that saw that very prompt      *)
(* open, or is the one doDestroy leaves to wake it up.                     *)
AnswersFresh ==
  \A o \in Objects :
    taken[o].from \in {"respond", "approve", "reject"} => taken[o].prompt = prompt[o]

(* destroy: "Cancel the agent thread and remove the session from the map": *)
(* no agent is running when its session is about to be removed.            *)
StopCancelsAgent ==
  \A c \in Conns : pc[c] = "stopDelete" => ~Live(held[c])

(* No two handlers work on one session at the same time: each session has  *)
(* one client, which sends a command only when the last one was answered.  *)
HandlersApart ==
  \A c, d \in Conns : held[c] = held[d] /\ held[c] # NoSession => c = d

(* What makes the last two hold for handlers that are apart, as an         *)
(* inductive invariant.  Over: runAgent has been left.  Stopping, Writing: *)
(* a handler is in doDestroy, or in front of its last write.               *)
Over(o) == agent[o] \in {"returned", "caught", "ending", "done"}
AtInput(o) == agent[o] \in {"announce", "input"}
AtApproval(o) == agent[o] = "approve"

StopStates ==
  {"stopInput", "stopApproval", "stopRead", "stopThrow", "stopWait", "stopStatus",
   "stopDelete"}
Stopping(o) == \E c \in Conns : held[c] = o /\ pc[c] \in StopStates
Writing(o) == \E c \in Conns : held[c] = o /\ pc[c] = "write"

(* A status that asks for an answer is that of a waiting agent with an     *)
(* empty MVar, unless a handler is about to overwrite it.                  *)
StatusTrue(o) ==
  ~Over(o) /\ ~Stopping(o) /\ ~Writing(o) =>
    /\ status[o] = "waitingForInput" => AtInput(o) /\ input[o] = Empty
    /\ status[o] = "waitingForApproval" => AtApproval(o) /\ approval[o] = Empty

(* An MVar holds nothing, the answer to the prompt that is open, or what a *)
(* stop that is under way has put there.                                   *)
MVarTrue(o) ==
  ~Over(o) =>
    /\ \/ input[o] = Empty
       \/ input[o].from = "stop" /\ (Stopping(o) \/ agent[o] = "none")
       \/ input[o].from = "respond" /\ input[o].prompt = prompt[o] /\ AtInput(o)
    /\ \/ approval[o] = Empty
       \/ approval[o].from = "stop" /\ (Stopping(o) \/ agent[o] = "none")
       \/ /\ approval[o].from \in {"approve", "reject"}
          /\ approval[o].prompt = prompt[o]
          /\ AtApproval(o)

(* A session whose agent handle is not stored has no agent, or the handler *)
(* that forked it is about to store it; one without agent asks nothing.    *)
WorkerTrue(o) ==
  /\ ~worker[o] => agent[o] = "none" \/ \E c \in Conns : held[c] = o /\ pc[c] = "store"
  /\ agent[o] = "none" => status[o] \notin {"waitingForInput", "waitingForApproval"}
  /\ o > created => agent[o] = "none" /\ input[o] = Empty /\ approval[o] = Empty

(* What a handler knows of its session at its label.                       *)
HandlerTrue(c) ==
  LET o == held[c] IN
  /\ pc[c] \in {"check", "put"} => answer[c].from \in {"respond", "approve", "reject"}
  /\ pc[c] = "setup" => agent[o] = "none" /\ input[o] = Empty /\ approval[o] = Empty
  /\ pc[c] = "put" /\ ~Over(o) =>
       /\ answer[c].prompt = prompt[o]
       /\ IF ForInput(answer[c]) THEN AtInput(o) /\ input[o] = Empty
                                 ELSE AtApproval(o) /\ approval[o] = Empty
  /\ pc[c] \in {"stopStatus", "stopDelete"} => ~Live(o)

AnswerInv ==
  /\ \A o \in Objects : StatusTrue(o) /\ MVarTrue(o) /\ WorkerTrue(o)
  /\ \A c \in Conns : HandlerTrue(c)
  /\ AnswersFresh

(* An agent that waits for an answer nobody has given.                     *)
Starved(o) ==
  \/ agent[o] = "input" /\ input[o] = Empty
  \/ agent[o] = "approve" /\ approval[o] = Empty

(* destroy: a stop command is acknowledged.  The one way for it not to     *)
(* return is an agent that survived the cancellation (a shell command      *)
(* caught it) and then waits for ever at a prompt that nobody answers.     *)
StopReturns ==
  \A c \in Conns :
    pc[c] \in {"stopThrow", "stopWait"} ~>
      (pc[c] = "idle" \/ [](pc[c] = "stopWait" /\ Starved(held[c])))

(* Every command is answered, so the connection stays responsive, but for  *)
(* a stop that waits for such an agent.                                    *)
CommandsReturn ==
  \A c \in Conns :
    []<>(pc[c] = "idle") \/ <>[](pc[c] = "stopWait" /\ Starved(held[c]))

-----------------------------------------------------------------------------
(* What the tests and the documentation say, and the code does not do.     *)

(* An agent that waits for an answer can be answered: its status says what *)
(* it waits for, unless the answer is already there or on its way.         *)
PromptAnswerable ==
  \A o \in Objects :
    (\A c \in Conns : held[c] # o) =>
      /\ agent[o] = "input" /\ input[o] = Empty => status[o] = "waitingForInput"
      /\ agent[o] = "approve" /\ approval[o] = Empty => status[o] = "waitingForApproval"

(* SessionManagerSpec, on creates at the same time: "Exactly               *)
(* maxSessionsPerUser should succeed; the rest must fail."  As long as     *)
(* nothing is stopped, a user is given no more sessions than the limit.    *)
UserLimit ==
  \A u \in Users :
    Cardinality({o \in 1..created : UserOf[home[o]] = u}) <= MaxSessionsPerUser
=============================================================================
