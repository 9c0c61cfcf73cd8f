------------------------ MODULE SessionManagerProofs ------------------------
(***************************************************************************)
(* Proofs about SessionManager, for any connections, users, limit and      *)
(* bounds: type correctness with the consistency of the session map, and   *)
(* by how much the unlocked check lets a user exceed the limit.            *)
(***************************************************************************)
EXTENDS SessionManager, FiniteSetTheorems, TLAPS

(* Entries of the map are distinct sessions, so that the size of the map,  *)
(* which doCreate turns into an id, is at most the number of sessions      *)
(* allocated so far.                                                       *)
LEMMA MapSize ==
  ASSUME TypeOK, MapConsistent
  PROVE  /\ IsFiniteSet(InMap)
         /\ Cardinality(InMap) \in Nat
         /\ Cardinality(InMap) <= created
<1> DEFINE f == [s \in InMap |-> sessions[s]]
<1>1. created \in Nat /\ created <= MaxCreated /\ MaxCreated \in Nat
  BY SessionAssumption DEF TypeOK
<1>2. f \in [InMap -> 1..created]
  <2>1. \A s \in InMap : sessions[s] \in Objects
    BY DEF TypeOK, InMap, NoSession
  <2>2. \A s \in InMap : sessions[s] <= created
    BY DEF MapConsistent
  <2>. QED BY <1>1, <2>1, <2>2 DEF Objects
<1>3. \A s, t \in InMap : sessions[s] = sessions[t] => s = t
  BY DEF MapConsistent
<1>4. f \in Injection(InMap, 1..created)
  BY <1>2, <1>3 DEF Injection, IsInjective
<1>5. IsFiniteSet(1..created) /\ Cardinality(1..created) = created
  BY <1>1, FS_Interval
<1>6. IsFiniteSet(InMap) /\ Cardinality(InMap) <= created
  BY <1>4, <1>5, FS_Injection
<1>. QED BY <1>6, FS_CardinalityType

(* The constant elements that handlers and agents store.                   *)
LEMMA Elements == Empty \in Answer /\ StopAnswer \in Answer /\ 0 \in Sids
BY SessionAssumption DEF Empty, StopAnswer, Answer, Sids

(* What a handler stores in its own registers keeps their types.           *)
LEMMA ReplyTypes ==
  ASSUME TypeOK, NEW c \in Conns, Reply(c)
  PROVE  /\ pc' \in [Conns -> HandlerState]
         /\ held' \in [Conns -> Objects \cup {NoSession}]
         /\ key' \in [Conns -> Sids]
         /\ answer' \in [Conns -> Answer]
BY Elements DEF TypeOK, Reply, HandlerState

(* The same for a handler that goes on.                                    *)
LEMMA GotoTypes ==
  ASSUME TypeOK, NEW c \in Conns, NEW label \in HandlerState, Goto(c, label)
  PROVE  /\ pc' \in [Conns -> HandlerState]
         /\ held' \in [Conns -> Objects \cup {NoSession}]
         /\ key' \in [Conns -> Sids]
         /\ answer' \in [Conns -> Answer]
BY DEF TypeOK, Goto

(* newSessionManager establishes the types, the map and the handlers.      *)
LEMMA TypeInit == Init => TypeOK /\ MapConsistent /\ HandlersHold
BY SessionAssumption
   DEF Init, TypeOK, MapConsistent, HandlersHold, InMap, Objects, Sids, NoSession, Answer,
       Empty, SessionStatus, AgentState, HandlerState

(* Every action keeps the types.                                           *)
LEMMA TypeStep == TypeOK /\ MapConsistent /\ HandlersHold /\ [Next]_vars => TypeOK'
<1> SUFFICES ASSUME TypeOK, MapConsistent, HandlersHold, [Next]_vars PROVE TypeOK'
  OBVIOUS
<1>1. ASSUME NEW c \in Conns, CreateCheck(c) PROVE TypeOK'
  <2>1. Cardinality(InMap) \in Sids
    BY MapSize, SessionAssumption DEF Sids, TypeOK
  <2>. QED BY <1>1, <2>1 DEF CreateCheck, HandlerState, TypeOK, sessionVars, agentVars
<1>2. ASSUME NEW c \in Conns, CreateInsert(c) PROVE TypeOK'
  <2>1. created + 1 \in Objects /\ created + 1 \in 0..MaxCreated
    BY <1>2, SessionAssumption DEF CreateInsert, TypeOK, Objects
  <2>. QED BY <1>2, <2>1 DEF CreateInsert, HandlerState, TypeOK, agentVars
<1>3. ASSUME NEW c \in Conns, SetupFails(c) PROVE TypeOK'
  <2>1. Reply(c)
    BY <1>3 DEF SetupFails
  <2>. QED BY <1>3, <2>1, ReplyTypes
       DEF SetupFails, TypeOK, sessionVars, agentVars
<1>4. ASSUME NEW c \in Conns, Spawn(c) PROVE TypeOK'
  <2>1. Goto(c, "store") /\ "store" \in HandlerState
    BY <1>4 DEF Spawn, HandlerState
  <2>. QED BY <1>4, <2>1, GotoTypes, Elements
       DEF Spawn, AgentState, TypeOK, sessionVars
<1>5. ASSUME NEW c \in Conns, StoreWorker(c) PROVE TypeOK'
  <2>1. Reply(c)
    BY <1>5 DEF StoreWorker
  <2>. QED BY <1>5, <2>1, ReplyTypes
       DEF StoreWorker, TypeOK, agentVars
<1>6. ASSUME NEW c \in Conns, AnswerCheck(c) PROVE TypeOK'
  <2>1. CASE Reply(c)
    BY <1>6, <2>1, ReplyTypes DEF AnswerCheck, TypeOK, sessionVars, agentVars
  <2>2. CASE ~Reply(c)
    <3>1. /\ answer' = [answer EXCEPT ![c].prompt = prompt[held[c]]]
          /\ pc' = [pc EXCEPT ![c] = "put"]
          /\ UNCHANGED <<held, key, sessions, created, sessionVars, agentVars, open>>
      BY <1>6, <2>2 DEF AnswerCheck
    <3>2. held[c] \in Objects
      <4>1. held[c] \in 1..created
        BY <1>6 DEF AnswerCheck, HandlersHold
      <4>2. created \in 0..MaxCreated /\ MaxCreated \in Nat
        BY SessionAssumption DEF TypeOK
      <4>. QED BY <4>1, <4>2 DEF Objects
    <3>3. [answer[c] EXCEPT !.prompt = prompt[held[c]]] \in Answer
      BY <3>2 DEF TypeOK, Answer
    <3>. QED BY <3>1, <3>3 DEF TypeOK, HandlerState, sessionVars, agentVars
  <2>. QED BY <2>1, <2>2
<1>7. ASSUME NEW c \in Conns, AnswerPut(c) PROVE TypeOK'
  <2>1. Goto(c, "write") /\ "write" \in HandlerState
    BY <1>7 DEF AnswerPut, HandlerState
  <2>. QED BY <1>7, <2>1, GotoTypes, Elements
       DEF AnswerPut, TypeOK, agentVars
<1>8. ASSUME NEW c \in Conns, AnswerWrite(c) PROVE TypeOK'
  <2>1. Reply(c)
    BY <1>8 DEF AnswerWrite
  <2>. QED BY <1>8, <2>1, ReplyTypes
       DEF AnswerWrite, SessionStatus, TypeOK, agentVars
<1>9. ASSUME NEW c \in Conns, BlockedForever(c) PROVE TypeOK'
  <2>1. Reply(c)
    BY <1>9 DEF BlockedForever
  <2>. QED BY <1>9, <2>1, ReplyTypes
       DEF BlockedForever, TypeOK, sessionVars, agentVars
<1>10. ASSUME NEW c \in Conns, ModelWrite(c) PROVE TypeOK'
  <2>1. Reply(c)
    BY <1>10 DEF ModelWrite
  <2>. QED BY <1>10, <2>1, ReplyTypes
       DEF ModelWrite, TypeOK, agentVars
<1>11. ASSUME NEW c \in Conns, StopInput(c) PROVE TypeOK'
  <2>1. Goto(c, "stopApproval") /\ "stopApproval" \in HandlerState
    BY <1>11 DEF StopInput, HandlerState
  <2>. QED BY <1>11, <2>1, GotoTypes, Elements
       DEF StopInput, TryPut, TypeOK, agentVars
<1>12. ASSUME NEW c \in Conns, StopApproval(c) PROVE TypeOK'
  <2>1. Goto(c, "stopRead") /\ "stopRead" \in HandlerState
    BY <1>12 DEF StopApproval, HandlerState
  <2>. QED BY <1>12, <2>1, GotoTypes, Elements
       DEF StopApproval, TryPut, TypeOK, agentVars
<1>13. ASSUME NEW c \in Conns, StopRead(c) PROVE TypeOK'
  <2>1. \E l \in HandlerState : Goto(c, l)
    BY <1>13 DEF StopRead, HandlerState
  <2>. QED BY <1>13, <2>1, GotoTypes DEF StopRead, TypeOK, sessionVars, agentVars
<1>14. ASSUME NEW c \in Conns, StopThrow(c) PROVE TypeOK'
  <2>1. Goto(c, "stopWait") /\ "stopWait" \in HandlerState
    BY <1>14 DEF StopThrow, HandlerState
  <2>2. PICK a \in Cancelled(agent[held[c]]) : agent' = [agent EXCEPT ![held[c]] = a]
    BY <1>14 DEF StopThrow
  <2>3. held[c] \in Objects
    <3>1. held[c] \in 1..created
      BY <1>14 DEF StopThrow, HandlersHold
    <3>2. created \in 0..MaxCreated /\ MaxCreated \in Nat
      BY SessionAssumption DEF TypeOK
    <3>. QED BY <3>1, <3>2 DEF Objects
  <2>4. a \in AgentState
    BY <1>14, <2>2, <2>3 DEF StopThrow, Cancelled, AgentState, TypeOK
  <2>. QED BY <1>14, <2>1, <2>2, <2>4, GotoTypes
       DEF StopThrow, TypeOK, sessionVars
<1>15. ASSUME NEW c \in Conns, StopWait(c) PROVE TypeOK'
  <2>1. Goto(c, "stopStatus") /\ "stopStatus" \in HandlerState
    BY <1>15 DEF StopWait, HandlerState
  <2>. QED BY <1>15, <2>1, GotoTypes, Elements
       DEF StopWait, TypeOK, sessionVars, agentVars
<1>16. ASSUME NEW c \in Conns, StopStatus(c) PROVE TypeOK'
  <2>1. Goto(c, "stopDelete") /\ "stopDelete" \in HandlerState
    BY <1>16 DEF StopStatus, HandlerState
  <2>. QED BY <1>16, <2>1, GotoTypes, Elements
       DEF StopStatus, SessionStatus, TypeOK, agentVars
<1>17. ASSUME NEW c \in Conns, StopDelete(c) PROVE TypeOK'
  <2>1. Reply(c)
    BY <1>17 DEF StopDelete
  <2>. QED BY <1>17, <2>1, ReplyTypes
       DEF StopDelete, NoSession, TypeOK, sessionVars, agentVars
<1>18. ASSUME NEW c \in Conns, Disconnect(c) PROVE TypeOK'
  BY <1>18, Elements
  DEF Disconnect, TypeOK, sessionVars, agentVars, handlerVars
<1>19. ASSUME NEW c \in Conns, NEW s \in Sids, ModelLookup(c, s) PROVE TypeOK'
  BY <1>19, Elements
  DEF ModelLookup, HandlerState, TypeOK, sessionVars, agentVars
<1>20. ASSUME NEW c \in Conns, NEW s \in Sids, StopLookup(c, s) PROVE TypeOK'
  BY <1>20, Elements
  DEF StopLookup, HandlerState, TypeOK, sessionVars, agentVars
<1>21. ASSUME NEW c \in Conns, NEW s \in Sids,
            NEW op \in {"respond", "approve", "reject"}, AnswerLookup(c, s, op)
     PROVE TypeOK'
  <2>1. [from |-> op, prompt |-> 0] \in Answer
    BY SessionAssumption DEF Answer
  <2>. QED BY <1>21, <2>1 DEF AnswerLookup, HandlerState, TypeOK, sessionVars, agentVars
<1>22. ASSUME NEW o \in Objects, AgentBegin(o) PROVE TypeOK'
  BY <1>22, Elements
  DEF AgentBegin, Step, AgentState, TypeOK, handlerVars
<1>23. ASSUME NEW o \in Objects, AskInput(o) PROVE TypeOK'
  <2>1. prompt[o] + 1 \in 0..MaxPrompts
    BY <1>23, SessionAssumption DEF AskInput, NewPrompt, TypeOK
  <2>. QED BY <1>23, <2>1, Elements
       DEF AskInput, Step, NewPrompt, AgentState, SessionStatus, TypeOK, handlerVars
<1>24. ASSUME NEW o \in Objects, AnnounceInput(o) PROVE TypeOK'
  BY <1>24, Elements
  DEF AnnounceInput, Step, AgentState, TypeOK, sessionVars, handlerVars
<1>25. ASSUME NEW o \in Objects, TakeInput(o) PROVE TypeOK'
  BY <1>25, Elements
  DEF TakeInput, Step, AgentState, TypeOK, handlerVars
<1>26. ASSUME NEW o \in Objects, AskApproval(o) PROVE TypeOK'
  <2>1. prompt[o] + 1 \in 0..MaxPrompts
    BY <1>26, SessionAssumption DEF AskApproval, NewPrompt, TypeOK
  <2>. QED BY <1>26, <2>1, Elements
       DEF AskApproval, Step, NewPrompt, AgentState, SessionStatus, TypeOK, handlerVars
<1>27. ASSUME NEW o \in Objects, TakeApproval(o) PROVE TypeOK'
  BY <1>27, Elements
  DEF TakeApproval, Step, AgentState, TypeOK, handlerVars
<1>28. ASSUME NEW o \in Objects, AgentReturns(o) PROVE TypeOK'
  BY <1>28, Elements
  DEF AgentReturns, Step, AgentState, TypeOK, sessionVars, handlerVars
<1>29. ASSUME NEW o \in Objects, AgentFails(o) PROVE TypeOK'
  BY <1>29, Elements
  DEF AgentFails, Step, AgentState, TypeOK, sessionVars, handlerVars
<1>30. ASSUME NEW o \in Objects, RecordResult(o) PROVE TypeOK'
  BY <1>30, Elements
  DEF RecordResult, Step, AgentState, SessionStatus, TypeOK, handlerVars
<1>31. ASSUME NEW o \in Objects, ReportError(o) PROVE TypeOK'
  BY <1>31, Elements
  DEF ReportError, Step, AgentState, SessionStatus, TypeOK, handlerVars
<1>32. ASSUME NEW o \in Objects, AgentExit(o) PROVE TypeOK'
  BY <1>32, Elements
  DEF AgentExit, Step, AgentState, TypeOK, sessionVars, handlerVars
<1>33. CASE UNCHANGED vars
  BY <1>33 DEF vars, TypeOK, sessionVars, agentVars, handlerVars
<1>. QED
  BY <1>1, <1>2, <1>3, <1>4, <1>5, <1>6, <1>7, <1>8, <1>9, <1>10, <1>11,
     <1>12, <1>13, <1>14, <1>15, <1>16, <1>17, <1>18, <1>19, <1>20, <1>21,
     <1>22, <1>23, <1>24, <1>25, <1>26, <1>27, <1>28, <1>29, <1>30, <1>31,
     <1>32, <1>33
  DEF Next, ClientStep, HandlerStep, AnswerStep, StopStep, AgentStep

(* Only the insert of doCreate and the delete of doDestroy change the map. *)
LEMMA MapFrame ==
  ASSUME [Next]_vars
  PROVE  \/ \E c \in Conns : CreateInsert(c)
         \/ \E c \in Conns : StopDelete(c)
         \/ UNCHANGED <<sessions, created, sidOf, home>>
<1>1. ASSUME NEW c \in Conns, ClientStep(c)
      PROVE  UNCHANGED <<sessions, created, sidOf, home>>
  BY <1>1 DEF ClientStep, CreateCheck, Disconnect, AnswerLookup, ModelLookup,
              StopLookup, sessionVars
<1>2. ASSUME NEW c \in Conns, HandlerStep(c), ~CreateInsert(c), ~StopDelete(c)
      PROVE  UNCHANGED <<sessions, created, sidOf, home>>
  BY <1>2 DEF HandlerStep, SetupFails, Spawn, StoreWorker, ModelWrite,
              AnswerStep, AnswerCheck, AnswerPut, AnswerWrite, BlockedForever,
              StopStep, StopInput, StopApproval, StopRead, StopThrow, StopWait,
              StopStatus, sessionVars
<1>3. ASSUME NEW o \in Objects, AgentStep(o)
      PROVE  UNCHANGED <<sessions, created, sidOf, home>>
  BY <1>3 DEF AgentStep, AgentBegin, AskInput, AnnounceInput, TakeInput,
              AskApproval, TakeApproval, AgentReturns, AgentFails,
              RecordResult, ReportError, AgentExit, sessionVars
<1>4. CASE UNCHANGED vars
  BY <1>4 DEF vars, sessionVars
<1>. QED BY <1>1, <1>2, <1>3, <1>4 DEF Next

(* Every action keeps the map consistent: an insert puts a fresh session   *)
(* under its own id, a delete only removes.                                *)
LEMMA MapStep ==
  TypeOK /\ MapConsistent /\ [Next]_vars => MapConsistent'
<1> SUFFICES ASSUME TypeOK, MapConsistent, [Next]_vars PROVE MapConsistent'
  OBVIOUS
<1>1. ASSUME NEW c \in Conns, CreateInsert(c) PROVE MapConsistent'
  <2>1. /\ created \in Nat
        /\ created + 1 \in Objects
        /\ \A s \in InMap : sessions[s] \in Objects /\ sessions[s] # created + 1
    BY <1>1, SessionAssumption
    DEF CreateInsert, TypeOK, MapConsistent, InMap, Objects, NoSession
  <2>2. \A s \in InMap' : s # key[c] => s \in InMap /\ sessions'[s] = sessions[s]
    BY <1>1 DEF CreateInsert, InMap, TypeOK
  <2>3. /\ sessions'[key[c]] = created + 1
        /\ sidOf'[created + 1] = key[c]
        /\ home'[created + 1] = c
        /\ created' = created + 1
        /\ \A o \in Objects : o # created + 1 => sidOf'[o] = sidOf[o] /\ home'[o] = home[o]
    BY <1>1, <2>1 DEF CreateInsert, TypeOK
  <2>4. ASSUME NEW s \in InMap'
        PROVE  /\ sessions'[s] <= created'
               /\ sidOf'[sessions'[s]] = s
               /\ home'[sessions'[s]] \in Conns
    <3>1. CASE s = key[c]
      BY <2>1, <2>3, <3>1
    <3>2. CASE s # key[c]
      <4>1. s \in InMap /\ sessions'[s] = sessions[s]
        BY <2>2, <3>2
      <4>2. /\ sidOf'[sessions[s]] = sidOf[sessions[s]]
            /\ home'[sessions[s]] = home[sessions[s]]
        BY <2>1, <2>3, <4>1
      <4>3. sessions[s] <= created /\ sidOf[sessions[s]] = s /\ home[sessions[s]] \in Conns
        BY <4>1 DEF MapConsistent
      <4>4. sessions[s] \in Nat
        BY <2>1, <4>1 DEF Objects
      <4>. QED BY <2>1, <2>3, <4>1, <4>2, <4>3, <4>4
    <3>. QED BY <3>1, <3>2
  <2>. QED BY <2>4 DEF MapConsistent
<1>2. ASSUME NEW c \in Conns, StopDelete(c) PROVE MapConsistent'
  BY <1>2 DEF StopDelete, MapConsistent, InMap, TypeOK, sessionVars
<1>3. CASE UNCHANGED <<sessions, created, sidOf, home>>
  BY <1>3 DEF MapConsistent, InMap
<1>. QED BY <1>1, <1>2, <1>3, MapFrame

(* Every action leaves a handler past its lookup on an allocated session.  *)
LEMMA HoldStep ==
  TypeOK /\ MapConsistent /\ HandlersHold /\ [Next]_vars => HandlersHold'
<1> SUFFICES ASSUME TypeOK, MapConsistent, HandlersHold, [Next]_vars PROVE HandlersHold'
  OBVIOUS
<1>1. ASSUME NEW c \in Conns, CreateCheck(c) PROVE HandlersHold'
  BY <1>1 DEF CreateCheck, HandlersHold, TypeOK
<1>2. ASSUME NEW c \in Conns, CreateInsert(c) PROVE HandlersHold'
  BY <1>2 DEF CreateInsert, HandlersHold, TypeOK
<1>3. ASSUME NEW c \in Conns, SetupFails(c) PROVE HandlersHold'
  BY <1>3 DEF SetupFails, Reply, HandlersHold, TypeOK
<1>4. ASSUME NEW c \in Conns, Spawn(c) PROVE HandlersHold'
  BY <1>4 DEF Spawn, Goto, HandlersHold, TypeOK
<1>5. ASSUME NEW c \in Conns, StoreWorker(c) PROVE HandlersHold'
  BY <1>5 DEF StoreWorker, Reply, HandlersHold, TypeOK
<1>6. ASSUME NEW c \in Conns, AnswerCheck(c) PROVE HandlersHold'
  BY <1>6 DEF AnswerCheck, Reply, HandlersHold, TypeOK
<1>7. ASSUME NEW c \in Conns, AnswerPut(c) PROVE HandlersHold'
  BY <1>7 DEF AnswerPut, Goto, HandlersHold, TypeOK
<1>8. ASSUME NEW c \in Conns, AnswerWrite(c) PROVE HandlersHold'
  BY <1>8 DEF AnswerWrite, Reply, HandlersHold, TypeOK
<1>9. ASSUME NEW c \in Conns, BlockedForever(c) PROVE HandlersHold'
  BY <1>9 DEF BlockedForever, Reply, HandlersHold, TypeOK
<1>10. ASSUME NEW c \in Conns, ModelWrite(c) PROVE HandlersHold'
  BY <1>10 DEF ModelWrite, Reply, HandlersHold, TypeOK
<1>11. ASSUME NEW c \in Conns, StopInput(c) PROVE HandlersHold'
  BY <1>11 DEF StopInput, Goto, HandlersHold, TypeOK
<1>12. ASSUME NEW c \in Conns, StopApproval(c) PROVE HandlersHold'
  BY <1>12 DEF StopApproval, Goto, HandlersHold, TypeOK
<1>13. ASSUME NEW c \in Conns, StopRead(c) PROVE HandlersHold'
  BY <1>13 DEF StopRead, Goto, HandlersHold, TypeOK
<1>14. ASSUME NEW c \in Conns, StopThrow(c) PROVE HandlersHold'
  BY <1>14 DEF StopThrow, Goto, HandlersHold, TypeOK
<1>15. ASSUME NEW c \in Conns, StopWait(c) PROVE HandlersHold'
  BY <1>15 DEF StopWait, Goto, HandlersHold, TypeOK
<1>16. ASSUME NEW c \in Conns, StopStatus(c) PROVE HandlersHold'
  BY <1>16 DEF StopStatus, Goto, HandlersHold, TypeOK
<1>17. ASSUME NEW c \in Conns, StopDelete(c) PROVE HandlersHold'
  BY <1>17 DEF StopDelete, Reply, HandlersHold, TypeOK
<1>18. ASSUME NEW c \in Conns, NEW s \in Sids,
             ModelLookup(c, s)
      PROVE  HandlersHold'
  <2>1. sessions[s] \in 1..created
    BY <1>18 DEF ModelLookup, MapConsistent, InMap, TypeOK, Objects, NoSession
  <2>. QED BY <1>18, <2>1 DEF ModelLookup, HandlersHold, TypeOK
<1>19. ASSUME NEW c \in Conns, NEW s \in Sids,
             StopLookup(c, s)
      PROVE  HandlersHold'
  <2>1. sessions[s] \in 1..created
    BY <1>19 DEF StopLookup, MapConsistent, InMap, TypeOK, Objects, NoSession
  <2>. QED BY <1>19, <2>1 DEF StopLookup, HandlersHold, TypeOK
<1>20. ASSUME NEW c \in Conns, NEW s \in Sids,
             \E op \in {"respond", "approve", "reject"} : AnswerLookup(c, s, op)
      PROVE  HandlersHold'
  <2>1. sessions[s] \in 1..created
    BY <1>20 DEF AnswerLookup, MapConsistent, InMap, TypeOK, Objects, NoSession
  <2>. QED BY <1>20, <2>1 DEF AnswerLookup, HandlersHold, TypeOK
<1>21. ASSUME NEW c \in Conns, Disconnect(c) PROVE HandlersHold'
  BY <1>21 DEF Disconnect, handlerVars, HandlersHold
<1>22. ASSUME NEW o \in Objects, AgentStep(o) PROVE HandlersHold'
  BY <1>22 DEF AgentStep, AgentBegin, AskInput, AnnounceInput, TakeInput,
              AskApproval, TakeApproval, AgentReturns, AgentFails,
              RecordResult, ReportError, AgentExit, handlerVars, HandlersHold
<1>23. CASE UNCHANGED vars
  BY <1>23 DEF vars, handlerVars, HandlersHold
<1>. QED
  BY <1>1, <1>2, <1>3, <1>4, <1>5, <1>6, <1>7, <1>8, <1>9, <1>10, <1>11,
     <1>12, <1>13, <1>14, <1>15, <1>16, <1>17, <1>18, <1>19, <1>20, <1>21,
     <1>22, <1>23
  DEF Next, ClientStep, HandlerStep, AnswerStep, StopStep

(* Spec keeps every variable of the session layer within its type, every   *)
(* entry of the session map a session allocated under that id, and every   *)
(* handler past its lookup on an allocated session.                        *)
THEOREM TypeCorrect == Spec => [](TypeOK /\ MapConsistent /\ HandlersHold)
BY TypeInit, TypeStep, MapStep, HoldStep, PTL DEF Spec

-----------------------------------------------------------------------------
(* Only the check of doCreate brings a handler in front of the insert.     *)
LEMMA InsertFrame ==
  ASSUME TypeOK, [Next]_vars, NEW d \in Conns, pc'[d] = "insert", pc[d] # "insert"
  PROVE  CreateCheck(d)
<1>1. ASSUME NEW c \in Conns, ClientStep(c), ~CreateCheck(c) PROVE pc'[d] # "insert"
  BY <1>1 DEF ClientStep, Disconnect, AnswerLookup, ModelLookup, StopLookup,
              handlerVars, TypeOK
<1>2. ASSUME NEW c \in Conns, CreateCheck(c), c # d PROVE pc'[d] # "insert"
  BY <1>2 DEF CreateCheck, TypeOK
<1>3. ASSUME NEW c \in Conns, HandlerStep(c) PROVE pc'[d] # "insert"
  BY <1>3 DEF HandlerStep, CreateInsert, SetupFails, Spawn, StoreWorker,
              ModelWrite, AnswerStep, AnswerCheck, AnswerPut, AnswerWrite,
              BlockedForever, StopStep, StopInput, StopApproval, StopRead,
              StopThrow, StopWait, StopStatus, StopDelete, Reply, Goto, TypeOK
<1>4. ASSUME NEW o \in Objects, AgentStep(o) PROVE pc'[d] # "insert"
  BY <1>4 DEF AgentStep, AgentBegin, AskInput, AnnounceInput, TakeInput,
              AskApproval, TakeApproval, AgentReturns, AgentFails,
              RecordResult, ReportError, AgentExit, handlerVars
<1>5. CASE UNCHANGED vars
  BY <1>5 DEF vars, handlerVars
<1>. QED BY <1>1, <1>2, <1>3, <1>4, <1>5 DEF Next

(* Counting: the sessions of a user are finitely many, and a set with at   *)
(* most one more element has at most one more.                             *)
LEMMA UserSessionsFinite ==
  ASSUME TypeOK, MapConsistent, NEW u
  PROVE  IsFiniteSet(UserSessions(u)) /\ Cardinality(UserSessions(u)) \in Nat
<1>1. UserSessions(u) \in SUBSET InMap
  BY DEF UserSessions
<1>. QED BY <1>1, MapSize, FS_Subset, FS_CardinalityType

(* A subset of a finite set has no more elements.                          *)
LEMMA CountSubset ==
  ASSUME NEW A, NEW B, IsFiniteSet(B), A \subseteq B
  PROVE  Cardinality(A) \in Nat /\ Cardinality(A) <= Cardinality(B)
BY FS_Subset, FS_CardinalityType

(* One element more is at most one more in the count.                      *)
LEMMA CountOneMore ==
  ASSUME NEW A, NEW B, NEW x, IsFiniteSet(B), A \subseteq B \cup {x}
  PROVE  Cardinality(A) \in Nat /\ Cardinality(A) <= Cardinality(B) + 1
<1>1. IsFiniteSet(B \cup {x}) /\ Cardinality(B \cup {x}) <= Cardinality(B) + 1
  <2>1. Cardinality(B) \in Nat
    BY FS_CardinalityType
  <2>. QED BY <2>1, FS_AddElement
<1>2. Cardinality(B) \in Nat /\ Cardinality(B \cup {x}) \in Nat
  BY <1>1, FS_CardinalityType
<1>3. Cardinality(A) \in Nat /\ Cardinality(A) <= Cardinality(B \cup {x})
  BY <1>1, CountSubset
<1>. QED BY <1>1, <1>2, <1>3

(* An insert adds at most its id to the sessions of its own user, and      *)
(* nothing to those of another.                                            *)
LEMMA InsertAdds ==
  ASSUME TypeOK, MapConsistent, NEW c \in Conns, CreateInsert(c), NEW u
  PROVE  /\ UserSessions(u)' \subseteq UserSessions(u) \cup {key[c]}
         /\ u # UserOf[c] => UserSessions(u)' \subseteq UserSessions(u)
<1>1. /\ created \in Nat
      /\ created + 1 \in Objects
      /\ key[c] \in Sids
      /\ \A s \in InMap : sessions[s] \in Objects /\ sessions[s] # created + 1
  BY SessionAssumption
  DEF CreateInsert, TypeOK, MapConsistent, InMap, Objects, NoSession
<1>2. sessions'[key[c]] = created + 1 /\ home'[created + 1] = c
  BY <1>1 DEF CreateInsert, TypeOK
<1>3. ASSUME NEW s \in UserSessions(u)', s # key[c] PROVE s \in UserSessions(u)
  <2>1. s \in InMap /\ sessions'[s] = sessions[s]
    BY <1>3 DEF CreateInsert, UserSessions, InMap, TypeOK
  <2>2. home'[sessions[s]] = home[sessions[s]]
    BY <1>1, <2>1 DEF CreateInsert, TypeOK
  <2>. QED BY <1>3, <2>1, <2>2 DEF UserSessions
<1>4. key[c] \in UserSessions(u)' => u = UserOf[c]
  BY <1>2 DEF UserSessions
<1>. QED BY <1>3, <1>4

(* Connections that stand in front of their insert are finitely many.      *)
LEMMA InsertingFinite ==
  ASSUME NEW u
  PROVE  /\ IsFiniteSet(ConnsOf(u)) /\ Cardinality(ConnsOf(u)) \in Nat
         /\ IsFiniteSet(Inserting(u)) /\ Cardinality(Inserting(u)) \in Nat
         /\ Cardinality(Inserting(u)) <= Cardinality(ConnsOf(u))
<1>1. IsFiniteSet(ConnsOf(u))
  BY SessionAssumption, FS_Subset DEF ConnsOf
<1>2. Inserting(u) \subseteq ConnsOf(u)
  BY DEF Inserting
<1>. QED BY <1>1, <1>2, CountSubset, FS_Subset, FS_CardinalityType

(* Every action keeps the sum: the check of doCreate passes only below the *)
(* limit, and an insert turns a connection that waits into a session.      *)
LEMMA OverrunStep ==
  ASSUME TypeOK, MapConsistent, OverrunInv, [Next]_vars
  PROVE  OverrunInv'
<1> SUFFICES ASSUME NEW d \in Conns, NEW u, u = UserOf[d]
             PROVE  Cardinality(UserSessions(u)') + Cardinality(Inserting(u)')
                      < MaxSessionsPerUser + Cardinality(ConnsOf(u))
  BY DEF OverrunInv, ConnsOf
<1>0. /\ Cardinality(UserSessions(u)) + Cardinality(Inserting(u))
           < MaxSessionsPerUser + Cardinality(ConnsOf(u))
      /\ Cardinality(UserSessions(u)) \in Nat
      /\ IsFiniteSet(UserSessions(u))
      /\ IsFiniteSet(Inserting(u)) /\ Cardinality(Inserting(u)) \in Nat
      /\ IsFiniteSet(ConnsOf(u)) /\ Cardinality(ConnsOf(u)) \in Nat
      /\ MaxSessionsPerUser \in Nat
  BY UserSessionsFinite, InsertingFinite, SessionAssumption DEF OverrunInv
<1>1. ASSUME NEW c \in Conns, CreateInsert(c)
      PROVE  Cardinality(UserSessions(u)') + Cardinality(Inserting(u)')
               < MaxSessionsPerUser + Cardinality(ConnsOf(u))
  <2>1. Inserting(u)' \subseteq Inserting(u) \ {c}
    BY <1>1 DEF CreateInsert, Inserting, ConnsOf, TypeOK
  <2>2. IsFiniteSet(Inserting(u) \ {c})
    BY <1>0, FS_RemoveElement
  <2>3. CASE u = UserOf[c]
    <3>1. /\ Cardinality(UserSessions(u)') \in Nat
          /\ Cardinality(UserSessions(u)') <= Cardinality(UserSessions(u)) + 1
      BY <1>0, <1>1, InsertAdds, CountOneMore
    <3>2. c \in Inserting(u)
      BY <1>1, <2>3 DEF CreateInsert, Inserting, ConnsOf
    <3>3. Cardinality(Inserting(u) \ {c}) = Cardinality(Inserting(u)) - 1
      BY <1>0, <3>2, FS_RemoveElement
    <3>4. /\ Cardinality(Inserting(u)') \in Nat
          /\ Cardinality(Inserting(u)') <= Cardinality(Inserting(u)) - 1
      BY <2>1, <2>2, <3>3, CountSubset
    <3>. QED BY <1>0, <3>1, <3>4
  <2>4. CASE u # UserOf[c]
    <3>1. /\ Cardinality(UserSessions(u)') \in Nat
          /\ Cardinality(UserSessions(u)') <= Cardinality(UserSessions(u))
      BY <1>0, <1>1, <2>4, InsertAdds, CountSubset
    <3>2. /\ Cardinality(Inserting(u)') \in Nat
          /\ Cardinality(Inserting(u)') <= Cardinality(Inserting(u))
      BY <1>0, <2>1, CountSubset
    <3>. QED BY <1>0, <3>1, <3>2
  <2>. QED BY <2>3, <2>4
<1>2. ASSUME UserSessions(u)' \subseteq UserSessions(u), \A c \in Conns : ~CreateCheck(c)
      PROVE  Cardinality(UserSessions(u)') + Cardinality(Inserting(u)')
               < MaxSessionsPerUser + Cardinality(ConnsOf(u))
  <2>1. Inserting(u)' \subseteq Inserting(u)
    BY <1>2, InsertFrame DEF Inserting, ConnsOf
  <2>2. /\ Cardinality(UserSessions(u)') \in Nat
        /\ Cardinality(UserSessions(u)') <= Cardinality(UserSessions(u))
    BY <1>0, <1>2, CountSubset
  <2>3. /\ Cardinality(Inserting(u)') \in Nat
        /\ Cardinality(Inserting(u)') <= Cardinality(Inserting(u))
    BY <1>0, <2>1, CountSubset
  <2>. QED BY <1>0, <2>2, <2>3
<1>3. ASSUME NEW c \in Conns, StopDelete(c)
      PROVE  Cardinality(UserSessions(u)') + Cardinality(Inserting(u)')
               < MaxSessionsPerUser + Cardinality(ConnsOf(u))
  <2>1. UserSessions(u)' \subseteq UserSessions(u)
    BY <1>3 DEF StopDelete, UserSessions, InMap, NoSession, TypeOK, sessionVars
  <2>2. \A e \in Conns : ~CreateCheck(e)
    BY <1>3 DEF StopDelete, Reply, CreateCheck, TypeOK
  <2>. QED BY <1>2, <2>1, <2>2
<1>4. ASSUME UNCHANGED <<sessions, created, sidOf, home>>, \A c \in Conns : ~CreateCheck(c)
      PROVE  Cardinality(UserSessions(u)') + Cardinality(Inserting(u)')
               < MaxSessionsPerUser + Cardinality(ConnsOf(u))
  <2>1. UserSessions(u)' = UserSessions(u)
    BY <1>4 DEF UserSessions, InMap
  <2>. QED BY <1>2, <1>4, <2>1
<1>5. ASSUME NEW c \in Conns, CreateCheck(c)
      PROVE  Cardinality(UserSessions(u)') + Cardinality(Inserting(u)')
               < MaxSessionsPerUser + Cardinality(ConnsOf(u))
  <2>1. UserSessions(u)' = UserSessions(u)
    BY <1>5 DEF CreateCheck, UserSessions, InMap, sessionVars
  <2>2. CASE u = UserOf[c]
    <3>1. Cardinality(UserSessions(u)) < MaxSessionsPerUser
      BY <1>5, <2>2 DEF CreateCheck
    <3>2. Inserting(u)' \subseteq ConnsOf(u)
      BY DEF Inserting, ConnsOf
    <3>3. /\ Cardinality(Inserting(u)') \in Nat
          /\ Cardinality(Inserting(u)') <= Cardinality(ConnsOf(u))
      BY <1>0, <3>2, CountSubset
    <3>. QED BY <1>0, <2>1, <3>1, <3>3
  <2>3. CASE u # UserOf[c]
    <3>1. Inserting(u)' \subseteq Inserting(u)
      BY <1>5, <2>3 DEF CreateCheck, Inserting, ConnsOf, TypeOK
    <3>2. /\ Cardinality(Inserting(u)') \in Nat
          /\ Cardinality(Inserting(u)') <= Cardinality(Inserting(u))
      BY <1>0, <3>1, CountSubset
    <3>. QED BY <1>0, <2>1, <3>2
  <2>. QED BY <2>2, <2>3
<1>. QED BY <1>1, <1>3, <1>4, <1>5, MapFrame

(* However the unlocked checks and inserts of doCreate interleave, a user  *)
(* exceeds maxSessionsPerUser by less than the number of their             *)
(* connections; with one connection the limit is exact.                    *)
THEOREM OverrunBounded == Spec => []LimitOverrun
<1>1. Init => OverrunInv
  <2> SUFFICES ASSUME Init, NEW c \in Conns, NEW u, u = UserOf[c]
               PROVE  Cardinality(UserSessions(u)) + Cardinality(Inserting(u))
                        < MaxSessionsPerUser + Cardinality(ConnsOf(u))
    BY DEF OverrunInv
  <2>1. UserSessions(u) = {} /\ Inserting(u) = {}
    BY DEF Init, UserSessions, InMap, Inserting, ConnsOf
  <2>2. Cardinality(UserSessions(u)) = 0 /\ Cardinality(Inserting(u)) = 0
    BY <2>1, FS_EmptySet
  <2>3. c \in ConnsOf(u)
    BY DEF ConnsOf
  <2>4. Cardinality(ConnsOf(u)) \in Nat /\ Cardinality(ConnsOf(u)) # 0
    BY <2>3, InsertingFinite, FS_EmptySet
  <2>. QED BY <2>2, <2>4, SessionAssumption
<1>2. TypeOK /\ MapConsistent /\ HandlersHold /\ OverrunInv /\ [Next]_vars => OverrunInv'
  BY OverrunStep
<1>3. TypeOK /\ MapConsistent /\ OverrunInv => LimitOverrun
  <2> SUFFICES ASSUME TypeOK, MapConsistent, OverrunInv, NEW c \in Conns, NEW u, u = UserOf[c]
               PROVE  Cardinality(UserSessions(u)) < MaxSessionsPerUser + Cardinality(ConnsOf(u))
    BY DEF LimitOverrun
  <2>1. Cardinality(UserSessions(u)) + Cardinality(Inserting(u))
          < MaxSessionsPerUser + Cardinality(ConnsOf(u))
    BY DEF OverrunInv
  <2>. QED BY <2>1, UserSessionsFinite, InsertingFinite, SessionAssumption
<1>. QED BY <1>1, <1>2, <1>3, TypeCorrect, PTL DEF Spec
=============================================================================
