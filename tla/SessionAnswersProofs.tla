------------------------ MODULE SessionAnswersProofs ------------------------
(***************************************************************************)
(* Proofs about the answers and the stop commands of SessionManager, for   *)
(* any sessions, users, limit and bounds: with one connection an agent     *)
(* takes no answer that was meant for another prompt, and a session is     *)
(* removed only when its agent is over.  The lemmas need less: that no two *)
(* handlers work on one session at a time, which the code does not ensure  *)
(* for more connections.                                                   *)
(***************************************************************************)
EXTENDS SessionManagerProofs

(* What a session manager starts with.                                     *)
LEMMA AnswerInvInit == Init => AnswerInv
<1> SUFFICES ASSUME Init PROVE AnswerInv
  OBVIOUS
<1>1. \A o \in Objects : /\ agent[o] = "none" /\ status[o] = "active"
                         /\ input[o] = Empty /\ approval[o] = Empty /\ taken[o] = Empty
  BY DEF Init
<1>2. \A c \in Conns : pc[c] = "idle"
  BY DEF Init
<1>3. \A o \in Objects : StatusTrue(o) /\ MVarTrue(o) /\ WorkerTrue(o)
  BY <1>1 DEF StatusTrue, MVarTrue, WorkerTrue
<1>4. \A c \in Conns : HandlerTrue(c)
  BY <1>2 DEF HandlerTrue
<1>5. AnswersFresh
  BY <1>1 DEF AnswersFresh, Empty
<1>. QED BY <1>3, <1>4, <1>5 DEF AnswerInv

(* Every step of a client, a handler or an agent keeps the invariant.  For *)
(* each action: what it does to the status, the MVars and the thread of a  *)
(* session, what the handlers know, and what the agent has taken.          *)
LEMMA AnswerInvStep ==
  ASSUME TypeOK, MapConsistent, HandlersHold, HandlersApart, HandlersApart',
         AnswerInv, [Next]_vars
  PROVE  AnswerInv'
<1>held. \A c \in Conns : pc[c] \notin {"idle", "insert"} =>
           held[c] \in Objects /\ held[c] # NoSession /\ held[c] <= created
  BY SessionAssumption DEF HandlersHold, TypeOK, Objects, NoSession
<1>num. created \in Nat /\ MaxCreated \in Nat
  BY SessionAssumption DEF TypeOK
<1>1. ASSUME NEW c \in Conns, CreateCheck(c) PROVE AnswerInv'
  <2>1. ASSUME NEW p \in Objects PROVE StatusTrue(p)'
    BY <1>1, <2>1 DEF CreateCheck, Ready, sessionVars, agentVars, StatusTrue,
       Over, AtInput, AtApproval, Stopping, Writing, StopStates, AnswerInv
  <2>2. ASSUME NEW p \in Objects PROVE MVarTrue(p)'
    BY <1>1, <2>2 DEF CreateCheck, Ready, sessionVars, agentVars, MVarTrue,
       Over, AtInput, AtApproval, Stopping, StopStates, AnswerInv
  <2>3. ASSUME NEW p \in Objects PROVE WorkerTrue(p)'
    BY <1>1, <2>3 DEF CreateCheck, Ready, sessionVars, agentVars, WorkerTrue,
       AnswerInv
  <2>4. ASSUME NEW d \in Conns PROVE HandlerTrue(d)'
    BY <1>1, <2>4 DEF CreateCheck, sessionVars, agentVars, HandlerTrue, Over,
       AtInput, AtApproval, Live, AnswerInv
  <2>5. AnswersFresh'
    BY <1>1 DEF CreateCheck, agentVars, AnswersFresh, AnswerInv
  <2>. QED BY <2>1, <2>2, <2>3, <2>4, <2>5 DEF AnswerInv
<1>2. ASSUME NEW c \in Conns, CreateInsert(c) PROVE AnswerInv'
  <2>1. ASSUME NEW p \in Objects PROVE StatusTrue(p)'
    BY <1>2, <2>1 DEF CreateInsert, agentVars, StatusTrue, Over, AtInput,
       AtApproval, Stopping, Writing, StopStates, AnswerInv
  <2>2. ASSUME NEW p \in Objects PROVE MVarTrue(p)'
    BY <1>2, <2>2 DEF CreateInsert, agentVars, MVarTrue, Over, AtInput,
       AtApproval, Stopping, StopStates, AnswerInv
  <2>3. ASSUME NEW p \in Objects PROVE WorkerTrue(p)'
    BY <1>2, <2>3 DEF CreateInsert, agentVars, WorkerTrue, Objects, AnswerInv,
       TypeOK
  <2>4. ASSUME NEW d \in Conns PROVE HandlerTrue(d)'
    <3>1. CASE d = c
      <4>1. created + 1 \in Objects /\ created + 1 > created
        BY <1>2, <1>num DEF CreateInsert, Objects
      <4>2. WorkerTrue(created + 1)
        BY <4>1 DEF AnswerInv
      <4>3. pc'[c] = "setup" /\ held'[c] = created + 1
        BY <1>2 DEF CreateInsert, TypeOK
      <4>. QED BY <1>2, <3>1, <4>1, <4>2, <4>3 DEF CreateInsert, agentVars,
         HandlerTrue, WorkerTrue
    <3>2. CASE d # c
      <4>1. pc'[d] = pc[d] /\ held'[d] = held[d] /\ answer' = answer
        BY <1>2, <3>2 DEF CreateInsert, TypeOK
      <4>. QED BY <1>2, <4>1 DEF CreateInsert, agentVars, AnswerInv,
         HandlerTrue, Over, AtInput, AtApproval, Live
    <3>. QED BY <3>1, <3>2
  <2>5. AnswersFresh'
    BY <1>2 DEF CreateInsert, agentVars, AnswersFresh, AnswerInv
  <2>. QED BY <2>1, <2>2, <2>3, <2>4, <2>5 DEF AnswerInv
<1>3. ASSUME NEW c \in Conns, SetupFails(c) PROVE AnswerInv'
  <2>1. ASSUME NEW p \in Objects PROVE StatusTrue(p)'
    BY <1>3, <2>1 DEF SetupFails, Reply, sessionVars, agentVars, StatusTrue,
       Over, AtInput, AtApproval, Stopping, Writing, StopStates, AnswerInv
  <2>2. ASSUME NEW p \in Objects PROVE MVarTrue(p)'
    BY <1>3, <2>2 DEF SetupFails, Reply, sessionVars, agentVars, MVarTrue,
       Over, AtInput, AtApproval, Stopping, StopStates, AnswerInv
  <2>3. ASSUME NEW p \in Objects PROVE WorkerTrue(p)'
    BY <1>3, <2>3 DEF SetupFails, Reply, sessionVars, agentVars, WorkerTrue,
       AnswerInv
  <2>4. ASSUME NEW d \in Conns PROVE HandlerTrue(d)'
    BY <1>3, <2>4 DEF SetupFails, Reply, sessionVars, agentVars, HandlerTrue,
       Over, AtInput, AtApproval, Live, AnswerInv, TypeOK
  <2>5. AnswersFresh'
    BY <1>3 DEF SetupFails, agentVars, AnswersFresh, AnswerInv
  <2>. QED BY <2>1, <2>2, <2>3, <2>4, <2>5 DEF AnswerInv
<1>4. ASSUME NEW c \in Conns, Spawn(c) PROVE AnswerInv'
  <2>1. ASSUME NEW p \in Objects PROVE StatusTrue(p)'
    BY <1>4, <2>1 DEF Spawn, Goto, sessionVars, StatusTrue, Over, AtInput,
       AtApproval, Stopping, Writing, StopStates, HandlerTrue, AnswerInv
  <2>2. ASSUME NEW p \in Objects PROVE MVarTrue(p)'
    BY <1>4, <2>2 DEF Spawn, Goto, sessionVars, MVarTrue, Over, AtInput,
       AtApproval, Stopping, HandlerTrue, AnswerInv
  <2>3. ASSUME NEW p \in Objects PROVE WorkerTrue(p)'
    <3>1. p > created => p # held[c]
      BY <1>4, <1>held, <1>num DEF Spawn, Objects
    <3>2. CASE p = held[c]
      BY <1>4, <3>1, <3>2, <1>held DEF Spawn, Goto, sessionVars, WorkerTrue,
         TypeOK
    <3>3. CASE p # held[c]
      BY <1>4, <3>3, <1>held DEF Spawn, Goto, sessionVars, AnswerInv,
         WorkerTrue, TypeOK
    <3>. QED BY <3>2, <3>3
  <2>4. ASSUME NEW d \in Conns PROVE HandlerTrue(d)'
    BY <1>4, <2>4, <1>held DEF Spawn, Goto, sessionVars, HandlerTrue, Over,
       AtInput, AtApproval, Live, AnswerInv, TypeOK, HandlersApart
  <2>5. AnswersFresh'
    BY <1>4 DEF Spawn, AnswersFresh, AnswerInv
  <2>. QED BY <2>1, <2>2, <2>3, <2>4, <2>5 DEF AnswerInv
<1>5. ASSUME NEW c \in Conns, StoreWorker(c) PROVE AnswerInv'
  <2>1. ASSUME NEW p \in Objects PROVE StatusTrue(p)'
    BY <1>5, <2>1 DEF StoreWorker, Reply, agentVars, StatusTrue, Over, AtInput,
       AtApproval, Stopping, Writing, StopStates, AnswerInv
  <2>2. ASSUME NEW p \in Objects PROVE MVarTrue(p)'
    BY <1>5, <2>2 DEF StoreWorker, Reply, agentVars, MVarTrue, Over, AtInput,
       AtApproval, Stopping, StopStates, AnswerInv
  <2>3. ASSUME NEW p \in Objects PROVE WorkerTrue(p)'
    BY <1>5, <2>3 DEF StoreWorker, Reply, agentVars, WorkerTrue, AnswerInv,
       TypeOK
  <2>4. ASSUME NEW d \in Conns PROVE HandlerTrue(d)'
    BY <1>5, <2>4 DEF StoreWorker, Reply, agentVars, HandlerTrue, Over,
       AtInput, AtApproval, Live, AnswerInv
  <2>5. AnswersFresh'
    BY <1>5 DEF StoreWorker, agentVars, AnswersFresh, AnswerInv
  <2>. QED BY <2>1, <2>2, <2>3, <2>4, <2>5 DEF AnswerInv
<1>6. ASSUME NEW c \in Conns, AnswerCheck(c) PROVE AnswerInv'
  <2>1. ASSUME NEW p \in Objects PROVE StatusTrue(p)'
    <3>1. /\ UNCHANGED <<sessionVars, agentVars>>
          /\ (Stopping(p)' => Stopping(p)) /\ (Writing(p)' => Writing(p))
      BY <1>6, <1>held DEF AnswerCheck, Reply, Stopping, Writing, StopStates,
         TypeOK
    <3>2. (Stopping(p) => Stopping(p)') /\ (Writing(p) => Writing(p)')
      BY <1>6, <1>held DEF AnswerCheck, Reply, Stopping, Writing, StopStates,
         TypeOK
    <3>. QED BY <3>1, <3>2 DEF sessionVars, agentVars, AnswerInv, StatusTrue,
       Over, AtInput, AtApproval
  <2>2. ASSUME NEW p \in Objects PROVE MVarTrue(p)'
    BY <1>6, <2>2, <1>num DEF AnswerCheck, Reply, Expected, sessionVars,
       agentVars, MVarTrue, Over, AtInput, AtApproval, Stopping, StopStates,
       WorkerTrue, AnswerInv, TypeOK
  <2>3. ASSUME NEW p \in Objects PROVE WorkerTrue(p)'
    BY <1>6, <2>3, <1>held DEF AnswerCheck, Reply, Expected, sessionVars,
       agentVars, WorkerTrue, AnswerInv, TypeOK
  <2>4. ASSUME NEW d \in Conns PROVE HandlerTrue(d)'
    <3>1. CASE d # c
      <4>1. pc'[d] = pc[d] /\ held'[d] = held[d] /\ answer'[d] = answer[d]
        BY <1>6, <3>1 DEF AnswerCheck, Reply, TypeOK
      <4>. QED BY <1>6, <4>1 DEF AnswerCheck, sessionVars, agentVars,
         AnswerInv, HandlerTrue, Over, AtInput, AtApproval, Live
    <3>2. CASE d = c /\ pc'[c] = "idle"
      BY <3>2 DEF HandlerTrue
    <3>3. CASE d = c /\ pc'[c] # "idle"
      <4>1. /\ pc'[c] = "put" /\ held' = held
            /\ answer'[c] = [answer[c] EXCEPT !.prompt = prompt[held[c]]]
            /\ status[held[c]] = Expected(answer[c])
            /\ UNCHANGED <<sessionVars, agentVars>>
        BY <1>6, <3>3 DEF AnswerCheck, Reply, TypeOK
      <4>2. answer'[c].prompt = prompt[held[c]] /\ answer'[c].from = answer[c].from
        BY <4>1 DEF TypeOK, Answer
      <4>3. answer[c].from \in {"respond", "approve", "reject"}
        BY <1>6 DEF AnswerCheck, AnswerInv, HandlerTrue
      <4>4. ~Stopping(held[c]) /\ ~Writing(held[c])
        BY <1>6, <1>held DEF AnswerCheck, HandlersApart, Stopping, Writing,
           StopStates
      <4>5. StatusTrue(held[c])
        BY <1>6, <1>held DEF AnswerCheck, AnswerInv
      <4>. QED BY <3>3, <4>1, <4>2, <4>3, <4>4, <4>5
           DEF HandlerTrue, StatusTrue, Expected, ForInput, Over, AtInput,
              AtApproval, sessionVars, agentVars
    <3>. QED BY <3>1, <3>2, <3>3
  <2>5. AnswersFresh'
    BY <1>6 DEF AnswerCheck, Expected, agentVars, AnswersFresh, AnswerInv
  <2>. QED BY <2>1, <2>2, <2>3, <2>4, <2>5 DEF AnswerInv
<1>7. ASSUME NEW c \in Conns, AnswerPut(c) PROVE AnswerInv'
  <2>1. ASSUME NEW p \in Objects PROVE StatusTrue(p)'
    BY <1>7, <2>1 DEF AnswerPut, Goto, agentVars, StatusTrue, Over, AtInput,
       AtApproval, Stopping, Writing, AnswerInv, TypeOK
  <2>2. ASSUME NEW p \in Objects PROVE MVarTrue(p)'
    BY <1>7, <2>2 DEF AnswerPut, Goto, ForInput, agentVars, MVarTrue, Over,
       AtInput, AtApproval, Stopping, StopStates, HandlerTrue, AnswerInv,
       TypeOK
  <2>3. ASSUME NEW p \in Objects PROVE WorkerTrue(p)'
    <3>1. p > created => p # held[c]
      BY <1>7, <1>held, <1>num DEF AnswerPut, Objects
    <3>. QED BY <1>7, <3>1, <1>held DEF AnswerPut, Goto, agentVars, AnswerInv,
       WorkerTrue, TypeOK
  <2>4. ASSUME NEW d \in Conns PROVE HandlerTrue(d)'
    BY <1>7, <2>4, <1>held DEF AnswerPut, Goto, agentVars, HandlerTrue, Over,
       AtInput, AtApproval, Live, AnswerInv, TypeOK, HandlersApart
  <2>5. AnswersFresh'
    BY <1>7 DEF AnswerPut, agentVars, AnswersFresh, AnswerInv
  <2>. QED BY <2>1, <2>2, <2>3, <2>4, <2>5 DEF AnswerInv
<1>8. ASSUME NEW c \in Conns, AnswerWrite(c) PROVE AnswerInv'
  <2>1. ASSUME NEW p \in Objects PROVE StatusTrue(p)'
    BY <1>8, <2>1 DEF AnswerWrite, Reply, agentVars, StatusTrue, Over, AtInput,
       AtApproval, Stopping, Writing, AnswerInv, TypeOK
  <2>2. ASSUME NEW p \in Objects PROVE MVarTrue(p)'
    BY <1>8, <2>2, <1>num DEF AnswerWrite, Reply, agentVars, MVarTrue, Over,
       AtInput, AtApproval, Stopping, StopStates, AnswerInv
  <2>3. ASSUME NEW p \in Objects PROVE WorkerTrue(p)'
    BY <1>8, <2>3 DEF AnswerWrite, Reply, agentVars, WorkerTrue, AnswerInv
  <2>4. ASSUME NEW d \in Conns PROVE HandlerTrue(d)'
    BY <1>8, <2>4 DEF AnswerWrite, Reply, agentVars, HandlerTrue, Over,
       AtInput, AtApproval, Live, AnswerInv
  <2>5. AnswersFresh'
    BY <1>8 DEF AnswerWrite, agentVars, AnswersFresh, AnswerInv
  <2>. QED BY <2>1, <2>2, <2>3, <2>4, <2>5 DEF AnswerInv
<1>9. ASSUME NEW c \in Conns, BlockedForever(c) PROVE AnswerInv'
  <2>1. ASSUME NEW p \in Objects PROVE StatusTrue(p)'
    BY <1>9, <2>1 DEF BlockedForever, Reply, sessionVars, agentVars,
       StatusTrue, Over, AtInput, AtApproval, Stopping, Writing, StopStates,
       AnswerInv
  <2>2. ASSUME NEW p \in Objects PROVE MVarTrue(p)'
    BY <1>9, <2>2 DEF BlockedForever, Reply, sessionVars, agentVars, MVarTrue,
       Over, AtInput, AtApproval, Stopping, Live, AnswerInv
  <2>3. ASSUME NEW p \in Objects PROVE WorkerTrue(p)'
    BY <1>9, <2>3 DEF BlockedForever, Reply, sessionVars, agentVars,
       WorkerTrue, AnswerInv
  <2>4. ASSUME NEW d \in Conns PROVE HandlerTrue(d)'
    BY <1>9, <2>4 DEF BlockedForever, Reply, sessionVars, agentVars,
       HandlerTrue, Over, AtInput, AtApproval, Live, AnswerInv, TypeOK
  <2>5. AnswersFresh'
    BY <1>9 DEF BlockedForever, agentVars, AnswersFresh, AnswerInv
  <2>. QED BY <2>1, <2>2, <2>3, <2>4, <2>5 DEF AnswerInv
<1>10. ASSUME NEW c \in Conns, ModelWrite(c) PROVE AnswerInv'
  <2>1. ASSUME NEW p \in Objects PROVE StatusTrue(p)'
    BY <1>10, <2>1 DEF ModelWrite, Reply, agentVars, StatusTrue, Over, AtInput,
       AtApproval, Stopping, Writing, StopStates, MVarTrue, AnswerInv
  <2>2. ASSUME NEW p \in Objects PROVE MVarTrue(p)'
    BY <1>10, <2>2 DEF ModelWrite, Reply, agentVars, MVarTrue, Over, AtInput,
       AtApproval, Stopping, StopStates, AnswerInv
  <2>3. ASSUME NEW p \in Objects PROVE WorkerTrue(p)'
    BY <1>10, <2>3 DEF ModelWrite, Reply, agentVars, WorkerTrue, AnswerInv
  <2>4. ASSUME NEW d \in Conns PROVE HandlerTrue(d)'
    BY <1>10, <2>4 DEF ModelWrite, Reply, agentVars, HandlerTrue, Over,
       AtInput, AtApproval, Live, AnswerInv
  <2>5. AnswersFresh'
    BY <1>10 DEF ModelWrite, agentVars, AnswersFresh, AnswerInv
  <2>. QED BY <2>1, <2>2, <2>3, <2>4, <2>5 DEF AnswerInv
<1>11. ASSUME NEW c \in Conns, StopInput(c) PROVE AnswerInv'
  <2>1. ASSUME NEW p \in Objects PROVE StatusTrue(p)'
    BY <1>11, <2>1 DEF StopInput, Goto, TryPut, agentVars, StatusTrue, Over,
       AtInput, AtApproval, Stopping, Writing, StopStates, AnswerInv
  <2>2. ASSUME NEW p \in Objects PROVE MVarTrue(p)'
    BY <1>11, <2>2 DEF StopInput, Goto, TryPut, agentVars, MVarTrue, Over,
       AtInput, AtApproval, Stopping, StopStates, StopAnswer, AnswerInv
  <2>3. ASSUME NEW p \in Objects PROVE WorkerTrue(p)'
    <3>1. p > created => p # held[c]
      BY <1>11, <1>held, <1>num DEF StopInput, Objects
    <3>. QED BY <1>11, <3>1, <1>held DEF StopInput, Goto, TryPut, agentVars,
       AnswerInv, WorkerTrue, TypeOK
  <2>4. ASSUME NEW d \in Conns PROVE HandlerTrue(d)'
    BY <1>11, <2>4, <1>held DEF StopInput, Goto, TryPut, agentVars,
       HandlerTrue, Over, AtInput, AtApproval, Live, AnswerInv, HandlersApart
  <2>5. AnswersFresh'
    BY <1>11 DEF StopInput, agentVars, AnswersFresh, AnswerInv
  <2>. QED BY <2>1, <2>2, <2>3, <2>4, <2>5 DEF AnswerInv
<1>12. ASSUME NEW c \in Conns, StopApproval(c) PROVE AnswerInv'
  <2>1. ASSUME NEW p \in Objects PROVE StatusTrue(p)'
    BY <1>12, <2>1 DEF StopApproval, Goto, TryPut, agentVars, StatusTrue, Over,
       AtInput, AtApproval, Stopping, Writing, StopStates, AnswerInv
  <2>2. ASSUME NEW p \in Objects PROVE MVarTrue(p)'
    BY <1>12, <2>2 DEF StopApproval, Goto, TryPut, agentVars, MVarTrue, Over,
       AtInput, AtApproval, Stopping, StopStates, StopAnswer, AnswerInv
  <2>3. ASSUME NEW p \in Objects PROVE WorkerTrue(p)'
    <3>1. p > created => p # held[c]
      BY <1>12, <1>held, <1>num DEF StopApproval, Objects
    <3>. QED BY <1>12, <3>1, <1>held DEF StopApproval, Goto, TryPut, agentVars,
       AnswerInv, WorkerTrue, TypeOK
  <2>4. ASSUME NEW d \in Conns PROVE HandlerTrue(d)'
    BY <1>12, <2>4, <1>held DEF StopApproval, Goto, TryPut, agentVars,
       HandlerTrue, Over, AtInput, AtApproval, Live, AnswerInv, HandlersApart
  <2>5. AnswersFresh'
    BY <1>12 DEF StopApproval, agentVars, AnswersFresh, AnswerInv
  <2>. QED BY <2>1, <2>2, <2>3, <2>4, <2>5 DEF AnswerInv
<1>13. ASSUME NEW c \in Conns, StopRead(c) PROVE AnswerInv'
  <2>1. ASSUME NEW p \in Objects PROVE StatusTrue(p)'
    BY <1>13, <2>1 DEF StopRead, Goto, sessionVars, agentVars, StatusTrue,
       Over, AtInput, AtApproval, Stopping, Writing, StopStates, AnswerInv
  <2>2. ASSUME NEW p \in Objects PROVE MVarTrue(p)'
    BY <1>13, <2>2 DEF StopRead, Goto, sessionVars, agentVars, MVarTrue, Over,
       AtInput, AtApproval, Stopping, StopStates, AnswerInv
  <2>3. ASSUME NEW p \in Objects PROVE WorkerTrue(p)'
    BY <1>13, <2>3 DEF StopRead, Goto, sessionVars, agentVars, WorkerTrue,
       AnswerInv
  <2>4. ASSUME NEW d \in Conns PROVE HandlerTrue(d)'
    BY <1>13, <2>4, <1>held, <1>num DEF StopRead, Goto, sessionVars, agentVars,
       HandlerTrue, Over, AtInput, AtApproval, Live, WorkerTrue, Empty,
       AnswerInv, HandlersApart, NoSession
  <2>5. AnswersFresh'
    BY <1>13 DEF StopRead, agentVars, AnswersFresh, AnswerInv
  <2>. QED BY <2>1, <2>2, <2>3, <2>4, <2>5 DEF AnswerInv
<1>14. ASSUME NEW c \in Conns, StopThrow(c) PROVE AnswerInv'
  <2>1. ASSUME NEW p \in Objects PROVE StatusTrue(p)'
    BY <1>14, <2>1 DEF StopThrow, Goto, Cancelled, sessionVars, StatusTrue,
       Over, AtInput, AtApproval, Stopping, Writing, StopStates, AnswerInv
  <2>2. ASSUME NEW p \in Objects PROVE MVarTrue(p)'
    BY <1>14, <2>2 DEF StopThrow, Goto, Cancelled, sessionVars, MVarTrue, Over,
       AtInput, AtApproval, Stopping, StopStates, AnswerInv
  <2>3. ASSUME NEW p \in Objects PROVE WorkerTrue(p)'
    BY <1>14, <2>3 DEF StopThrow, Goto, Cancelled, sessionVars, WorkerTrue,
       AgentState, AnswerInv, TypeOK
  <2>4. ASSUME NEW d \in Conns PROVE HandlerTrue(d)'
    BY <1>14, <2>4 DEF StopThrow, Goto, Cancelled, sessionVars, HandlerTrue,
       Over, AtInput, AtApproval, Live, AnswerInv
  <2>5. AnswersFresh'
    BY <1>14 DEF StopThrow, Cancelled, AnswersFresh, AnswerInv
  <2>. QED BY <2>1, <2>2, <2>3, <2>4, <2>5 DEF AnswerInv
<1>15. ASSUME NEW c \in Conns, StopWait(c) PROVE AnswerInv'
  <2>1. ASSUME NEW p \in Objects PROVE StatusTrue(p)'
    BY <1>15, <2>1 DEF StopWait, Goto, sessionVars, agentVars, StatusTrue,
       Over, AtInput, AtApproval, Stopping, Writing, AnswerInv
  <2>2. ASSUME NEW p \in Objects PROVE MVarTrue(p)'
    BY <1>15, <2>2 DEF StopWait, Goto, sessionVars, agentVars, MVarTrue, Over,
       AtInput, AtApproval, Stopping, AnswerInv
  <2>3. ASSUME NEW p \in Objects PROVE WorkerTrue(p)'
    BY <1>15, <2>3 DEF StopWait, Goto, sessionVars, agentVars, WorkerTrue,
       AnswerInv
  <2>4. ASSUME NEW d \in Conns PROVE HandlerTrue(d)'
    BY <1>15, <2>4 DEF StopWait, Goto, sessionVars, agentVars, HandlerTrue,
       Over, AtInput, AtApproval, Live, AnswerInv
  <2>5. AnswersFresh'
    BY <1>15 DEF StopWait, agentVars, AnswersFresh, AnswerInv
  <2>. QED BY <2>1, <2>2, <2>3, <2>4, <2>5 DEF AnswerInv
<1>16. ASSUME NEW c \in Conns, StopStatus(c) PROVE AnswerInv'
  <2>1. ASSUME NEW p \in Objects PROVE StatusTrue(p)'
    BY <1>16, <2>1 DEF StopStatus, Goto, agentVars, StatusTrue, Over, AtInput,
       AtApproval, Stopping, Writing, AnswerInv, TypeOK
  <2>2. ASSUME NEW p \in Objects PROVE MVarTrue(p)'
    BY <1>16, <2>2 DEF StopStatus, Goto, agentVars, MVarTrue, Over, AtInput,
       AtApproval, Stopping, StopStates, AnswerInv
  <2>3. ASSUME NEW p \in Objects PROVE WorkerTrue(p)'
    BY <1>16, <2>3 DEF StopStatus, Goto, agentVars, WorkerTrue, AnswerInv
  <2>4. ASSUME NEW d \in Conns PROVE HandlerTrue(d)'
    BY <1>16, <2>4 DEF StopStatus, Goto, agentVars, HandlerTrue, Over, AtInput,
       AtApproval, Live, AnswerInv
  <2>5. AnswersFresh'
    BY <1>16 DEF StopStatus, agentVars, AnswersFresh, AnswerInv
  <2>. QED BY <2>1, <2>2, <2>3, <2>4, <2>5 DEF AnswerInv
<1>17. ASSUME NEW c \in Conns, StopDelete(c) PROVE AnswerInv'
  <2>1. ASSUME NEW p \in Objects PROVE StatusTrue(p)'
    BY <1>17, <2>1 DEF StopDelete, Reply, sessionVars, agentVars, StatusTrue,
       Over, AtInput, AtApproval, Stopping, Writing, WorkerTrue, HandlerTrue,
       Live, AnswerInv
  <2>2. ASSUME NEW p \in Objects PROVE MVarTrue(p)'
    BY <1>17, <2>2 DEF StopDelete, Reply, sessionVars, agentVars, MVarTrue,
       Over, AtInput, AtApproval, Stopping, HandlerTrue, Live, AnswerInv
  <2>3. ASSUME NEW p \in Objects PROVE WorkerTrue(p)'
    BY <1>17, <2>3 DEF StopDelete, Reply, sessionVars, agentVars, WorkerTrue,
       AnswerInv
  <2>4. ASSUME NEW d \in Conns PROVE HandlerTrue(d)'
    BY <1>17, <2>4 DEF StopDelete, Reply, sessionVars, agentVars, HandlerTrue,
       Over, AtInput, AtApproval, Live, AnswerInv, TypeOK
  <2>5. AnswersFresh'
    BY <1>17 DEF StopDelete, agentVars, AnswersFresh, AnswerInv
  <2>. QED BY <2>1, <2>2, <2>3, <2>4, <2>5 DEF AnswerInv
<1>18. ASSUME NEW c \in Conns, Disconnect(c) PROVE AnswerInv'
  <2>1. ASSUME NEW p \in Objects PROVE StatusTrue(p)'
    BY <1>18, <2>1 DEF Disconnect, sessionVars, agentVars, handlerVars,
       StatusTrue, Over, AtInput, AtApproval, Stopping, Writing, AnswerInv
  <2>2. ASSUME NEW p \in Objects PROVE MVarTrue(p)'
    BY <1>18, <2>2 DEF Disconnect, sessionVars, agentVars, handlerVars,
       MVarTrue, Over, AtInput, AtApproval, Stopping, AnswerInv
  <2>3. ASSUME NEW p \in Objects PROVE WorkerTrue(p)'
    BY <1>18, <2>3 DEF Disconnect, sessionVars, agentVars, handlerVars,
       WorkerTrue, AnswerInv
  <2>4. ASSUME NEW d \in Conns PROVE HandlerTrue(d)'
    BY <1>18, <2>4 DEF Disconnect, sessionVars, agentVars, handlerVars,
       HandlerTrue, Over, AtInput, AtApproval, Live, AnswerInv
  <2>5. AnswersFresh'
    BY <1>18 DEF Disconnect, agentVars, AnswersFresh, AnswerInv
  <2>. QED BY <2>1, <2>2, <2>3, <2>4, <2>5 DEF AnswerInv
<1>19. ASSUME NEW c \in Conns, NEW s \in Sids, ModelLookup(c, s) PROVE AnswerInv'
  <2>1. ASSUME NEW p \in Objects PROVE StatusTrue(p)'
    BY <1>19, <2>1 DEF ModelLookup, Ready, sessionVars, agentVars, StatusTrue,
       Over, AtInput, AtApproval, Stopping, Writing, StopStates, AnswerInv
  <2>2. ASSUME NEW p \in Objects PROVE MVarTrue(p)'
    BY <1>19, <2>2 DEF ModelLookup, Ready, sessionVars, agentVars, MVarTrue,
       Over, AtInput, AtApproval, Stopping, StopStates, AnswerInv
  <2>3. ASSUME NEW p \in Objects PROVE WorkerTrue(p)'
    BY <1>19, <2>3 DEF ModelLookup, Ready, sessionVars, agentVars, WorkerTrue,
       AnswerInv
  <2>4. ASSUME NEW d \in Conns PROVE HandlerTrue(d)'
    BY <1>19, <2>4 DEF ModelLookup, sessionVars, agentVars, HandlerTrue, Over,
       AtInput, AtApproval, Live, AnswerInv, TypeOK
  <2>5. AnswersFresh'
    BY <1>19 DEF ModelLookup, agentVars, AnswersFresh, AnswerInv
  <2>. QED BY <2>1, <2>2, <2>3, <2>4, <2>5 DEF AnswerInv
<1>20. ASSUME NEW c \in Conns, NEW s \in Sids, StopLookup(c, s) PROVE AnswerInv'
  <2>1. ASSUME NEW p \in Objects PROVE StatusTrue(p)'
    BY <1>20, <2>1 DEF StopLookup, Ready, sessionVars, agentVars, StatusTrue,
       Over, AtInput, AtApproval, Stopping, Writing, StopStates, AnswerInv
  <2>2. ASSUME NEW p \in Objects PROVE MVarTrue(p)'
    BY <1>20, <2>2 DEF StopLookup, Ready, sessionVars, agentVars, MVarTrue,
       Over, AtInput, AtApproval, Stopping, StopStates, AnswerInv
  <2>3. ASSUME NEW p \in Objects PROVE WorkerTrue(p)'
    BY <1>20, <2>3 DEF StopLookup, Ready, sessionVars, agentVars, WorkerTrue,
       AnswerInv
  <2>4. ASSUME NEW d \in Conns PROVE HandlerTrue(d)'
    BY <1>20, <2>4 DEF StopLookup, sessionVars, agentVars, HandlerTrue, Over,
       AtInput, AtApproval, Live, AnswerInv, TypeOK
  <2>5. AnswersFresh'
    BY <1>20 DEF StopLookup, agentVars, AnswersFresh, AnswerInv
  <2>. QED BY <2>1, <2>2, <2>3, <2>4, <2>5 DEF AnswerInv
<1>21. ASSUME NEW c \in Conns, NEW s \in Sids,
              NEW op \in {"respond", "approve", "reject"}, AnswerLookup(c, s, op)
       PROVE  AnswerInv'
  <2>1. ASSUME NEW p \in Objects PROVE StatusTrue(p)'
    BY <1>21, <2>1 DEF AnswerLookup, Ready, sessionVars, agentVars, StatusTrue,
       Over, AtInput, AtApproval, Stopping, Writing, StopStates, AnswerInv
  <2>2. ASSUME NEW p \in Objects PROVE MVarTrue(p)'
    BY <1>21, <2>2 DEF AnswerLookup, Ready, sessionVars, agentVars, MVarTrue,
       Over, AtInput, AtApproval, Stopping, StopStates, AnswerInv
  <2>3. ASSUME NEW p \in Objects PROVE WorkerTrue(p)'
    BY <1>21, <2>3 DEF AnswerLookup, Ready, sessionVars, agentVars, WorkerTrue,
       AnswerInv
  <2>4. ASSUME NEW d \in Conns PROVE HandlerTrue(d)'
    BY <1>21, <2>4 DEF AnswerLookup, sessionVars, agentVars, HandlerTrue, Over,
       AtInput, AtApproval, Live, AnswerInv, TypeOK
  <2>5. AnswersFresh'
    BY <1>21 DEF AnswerLookup, agentVars, AnswersFresh, AnswerInv
  <2>. QED BY <2>1, <2>2, <2>3, <2>4, <2>5 DEF AnswerInv
<1>22. ASSUME NEW o \in Objects, AgentBegin(o) PROVE AnswerInv'
  <2>1. ASSUME NEW p \in Objects PROVE StatusTrue(p)'
    BY <1>22, <2>1 DEF AgentBegin, Step, handlerVars, StatusTrue, Over,
       AtInput, AtApproval, Stopping, Writing, AnswerInv
  <2>2. ASSUME NEW p \in Objects PROVE MVarTrue(p)'
    BY <1>22, <2>2 DEF AgentBegin, Step, handlerVars, MVarTrue, Over, AtInput,
       AtApproval, Stopping, AnswerInv
  <2>3. ASSUME NEW p \in Objects PROVE WorkerTrue(p)'
    BY <1>22, <2>3 DEF AgentBegin, Step, handlerVars, WorkerTrue, AnswerInv
  <2>4. ASSUME NEW d \in Conns PROVE HandlerTrue(d)'
    BY <1>22, <2>4 DEF AgentBegin, Step, handlerVars, HandlerTrue, Over,
       AtInput, AtApproval, Live, AnswerInv
  <2>5. AnswersFresh'
    BY <1>22 DEF AgentBegin, AnswersFresh, AnswerInv
  <2>. QED BY <2>1, <2>2, <2>3, <2>4, <2>5 DEF AnswerInv
<1>23. ASSUME NEW o \in Objects, AskInput(o) PROVE AnswerInv'
  <2>1. ASSUME NEW p \in Objects PROVE StatusTrue(p)'
    BY <1>23, <2>1 DEF AskInput, Step, handlerVars, StatusTrue, Over, AtInput,
       AtApproval, Stopping, Writing, MVarTrue, AnswerInv, TypeOK
  <2>2. ASSUME NEW p \in Objects PROVE MVarTrue(p)'
    BY <1>23, <2>2 DEF AskInput, Step, NewPrompt, handlerVars, MVarTrue, Over,
       AtInput, AtApproval, Stopping, AnswerInv
  <2>3. ASSUME NEW p \in Objects PROVE WorkerTrue(p)'
    BY <1>23, <2>3 DEF AskInput, Step, handlerVars, WorkerTrue, AnswerInv
  <2>4. ASSUME NEW d \in Conns PROVE HandlerTrue(d)'
    BY <1>23, <2>4 DEF AskInput, Step, NewPrompt, handlerVars, HandlerTrue,
       Over, AtInput, AtApproval, Live, AnswerInv
  <2>5. AnswersFresh'
    BY <1>23 DEF AskInput, NewPrompt, AnswersFresh, Empty, AnswerInv, TypeOK
  <2>. QED BY <2>1, <2>2, <2>3, <2>4, <2>5 DEF AnswerInv
<1>24. ASSUME NEW o \in Objects, AnnounceInput(o) PROVE AnswerInv'
  <2>1. ASSUME NEW p \in Objects PROVE StatusTrue(p)'
    BY <1>24, <2>1 DEF AnnounceInput, Step, sessionVars, handlerVars,
       StatusTrue, Over, AtInput, AtApproval, Stopping, Writing, AnswerInv,
       TypeOK
  <2>2. ASSUME NEW p \in Objects PROVE MVarTrue(p)'
    BY <1>24, <2>2 DEF AnnounceInput, Step, sessionVars, handlerVars, MVarTrue,
       Over, AtInput, AtApproval, Stopping, AnswerInv, TypeOK
  <2>3. ASSUME NEW p \in Objects PROVE WorkerTrue(p)'
    BY <1>24, <2>3, <1>num DEF AnnounceInput, Step, sessionVars, handlerVars,
       WorkerTrue, AnswerInv, TypeOK
  <2>4. ASSUME NEW d \in Conns PROVE HandlerTrue(d)'
    BY <1>24, <2>4, <1>held DEF AnnounceInput, Step, sessionVars, handlerVars,
       HandlerTrue, Over, AtInput, AtApproval, Live, AnswerInv, TypeOK
  <2>5. AnswersFresh'
    BY <1>24 DEF AnnounceInput, AnswersFresh, AnswerInv
  <2>. QED BY <2>1, <2>2, <2>3, <2>4, <2>5 DEF AnswerInv
<1>25. ASSUME NEW o \in Objects, TakeInput(o) PROVE AnswerInv'
  <2>1. ASSUME NEW p \in Objects PROVE StatusTrue(p)'
    BY <1>25, <2>1 DEF TakeInput, Step, handlerVars, StatusTrue, Over, AtInput,
       AtApproval, Stopping, Writing, AnswerInv
  <2>2. ASSUME NEW p \in Objects PROVE MVarTrue(p)'
    BY <1>25, <2>2 DEF TakeInput, Step, handlerVars, MVarTrue, Over, AtInput,
       AtApproval, Stopping, AnswerInv, TypeOK
  <2>3. ASSUME NEW p \in Objects PROVE WorkerTrue(p)'
    BY <1>25, <2>3 DEF TakeInput, Step, handlerVars, WorkerTrue, AnswerInv
  <2>4. ASSUME NEW d \in Conns PROVE HandlerTrue(d)'
    BY <1>25, <2>4 DEF TakeInput, Step, handlerVars, HandlerTrue, Over,
       AtInput, AtApproval, Live, AnswerInv
  <2>5. AnswersFresh'
    BY <1>25 DEF TakeInput, Step, AnswersFresh, MVarTrue, Over, AnswerInv
  <2>. QED BY <2>1, <2>2, <2>3, <2>4, <2>5 DEF AnswerInv
<1>26. ASSUME NEW o \in Objects, AskApproval(o) PROVE AnswerInv'
  <2>1. ASSUME NEW p \in Objects PROVE StatusTrue(p)'
    BY <1>26, <2>1 DEF AskApproval, Step, handlerVars, StatusTrue, Over,
       AtInput, AtApproval, Stopping, Writing, MVarTrue, AnswerInv, TypeOK
  <2>2. ASSUME NEW p \in Objects PROVE MVarTrue(p)'
    BY <1>26, <2>2 DEF AskApproval, Step, NewPrompt, handlerVars, MVarTrue,
       Over, AtInput, AtApproval, Stopping, AnswerInv
  <2>3. ASSUME NEW p \in Objects PROVE WorkerTrue(p)'
    BY <1>26, <2>3 DEF AskApproval, Step, handlerVars, WorkerTrue, AnswerInv
  <2>4. ASSUME NEW d \in Conns PROVE HandlerTrue(d)'
    BY <1>26, <2>4 DEF AskApproval, Step, NewPrompt, handlerVars, HandlerTrue,
       Over, AtInput, AtApproval, Live, AnswerInv
  <2>5. AnswersFresh'
    BY <1>26 DEF AskApproval, NewPrompt, AnswersFresh, Empty, AnswerInv, TypeOK
  <2>. QED BY <2>1, <2>2, <2>3, <2>4, <2>5 DEF AnswerInv
<1>27. ASSUME NEW o \in Objects, TakeApproval(o) PROVE AnswerInv'
  <2>1. ASSUME NEW p \in Objects PROVE StatusTrue(p)'
    BY <1>27, <2>1 DEF TakeApproval, Step, handlerVars, StatusTrue, Over,
       AtInput, AtApproval, Stopping, Writing, AnswerInv
  <2>2. ASSUME NEW p \in Objects PROVE MVarTrue(p)'
    BY <1>27, <2>2 DEF TakeApproval, Step, handlerVars, MVarTrue, Over,
       AtInput, AtApproval, Stopping, AnswerInv, TypeOK
  <2>3. ASSUME NEW p \in Objects PROVE WorkerTrue(p)'
    BY <1>27, <2>3 DEF TakeApproval, Step, handlerVars, WorkerTrue, AnswerInv
  <2>4. ASSUME NEW d \in Conns PROVE HandlerTrue(d)'
    BY <1>27, <2>4 DEF TakeApproval, Step, handlerVars, HandlerTrue, Over,
       AtInput, AtApproval, Live, AnswerInv
  <2>5. AnswersFresh'
    BY <1>27 DEF TakeApproval, Step, AnswersFresh, MVarTrue, Over, AnswerInv
  <2>. QED BY <2>1, <2>2, <2>3, <2>4, <2>5 DEF AnswerInv
<1>28. ASSUME NEW o \in Objects, AgentReturns(o) PROVE AnswerInv'
  <2>1. ASSUME NEW p \in Objects PROVE StatusTrue(p)'
    BY <1>28, <2>1 DEF AgentReturns, Step, sessionVars, handlerVars,
       StatusTrue, Over, AtInput, AtApproval, Stopping, Writing, AnswerInv
  <2>2. ASSUME NEW p \in Objects PROVE MVarTrue(p)'
    BY <1>28, <2>2 DEF AgentReturns, Step, sessionVars, handlerVars, MVarTrue,
       Over, AtInput, AtApproval, Stopping, AnswerInv
  <2>3. ASSUME NEW p \in Objects PROVE WorkerTrue(p)'
    BY <1>28, <2>3 DEF AgentReturns, Step, sessionVars, handlerVars,
       WorkerTrue, AnswerInv
  <2>4. ASSUME NEW d \in Conns PROVE HandlerTrue(d)'
    BY <1>28, <2>4 DEF AgentReturns, Step, sessionVars, handlerVars,
       HandlerTrue, Over, AtInput, AtApproval, Live, AnswerInv
  <2>5. AnswersFresh'
    BY <1>28 DEF AgentReturns, AnswersFresh, AnswerInv
  <2>. QED BY <2>1, <2>2, <2>3, <2>4, <2>5 DEF AnswerInv
<1>29. ASSUME NEW o \in Objects, AgentFails(o) PROVE AnswerInv'
  <2>1. ASSUME NEW p \in Objects PROVE StatusTrue(p)'
    BY <1>29, <2>1 DEF AgentFails, Step, sessionVars, handlerVars, StatusTrue,
       Over, AtInput, AtApproval, Stopping, Writing, AnswerInv, TypeOK
  <2>2. ASSUME NEW p \in Objects PROVE MVarTrue(p)'
    BY <1>29, <2>2 DEF AgentFails, Step, sessionVars, handlerVars, MVarTrue,
       Over, AtInput, AtApproval, Stopping, AnswerInv, TypeOK
  <2>3. ASSUME NEW p \in Objects PROVE WorkerTrue(p)'
    BY <1>29, <2>3, <1>num DEF AgentFails, Step, sessionVars, handlerVars,
       WorkerTrue, AnswerInv, TypeOK
  <2>4. ASSUME NEW d \in Conns PROVE HandlerTrue(d)'
    BY <1>29, <2>4, <1>held DEF AgentFails, Step, sessionVars, handlerVars,
       HandlerTrue, Over, AtInput, AtApproval, Live, AnswerInv, TypeOK
  <2>5. AnswersFresh'
    BY <1>29 DEF AgentFails, AnswersFresh, AnswerInv
  <2>. QED BY <2>1, <2>2, <2>3, <2>4, <2>5 DEF AnswerInv
<1>30. ASSUME NEW o \in Objects, RecordResult(o) PROVE AnswerInv'
  <2>1. ASSUME NEW p \in Objects PROVE StatusTrue(p)'
    BY <1>30, <2>1 DEF RecordResult, Step, handlerVars, StatusTrue, Over,
       AtInput, AtApproval, Stopping, Writing, AnswerInv
  <2>2. ASSUME NEW p \in Objects PROVE MVarTrue(p)'
    BY <1>30, <2>2 DEF RecordResult, Step, handlerVars, MVarTrue, Over,
       AtInput, AtApproval, Stopping, AnswerInv
  <2>3. ASSUME NEW p \in Objects PROVE WorkerTrue(p)'
    BY <1>30, <2>3 DEF RecordResult, Step, handlerVars, WorkerTrue, AnswerInv
  <2>4. ASSUME NEW d \in Conns PROVE HandlerTrue(d)'
    BY <1>30, <2>4 DEF RecordResult, Step, handlerVars, HandlerTrue, Over,
       AtInput, AtApproval, Live, AnswerInv
  <2>5. AnswersFresh'
    BY <1>30 DEF RecordResult, AnswersFresh, AnswerInv
  <2>. QED BY <2>1, <2>2, <2>3, <2>4, <2>5 DEF AnswerInv
<1>31. ASSUME NEW o \in Objects, ReportError(o) PROVE AnswerInv'
  <2>1. ASSUME NEW p \in Objects PROVE StatusTrue(p)'
    BY <1>31, <2>1 DEF ReportError, Step, handlerVars, StatusTrue, Over,
       AtInput, AtApproval, Stopping, Writing, AnswerInv
  <2>2. ASSUME NEW p \in Objects PROVE MVarTrue(p)'
    BY <1>31, <2>2 DEF ReportError, Step, handlerVars, MVarTrue, Over, AtInput,
       AtApproval, Stopping, AnswerInv
  <2>3. ASSUME NEW p \in Objects PROVE WorkerTrue(p)'
    BY <1>31, <2>3 DEF ReportError, Step, handlerVars, WorkerTrue, AnswerInv
  <2>4. ASSUME NEW d \in Conns PROVE HandlerTrue(d)'
    BY <1>31, <2>4 DEF ReportError, Step, handlerVars, HandlerTrue, Over,
       AtInput, AtApproval, Live, AnswerInv
  <2>5. AnswersFresh'
    BY <1>31 DEF ReportError, AnswersFresh, AnswerInv
  <2>. QED BY <2>1, <2>2, <2>3, <2>4, <2>5 DEF AnswerInv
<1>32. ASSUME NEW o \in Objects, AgentExit(o) PROVE AnswerInv'
  <2>1. ASSUME NEW p \in Objects PROVE StatusTrue(p)'
    BY <1>32, <2>1 DEF AgentExit, Step, sessionVars, handlerVars, StatusTrue,
       Over, AtInput, AtApproval, Stopping, Writing, AnswerInv
  <2>2. ASSUME NEW p \in Objects PROVE MVarTrue(p)'
    BY <1>32, <2>2 DEF AgentExit, Step, sessionVars, handlerVars, MVarTrue,
       Over, AtInput, AtApproval, Stopping, AnswerInv
  <2>3. ASSUME NEW p \in Objects PROVE WorkerTrue(p)'
    BY <1>32, <2>3 DEF AgentExit, Step, sessionVars, handlerVars, WorkerTrue,
       AnswerInv
  <2>4. ASSUME NEW d \in Conns PROVE HandlerTrue(d)'
    BY <1>32, <2>4 DEF AgentExit, Step, sessionVars, handlerVars, HandlerTrue,
       Over, AtInput, AtApproval, Live, AnswerInv
  <2>5. AnswersFresh'
    BY <1>32 DEF AgentExit, AnswersFresh, AnswerInv
  <2>. QED BY <2>1, <2>2, <2>3, <2>4, <2>5 DEF AnswerInv
<1>33. CASE UNCHANGED vars
  BY <1>33 DEF vars, sessionVars, agentVars, handlerVars, AnswerInv,
     StatusTrue, MVarTrue, WorkerTrue, HandlerTrue, AnswersFresh, Over,
     AtInput, AtApproval, Stopping, Writing, Live
<1>. QED
  BY <1>1, <1>2, <1>3, <1>4, <1>5, <1>6, <1>7, <1>8, <1>9, <1>10, <1>11, <1>12,
     <1>13, <1>14, <1>15, <1>16, <1>17, <1>18, <1>19, <1>20, <1>21, <1>22,
     <1>23, <1>24, <1>25, <1>26, <1>27, <1>28, <1>29, <1>30, <1>31, <1>32,
     <1>33
  DEF Next, ClientStep, HandlerStep, AnswerStep, StopStep, AgentStep

(* The types of all variables (newSessionManager, doCreate, doDestroy, the *)
(* command handlers and the agent threads).                                *)
THEOREM TypesHold == Spec => []TypeOK
BY TypeCorrect, PTL

(* The invariant, along every run whose handlers stay apart.               *)
LEMMA AnswerInvHolds == Spec /\ []HandlersApart => []AnswerInv
<1>1. (TypeOK /\ MapConsistent /\ HandlersHold) /\ HandlersApart /\ HandlersApart'
        /\ AnswerInv /\ [Next]_vars => AnswerInv'
  BY AnswerInvStep
<1>. QED BY <1>1, AnswerInvInit, TypeCorrect, PTL DEF Spec

(* respondToSession, approveSession, rejectSession: an agent takes only an *)
(* answer that was given to the prompt it has open, or the one that        *)
(* doDestroy leaves to wake it up, as long as handlers are apart.          *)
LEMMA AnswersAreFresh == Spec /\ []HandlersApart => []AnswersFresh
<1>1. AnswerInv => AnswersFresh
  BY DEF AnswerInv
<1>. QED BY <1>1, AnswerInvHolds, PTL

(* doDestroy: no agent is running when its session is taken from the map,  *)
(* as long as handlers are apart.                                          *)
LEMMA StopCancels == Spec /\ []HandlersApart => []StopCancelsAgent
<1>1. AnswerInv => StopCancelsAgent
  BY DEF AnswerInv, HandlerTrue, StopCancelsAgent
<1>. QED BY <1>1, AnswerInvHolds, PTL

(* Commands of one connection are handled one after the other (listenLoop),*)
(* so that with one connection no assumption is left.                      *)
OneConnection == \A c, d \in Conns : c = d

(* Its handler is apart from every other.                                  *)
LEMMA OneConnectionApart == OneConnection => HandlersApart
BY DEF OneConnection, HandlersApart

(* With one connection an agent takes only answers given to the prompt it  *)
(* has open, and its session leaves the map only when it is over.          *)
THEOREM OneClientServed == OneConnection => (Spec => [](AnswersFresh /\ StopCancelsAgent))
<1> SUFFICES ASSUME OneConnection PROVE Spec => [](AnswersFresh /\ StopCancelsAgent)
  OBVIOUS
<1>1. HandlersApart
  BY OneConnectionApart
<1>. QED BY <1>1, AnswersAreFresh, StopCancels, PTL
=============================================================================
