------------------------------ MODULE AgentTurn ------------------------------
(***************************************************************************)
(* What the server and the REPL rely on when they start an agent turn      *)
(* (AgentRunner.hs, CLI/Repl.hs): a turn works, now and then waits for the *)
(* user, makes at most MaxRequests LLM requests, and ends by reporting     *)
(* AgentDone once - or is cancelled, and then reports nothing and never    *)
(* runs again.                                                             *)
(***************************************************************************)
EXTENDS Naturals

CONSTANTS MaxRequests, MaxTurns

VARIABLES phase, turns, requests, reports

turnVars == <<phase, turns, requests, reports>>

TurnInit ==
  /\ phase = "idle"
  /\ turns = 0
  /\ requests = 0
  /\ reports = 0

Begin ==
  /\ phase = "idle" /\ turns < MaxTurns
  /\ phase' = "working"
  /\ turns' = turns + 1
  /\ requests' = 0
  /\ UNCHANGED reports

Request ==
  /\ phase = "working" /\ requests < MaxRequests
  /\ requests' = requests + 1
  /\ UNCHANGED <<phase, turns, reports>>

Ask ==
  /\ phase = "working"
  /\ phase' = "waiting"
  /\ UNCHANGED <<turns, requests, reports>>

Answered ==
  /\ phase = "waiting"
  /\ phase' = "working"
  /\ UNCHANGED <<turns, requests, reports>>

Report ==
  /\ phase = "working"
  /\ phase' = "idle"
  /\ reports' = reports + 1
  /\ UNCHANGED <<turns, requests>>

Cancel ==
  /\ phase \in {"working", "waiting"}
  /\ phase' = "cancelled"
  /\ UNCHANGED <<turns, requests, reports>>

TurnNext == Begin \/ Request \/ Ask \/ Answered \/ Report \/ Cancel

TurnSpec == TurnInit /\ [][TurnNext]_turnVars
=============================================================================
