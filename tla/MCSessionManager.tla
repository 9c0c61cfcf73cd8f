-------------------------- MODULE MCSessionManager --------------------------
(* Small instances of SessionManager for TLC: one or two clients of a user.*)
EXTENDS SessionManager

CONSTANTS c1, c2, u1, u2

OneUser == [c \in Conns |-> u1]
=============================================================================
