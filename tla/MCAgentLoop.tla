---------------------------- MODULE MCAgentLoop ----------------------------
(* Instances of AgentLoop: the built-in registry with the default          *)
(* guardrails ("shell" denied, "read" allowed), the calls that reach every *)
(* decision.                                                               *)
EXTENDS AgentLoop

ToolCall(t, s, p) == [tool |-> t, secret |-> s, outside |-> FALSE, path |-> p]

ReadCall == ToolCall("read", FALSE, TRUE)
EditCall == ToolCall("edit", FALSE, TRUE)
SecretEdit == ToolCall("edit", TRUE, TRUE)
ShellCall == ToolCall("shell", FALSE, FALSE)
UnknownCall == ToolCall("web", FALSE, FALSE)
OutsideEdit == [EditCall EXCEPT !.outside = TRUE]

ServerCalls == {ReadCall, EditCall, ShellCall, UnknownCall}
EditCalls == {ReadCall, EditCall, OutsideEdit}
ReplCalls == {ReadCall, SecretEdit, UnknownCall}
=============================================================================
