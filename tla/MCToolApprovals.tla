-------------------------- MODULE MCToolApprovals --------------------------
(* A chat call and its repetition, a manual call of the same tool, and an   *)
(* agent's call of a read-only tool.                                        *)
EXTENDS ToolApprovals

CONSTANTS c1, c2, manual, step, write, read, a1, a2

MCAnswers == {a1, a2}

MCCalls == {c1, c2, manual, step}
MCMode == [c \in MCCalls |-> CASE c = manual -> "out_of_band" [] c = step -> "handler" [] OTHER -> "inline"]
MCTool == [c \in MCCalls |-> IF c = step THEN read ELSE write]
MCRequest == [c \in MCCalls |-> IF c = c2 THEN c1 ELSE c]

\* Bounds: the repetition, the manual call or the agent's call is beside the
\* chat call, one of them at a time; a1 is the first to look.
Apart ==
    /\ Cardinality({c \in {c2, manual, step} : call[c].at # "new"}) <= 1
    /\ answer[a1].at = "idle" => answer[a2].at = "idle"

\* Two chat calls of the same tool that are made with tool_invoke.
InvokeCalls == {c1, c2}
InvokeMode == [c \in InvokeCalls |-> "inline"]
InvokeTool == [c \in InvokeCalls |-> write]
InvokeRequest == [c \in InvokeCalls |-> c]
=============================================================================
