----------------------------- MODULE MCAgentRun -----------------------------
(* Short plans of every kind of step, with a repair in a single step. *)
EXTENDS AgentRun, TLC

CONSTANTS e1, e2, u1

MCSlots == {e1, e2}
MCUsers == {u1}
MCPlans == {<<"asks">>, <<"approval">>, <<"read", "read">>}
MCRepairs == {<<"work">>}
MCWork == {<<"work">>}

\* Bound: resumes overlap on runs that consist of an approval only, and in a
\* process that was not interrupted.
SmallOverlap == overlapped => restarts = 0 /\ \A r \in rows : r.kind = "approval"

\* Bound: no deadline passes, and a step fails only when a pause or a
\* cancellation ended its call.
OnlyStopsEndCalls ==
    \A e \in Slots : ctx[e] # "expired" /\ (exec[e].at = "erred" => ctx[e] = "cancelled")
=============================================================================
