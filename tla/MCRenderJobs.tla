---------------------------- MODULE MCRenderJobs ----------------------------
(* Export jobs of one user. *)
EXTENDS RenderJobs

CONSTANTS j1, j2, w1

MCJobs == {j1, j2}
MCOneJob == {j1}
MCWorkers == {w1}
MCUserOf == [j \in MCJobs |-> "ann"]
MCWorkspaceOf == [j \in MCJobs |-> ""]
MCPriorityOf == [j \in MCJobs |-> 0]
MCOutcomes == {"ok", "error"}
=============================================================================
