------------------------- MODULE MCRenderScheduler -------------------------
(* Three requests that contend for a user, a workspace and a priority. *)
EXTENDS RenderScheduler, TLC

CONSTANTS r1, r2, r3, w1, w2

MCRequests == {r1, r2, r3}
MCWorkers == {w1, w2}
\* r1 and r2 share a user, r1 and r3 a workspace; r2 goes first.
MCUserOf == (r1 :> "ann") @@ (r2 :> "ann") @@ (r3 :> "")
MCWorkspaceOf == (r1 :> "lab") @@ (r2 :> "") @@ (r3 :> "lab")
MCPriorityOf == (r1 :> 0) @@ (r2 :> 1) @@ (r3 :> 0)
MCOutcomes == {"error"}
MCStubborn == {r3}
WorkerSymmetry == Permutations(MCWorkers)
=============================================================================
