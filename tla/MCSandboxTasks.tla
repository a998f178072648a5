--------------------------- MODULE MCSandboxTasks ---------------------------
(* Instances of SandboxTasks for TLC. *)
EXTENDS SandboxTasks, TLC

WorkerSymmetry == Permutations(Workers)
=============================================================================
