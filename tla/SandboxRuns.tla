----------------------------- MODULE SandboxRuns -----------------------------
(***************************************************************************)
(* The names the durable sandbox modules share.  Tasks are numbered in the *)
(* order (created_at, id).  A lease token is drawn fresh in the statement  *)
(* that increments attempt_count, so the pair <<task, attempt number>>, a  *)
(* "run", stands for the token, for the attempt row with its execution id, *)
(* and for the Broker session and runtime session created for the attempt. *)
(***************************************************************************)
EXTENDS Integers

CONSTANTS
    NumTasks,       \* bound: tasks ever enqueued
    MaxAttempts     \* bound: claims of one task (the code has none)

ASSUME RunsAssumption == NumTasks \in Nat \ {0} /\ MaxAttempts \in Nat \ {0}

Tasks == 1 .. NumTasks
Numbers == 1 .. MaxAttempts
Runs == Tasks \X Numbers
=============================================================================
