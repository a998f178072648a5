-------------------------- MODULE MCBackgroundWork --------------------------
(* A job and two scheduled tasks, of which one is dispatched at a time. *)
EXTENDS BackgroundWork

CONSTANTS j1, t1, t2

MCJobs == {j1}
MCTasks == {t1, t2}

\* Bound: a task and a job, or two tasks in a process that is not restarted.
TwoAtOnce ==
    (\A t \in Tasks : taskRow[t].status # Absent) =>
        restarts = 0 /\ \A j \in Jobs : jobRow[j] = "absent"
=============================================================================
