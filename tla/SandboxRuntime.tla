--------------------------- MODULE SandboxRuntime ---------------------------
(***************************************************************************)
(* The sandbox runtime of one worker host (cmd/sandboxd in front of the    *)
(* LocalRuntime of its platform): one session per run, one execution in    *)
(* it, and the teardown that races with both.                              *)
(*                                                                         *)
(* Exec is not atomic.  It looks the session up, then registers and starts *)
(* the process tree, then waits for it; a Destroy may come between any two *)
(* of these.  The platforms differ in what Destroy does then:              *)
(*   DestroyWaits = FALSE  local_runtime_linux.go: the session is deleted  *)
(*       and registered executions are cancelled; Destroy returns at once  *)
(*       and Exec does not look at the session again;                      *)
(*   DestroyWaits = TRUE   local_runtime_windows.go, _darwin.go: the       *)
(*       session is marked, no execution may register any more, and        *)
(*       Destroy returns only when the registered ones are done.           *)
(***************************************************************************)
EXTENDS SandboxRuns

CONSTANTS
    DestroyWaits,   \* which Destroy the platform implements
    Outcomes        \* what a process left alone may end with

ASSUME RuntimeAssumption ==
    DestroyWaits \in BOOLEAN /\ Outcomes \subseteq {"ok", "big", "err"}

VARIABLES
    sess,           \* sess[r]: the runtime session of run r
    proc,           \* proc[r]: the execution of run r, then its outcome
    cancelled       \* the executions whose context is cancelled

runtimeVars == <<sess, proc, cancelled>>

SessStates == {"none", "live", "destroying", "gone"}
Results == {"ok", "big", "err"}
ProcStates == {"none", "entering", "running"} \union Results

RuntimeTypeOK ==
    /\ sess \in [Runs -> SessStates]
    /\ proc \in [Runs -> ProcStates]
    /\ cancelled \subseteq Runs

RuntimeInit ==
    /\ sess = [r \in Runs |-> "none"]
    /\ proc = [r \in Runs |-> "none"]
    /\ cancelled = {}

\* The process tree of r may still act: it runs, or is about to be started.
Active(r) == proc[r] \in {"entering", "running"}

CreateSession(r) ==
    /\ sess[r] = "none"
    /\ sess' = [sess EXCEPT ![r] = "live"]
    /\ UNCHANGED <<proc, cancelled>>

\* Exec finds the session and goes on to prepare the process.
EnterExec(r) ==
    /\ sess[r] = "live" /\ proc[r] = "none"
    /\ proc' = [proc EXCEPT ![r] = "entering"]
    /\ UNCHANGED <<sess, cancelled>>

\* Variant: the waiting platforms register without a second look.
StartExecUnchecked(r) ==
    /\ proc[r] = "entering"
    /\ proc' = [proc EXCEPT ![r] = IF r \in cancelled THEN "err" ELSE "running"]
    /\ cancelled' = cancelled \ {r}
    /\ UNCHANGED sess

\* Exec registers the execution and starts it.  A cancelled context starts
\* nothing; a waiting platform refuses a session that is being destroyed.
StartExec(r) ==
    /\ proc[r] = "entering"
    /\ proc' = [proc EXCEPT ![r] =
                   IF r \in cancelled \/ (DestroyWaits /\ sess[r] # "live")
                   THEN "err" ELSE "running"]
    /\ cancelled' = cancelled \ {r}
    /\ UNCHANGED sess

\* The process tree is gone; after a cancellation Exec reports an error.
EndExec(r) ==
    /\ proc[r] = "running"
    /\ \E o \in IF r \in cancelled THEN {"err"} ELSE Outcomes :
          proc' = [proc EXCEPT ![r] = o]
    /\ cancelled' = cancelled \ {r}
    /\ UNCHANGED sess

\* The context of a request whose caller went away is cancelled.
Disconnect(r) ==
    /\ Active(r)
    /\ cancelled' = cancelled \union {r}
    /\ UNCHANGED <<sess, proc>>

\* Cancel reaches registered executions only.
CancelExec(r) ==
    /\ cancelled' = IF proc[r] = "running" THEN cancelled \union {r} ELSE cancelled
    /\ UNCHANGED <<sess, proc>>

\* Destroy up to the point where it starts to wait.  Unknown sessions are fine.
BeginDestroy(r) ==
    /\ sess' = [sess EXCEPT ![r] =
                   IF sess[r] \notin {"live", "destroying"} THEN sess[r]
                   ELSE IF DestroyWaits THEN "destroying" ELSE "gone"]
    /\ cancelled' = IF sess[r] \in {"live", "destroying"} /\ proc[r] = "running"
                    THEN cancelled \union {r} ELSE cancelled
    /\ UNCHANGED proc

\* Variant: a waiting Destroy that does not wait.
DestroyableAtOnce(r) == TRUE

\* Destroy has nothing more to wait for.
Destroyable(r) == sess[r] = "destroying" => proc[r] # "running"

\* The rest of Destroy: the session is deleted.
EndDestroy(r) ==
    /\ Destroyable(r)
    /\ sess' = [sess EXCEPT ![r] = IF sess[r] = "destroying" THEN "gone" ELSE sess[r]]
    /\ UNCHANGED <<proc, cancelled>>

\* The host goes down with its process trees and comes back empty.
HostRestart ==
    /\ sess' = [r \in Runs |-> IF sess[r] = "none" THEN "none" ELSE "gone"]
    /\ proc' = [r \in Runs |-> IF Active(r) THEN "err" ELSE proc[r]]
    /\ cancelled' = {}
=============================================================================
