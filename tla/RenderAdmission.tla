-------------------------- MODULE RenderAdmission --------------------------
(***************************************************************************)
(* What the render scheduler promises about admission, without workers,    *)
(* locks or counters: requests wait, run and are over.  A request is       *)
(* admitted only when it is the best of those that may run, where "may     *)
(* run" is said of the set of running requests itself, not of counters     *)
(* kept beside it (docs/VIDEO_RENDERING.md:43-50).                         *)
(***************************************************************************)
EXTENDS Integers, FiniteSets

CONSTANTS
    Requests,       \* render requests
    Anyone,         \* the empty user or workspace id, which no limit binds
    UserOf,         \* [Requests -> user ids]
    WorkspaceOf,    \* [Requests -> workspace ids]
    PriorityOf,     \* [Requests -> Int]
    MaxConcurrent, MaxPerUser, MaxPerWorkspace

VARIABLES
    waiting,        \* requests in the queue
    running,        \* requests that hold a slot
    over,           \* requests that were queued and are so no longer
    ticket,         \* the sequence number of a request, 0 before it has one
    open            \* FALSE once shut down

admissionVars == <<waiting, running, over, ticket, open>>

AdmissionInit ==
    /\ waiting = {}
    /\ running = {}
    /\ over = {}
    /\ ticket = [r \in Requests |-> 0]
    /\ open = TRUE

\* The limits allow r beside the requests that run.
Fits(r) ==
    /\ Cardinality(running) < MaxConcurrent
    /\ UserOf[r] # Anyone =>
         Cardinality({q \in running : UserOf[q] = UserOf[r]}) < MaxPerUser
    /\ WorkspaceOf[r] # Anyone =>
         Cardinality({q \in running : WorkspaceOf[q] = WorkspaceOf[r]}) < MaxPerWorkspace

\* Priority first, then the order of the tickets.
Precedes(q, r) ==
    \/ PriorityOf[q] > PriorityOf[r]
    \/ PriorityOf[q] = PriorityOf[r] /\ ticket[q] < ticket[r]

Number(r) ==
    /\ ticket[r] = 0
    /\ ticket' = [ticket EXCEPT ![r] =
                    1 + Cardinality({q \in Requests : ticket[q] # 0})]
    /\ UNCHANGED <<waiting, running, over, open>>

Queue(r) ==
    /\ open
    /\ ticket[r] # 0
    /\ r \notin waiting \cup running \cup over
    /\ waiting' = waiting \cup {r}
    /\ UNCHANGED <<running, over, ticket, open>>

\* Requests leave the queue: withdrawn by their caller.
Withdraw(W) ==
    /\ W \subseteq waiting
    /\ waiting' = waiting \ W
    /\ over' = over \cup W
    /\ UNCHANGED <<running, ticket, open>>

\* r gets a slot; withdrawn requests W met on the way are dropped.
Admit(r, W) ==
    /\ W \subseteq waiting
    /\ r \in waiting \ W
    /\ Fits(r)
    /\ \A q \in waiting \ (W \cup {r}) : Fits(q) => Precedes(r, q)
    /\ waiting' = waiting \ (W \cup {r})
    /\ running' = running \cup {r}
    /\ over' = over \cup W
    /\ UNCHANGED <<ticket, open>>

Leave(r) ==
    /\ r \in running
    /\ running' = running \ {r}
    /\ over' = over \cup {r}
    /\ UNCHANGED <<waiting, ticket, open>>

Close ==
    /\ open' = FALSE
    /\ waiting' = {}
    /\ over' = over \cup waiting
    /\ UNCHANGED <<running, ticket>>

AdmissionNext ==
    \/ \E r \in Requests : Number(r) \/ Queue(r) \/ Leave(r)
    \/ \E W \in SUBSET waiting : Withdraw(W)
    \/ \E W \in SUBSET waiting : \E r \in waiting \ W : Admit(r, W)
    \/ Close

AdmissionSpec == AdmissionInit /\ [][AdmissionNext]_admissionVars
=============================================================================
