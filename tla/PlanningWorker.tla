--------------------------- MODULE PlanningWorker ---------------------------
(***************************************************************************)
(* PlanningWorker: one active solve, one latest pending request, callers   *)
(* that replace, reject and cancel, and the backend solve they interrupt.  *)
(*                                                                         *)
(* Cancelling takes two steps: the job's stop token, then the backend's    *)
(* ambient flag solve_cancelled_, which belongs to no job.  Both are taken *)
(* under the worker's mutex, but the solve reads and clears the flag       *)
(* without that mutex, so the steps are actions of their own.              *)
(***************************************************************************)
EXTENDS Naturals

CONSTANTS
    None,
    Callers,         \* threads that submit or cancel: timers, callbacks, the sampler
    Identities,      \* what samePlanningCancellationIdentity compares
    Revisions,       \* what it leaves out: the anchor stamp and the world revision
    Priorities,      \* PlanningPriority, as naturals
    MaxCalls         \* bound on the calls made

Key == [identity: Identities, revision: Revisions]
Work == [key: Key, priority: Priorities]
ActiveWork == [key: Key, priority: Priorities, stop: BOOLEAN]

\* None is neither a thread nor a request, and shutdown() is called by none of
\* the Callers.
ASSUME PlanningWorkerAssumption ==
    /\ "shutdown" \notin Callers
    /\ None \notin Callers \cup {"shutdown"} \cup Work \cup ActiveWork
    /\ MaxCalls \in Nat

VARIABLES
    mutex,           \* holder of mutex_ over a cancellation, None between calls
    pending, active, \* pending_, active_
    accepting, fatal,
    shutdown,        \* "running", "interrupting", "stopping", "joined"
    worker,          \* where the worker thread is
    solve_cancelled, \* Planner::solve_cancelled_
    staged,          \* how many candidates the backend has staged
    request,         \* per caller: what it does once its cancellation is complete
    calls

workerVars == <<pending, active, accepting, fatal, worker>>
vars == <<mutex, workerVars, shutdown, solve_cancelled, staged, request, calls>>

Idle == [pc |-> "idle", work |-> None]

Init ==
    /\ mutex = None
    /\ pending = None /\ active = None
    /\ accepting = TRUE /\ fatal = FALSE
    /\ shutdown = "running"
    /\ worker = "waiting"
    /\ solve_cancelled = FALSE /\ staged = 0
    /\ request = [c \in Callers |-> Idle]
    /\ calls = 0

----------------------------------------------------------------------------
(* Cancellation                                                            *)

\* stop_source.request_stop(): the solve's stop_callback, if registered, runs.
RequestStop ==
    /\ active' = [active EXCEPT !.stop = TRUE]
    /\ solve_cancelled' = (solve_cancelled \/ (worker = "solving" /\ ~active.stop))

\* Mutant of Interrupt: the mutex is not given back.
InterruptKeepingMutex(c) ==
    /\ mutex = c
    /\ solve_cancelled' = TRUE
    /\ UNCHANGED mutex

\* planner_->cancelActiveSolve(), still under the worker's mutex.
Interrupt(c) ==
    /\ mutex = c
    /\ solve_cancelled' = TRUE
    /\ mutex' = None

\* cancelActive, and cancelActiveIfExecutionIdentity when the identity matches;
\* without an active job, or with another identity, neither does anything.
Cancel(c) ==
    /\ request[c] = Idle /\ calls < MaxCalls
    /\ mutex = None /\ active # None
    /\ calls' = calls + 1
    /\ RequestStop
    /\ mutex' = c
    /\ request' = [request EXCEPT ![c].pc = "cancelling"]
    /\ UNCHANGED <<pending, accepting, fatal, worker, shutdown, staged>>

CancelCompletes(c) ==
    /\ request[c].pc = "cancelling"
    /\ Interrupt(c)
    /\ request' = [request EXCEPT ![c] = Idle]
    /\ UNCHANGED <<workerVars, shutdown, staged, calls>>

----------------------------------------------------------------------------
(* submit                                                                  *)

Duplicate(work) ==
    \/ active # None /\ active.key = work.key
    \/ pending # None /\ pending.key = work.key

Supersedes(work) ==
    /\ active # None
    /\ \/ active.key.identity # work.key.identity
       \/ work.priority > active.priority

\* Priority of the pending request, or of the active one.
IncumbentPriority ==
    IF pending # None THEN pending.priority
    ELSE IF active # None THEN active.priority
    ELSE 0

Open == accepting /\ ~fatal

Called(c) == request[c] = Idle /\ calls < MaxCalls /\ mutex = None /\ calls' = calls + 1

\* The request is refused: stopped, an exact duplicate, or of lower priority.
SubmitRefused(c) ==
    /\ Called(c)
    /\ \E work \in Work :
         \/ ~Open
         \/ Duplicate(work)
         \/ ~Supersedes(work) /\ IncumbentPriority > work.priority
    /\ UNCHANGED <<mutex, workerVars, shutdown, solve_cancelled, staged, request>>

\* The request becomes the pending one, replacing another.
SubmitPending(c) ==
    /\ Called(c) /\ Open
    /\ \E work \in Work :
         /\ ~Duplicate(work) /\ ~Supersedes(work)
         /\ IncumbentPriority <= work.priority
         /\ pending' = work
    /\ UNCHANGED <<mutex, active, accepting, fatal, worker, shutdown, solve_cancelled,
                   staged, request>>

\* The request supersedes the active one, which is cancelled first.
SubmitSuperseding(c) ==
    /\ Called(c) /\ Open
    /\ \E work \in Work :
         /\ ~Duplicate(work) /\ Supersedes(work)
         /\ request' = [request EXCEPT ![c] = [pc |-> "superseding", work |-> work]]
    /\ RequestStop
    /\ mutex' = c
    /\ UNCHANGED <<pending, accepting, fatal, worker, shutdown, staged>>

SupersedingCompletes(c) ==
    /\ request[c].pc = "superseding"
    /\ Interrupt(c)
    /\ pending' = request[c].work
    /\ request' = [request EXCEPT ![c] = Idle]
    /\ UNCHANGED <<active, accepting, fatal, worker, shutdown, staged, calls>>


----------------------------------------------------------------------------
(* The worker thread                                                       *)

\* Mutant of WorkerLocks: the worker's step slips into a caller's cancellation,
\* as if the caller had given the mutex back before cancelActiveSolve.
WorkerLocksNot == TRUE

\* Taking and clearing the active item need the mutex.
WorkerLocks == mutex = None

WorkerQuiet == UNCHANGED <<mutex, shutdown, request, calls>>
StopRequested == shutdown \in {"stopping", "joined"}

\* Mutant of TakeWork: the pending request is copied, not moved.
TakeWorkKeepingPending ==
    /\ worker = "waiting" /\ pending # None /\ ~StopRequested /\ WorkerLocks
    /\ active' = [key |-> pending.key, priority |-> pending.priority, stop |-> FALSE]
    /\ worker' = "started"
    /\ UNCHANGED <<pending, accepting, fatal, solve_cancelled, staged>> /\ WorkerQuiet

TakeWork ==
    /\ worker = "waiting" /\ pending # None /\ ~StopRequested /\ WorkerLocks
    /\ active' = [key |-> pending.key, priority |-> pending.priority, stop |-> FALSE]
    /\ pending' = None
    /\ worker' = "started"
    /\ UNCHANGED <<accepting, fatal, solve_cancelled, staged>> /\ WorkerQuiet

\* The job returns without a solve: stopped, no longer current, or a branch of
\* runCycle that needs none; some of those cancel the active job, themselves.
SkipSolve ==
    /\ worker = "started"
    /\ \/ UNCHANGED <<active, solve_cancelled>>
       \/ /\ WorkerLocks
          /\ active' = [active EXCEPT !.stop = TRUE]
          /\ solve_cancelled' = TRUE
    /\ worker' = "returned"
    /\ UNCHANGED <<pending, accepting, fatal, staged>> /\ WorkerQuiet

\* The last look at the stop token before the solve.
EnterPlan ==
    /\ worker = "started" /\ ~active.stop
    /\ worker' = "checked"
    /\ UNCHANGED <<pending, active, accepting, fatal, solve_cancelled, staged>> /\ WorkerQuiet

\* Planner::plan clears the flag of an earlier solve...
BeginSolve ==
    /\ worker = "checked"
    /\ solve_cancelled' = FALSE
    /\ worker' = "entered"
    /\ UNCHANGED <<pending, active, accepting, fatal, staged>> /\ WorkerQuiet

\* Mutant of ArmSolve: the token is not looked at again.
ArmSolveUnchecked ==
    /\ worker = "entered"
    /\ worker' = "solving"
    /\ UNCHANGED <<pending, active, accepting, fatal, solve_cancelled, staged>> /\ WorkerQuiet

\* ...and then registers its stop_callback and looks at the token, so that a stop
\* requested before the flag was cleared is seen.
ArmSolve ==
    /\ worker = "entered"
    /\ solve_cancelled' = (solve_cancelled \/ active.stop)
    /\ worker' = IF active.stop THEN "returned" ELSE "solving"
    /\ UNCHANGED <<pending, active, accepting, fatal, staged>> /\ WorkerQuiet

\* The solve fails, misses its deadline or sees the flag.
SolveFails ==
    /\ worker = "solving"
    /\ worker' = "returned"
    /\ UNCHANGED <<pending, active, accepting, fatal, solve_cancelled, staged>> /\ WorkerQuiet

\* The solve stages its candidate, unless cancelled, under solve_commit_mutex_.
StageCandidate ==
    /\ worker = "solving" /\ ~solve_cancelled
    /\ staged' = staged + 1
    /\ worker' = "returned"
    /\ UNCHANGED <<pending, active, accepting, fatal, solve_cancelled>> /\ WorkerQuiet

FinishWork ==
    /\ worker = "returned" /\ WorkerLocks
    /\ active' = None
    /\ worker' = "waiting"
    /\ UNCHANGED <<pending, accepting, fatal, solve_cancelled, staged>> /\ WorkerQuiet

\* The job threw: the worker is fatal, drops the pending request and exits.
WorkThrows ==
    /\ worker \in {"started", "solving", "returned"} /\ WorkerLocks
    /\ fatal' = TRUE /\ accepting' = FALSE
    /\ active' = None /\ pending' = None
    /\ worker' = "exited"
    /\ UNCHANGED <<solve_cancelled, staged>> /\ WorkerQuiet

\* Mutant of WorkerStops: the wait ends only for work, not for the stop token.
WorkerStopsOnWork ==
    /\ worker = "waiting" /\ StopRequested /\ pending # None
    /\ worker' = "exited"
    /\ UNCHANGED <<pending, active, accepting, fatal, solve_cancelled, staged>> /\ WorkerQuiet

WorkerStops ==
    /\ worker = "waiting" /\ StopRequested
    /\ worker' = "exited"
    /\ UNCHANGED <<pending, active, accepting, fatal, solve_cancelled, staged>> /\ WorkerQuiet

----------------------------------------------------------------------------
(* shutdown                                                                *)

BeginShutdown ==
    /\ shutdown = "running" /\ mutex = None
    /\ accepting' = FALSE
    /\ pending' = None
    /\ IF active = None
         THEN shutdown' = "stopping" /\ UNCHANGED <<mutex, active, solve_cancelled>>
         ELSE shutdown' = "interrupting" /\ mutex' = "shutdown" /\ RequestStop
    /\ UNCHANGED <<fatal, worker, staged, request, calls>>

ShutdownInterrupts ==
    /\ shutdown = "interrupting"
    /\ Interrupt("shutdown")
    /\ shutdown' = "stopping"
    /\ UNCHANGED <<workerVars, staged, request, calls>>

JoinWorker ==
    /\ shutdown = "stopping" /\ worker = "exited"
    /\ shutdown' = "joined"
    /\ UNCHANGED <<mutex, workerVars, solve_cancelled, staged, request, calls>>

----------------------------------------------------------------------------

CallBegins(c) == SubmitRefused(c) \/ SubmitPending(c) \/ SubmitSuperseding(c) \/ Cancel(c)
CallCompletes(c) == SupersedingCompletes(c) \/ CancelCompletes(c)

WorkerStep ==
    \/ TakeWork \/ SkipSolve \/ EnterPlan \/ BeginSolve \/ ArmSolve \/ SolveFails \/ StageCandidate
    \/ FinishWork \/ WorkThrows \/ WorkerStops

Next ==
    \/ \E c \in Callers : CallBegins(c) \/ CallCompletes(c)
    \/ WorkerStep
    \/ BeginShutdown
    \/ ShutdownInterrupts \/ JoinWorker

\* Threads run; a solve ends, for its deadline bounds it.  Nobody need call.
Fairness ==
    /\ \A c \in Callers : WF_vars(CallCompletes(c))
    /\ WF_vars(WorkerStep)
    /\ WF_vars(ShutdownInterrupts \/ JoinWorker)

Spec == Init /\ [][Next]_vars
FairSpec == Spec /\ Fairness


----------------------------------------------------------------------------
(* Properties                                                              *)

\* The variables of PlanningWorker, of its callers and of the backend's flag have
\* their types.
TypeOK ==
    /\ mutex \in Callers \cup {None, "shutdown"}
    /\ pending \in Work \cup {None}
    /\ active \in ActiveWork \cup {None}
    /\ {accepting, fatal, solve_cancelled} \subseteq BOOLEAN
    /\ shutdown \in {"running", "interrupting", "stopping", "joined"}
    /\ worker \in {"waiting", "started", "checked", "entered", "solving", "returned", "exited"}
    /\ active = None <=> worker \in {"waiting", "exited"}
    /\ staged \in 0..MaxCalls
    /\ \A c \in Callers :
         /\ request[c].pc \in {"idle", "cancelling", "superseding"}
         /\ request[c].work \in Work \cup {None}
    /\ calls \in 0..MaxCalls

\* A cancelled solve never stages a candidate, also when its cancellation came
\* between the last look at the stop token and the moment plan() cleared the
\* flag of the solve before it.
CancelledSolveNotStaged == [][staged' # staged => ~active.stop]_staged

\* The flag is nobody's in particular, and yet a solve is interrupted only by its
\* own cancellation: a caller that cancels a job keeps the mutex until
\* cancelActiveSolve returned, so the job's replacement cannot be hit.
OnlyOwnCancellation == worker = "solving" /\ ~active.stop => ~solve_cancelled

\* An accepted request does not stay pending: the worker takes it, a later
\* request replaces it, or the shutdown or a failure drops it.
PendingIsServed == \A work \in Work : pending = work ~> pending # work

\* Shutdown joins the worker, whether a solve was running or not.
ShutdownCompletes == shutdown \in {"interrupting", "stopping"} ~> shutdown = "joined"
=============================================================================
