------------------------ MODULE PlanningWorkerProofs ------------------------
(***************************************************************************)
(* Whose cancellation interrupts a solve: for any number of callers,       *)
(* requests and calls, the backend's ambient flag and the stop token of    *)
(* the active job agree while a solve runs.  And who answers for a staged  *)
(* candidate: no more are staged than calls were made.                     *)
(***************************************************************************)
EXTENDS PlanningWorker, TLAPS

\* What the steps need to know of the values of PlanningWorker's members, of its
\* callers and of the flag.
Kinds ==
    /\ pending \in Work \cup {None}
    /\ active \in ActiveWork \cup {None}
    /\ active = None <=> worker \in {"waiting", "exited"}
    /\ solve_cancelled \in BOOLEAN
    /\ request \in [Callers -> [pc: {"idle", "cancelling", "superseding"},
                                work: Work \cup {None}]]

\* Whoever holds the mutex over a cancellation has stopped the job that is still
\* the active one.
HolderStoppedActive == mutex # None => active # None /\ active.stop

\* After plan() cleared the flag, it is up only if the active job was stopped.
FlagIsOwn == worker \in {"entered", "solving"} /\ solve_cancelled => active.stop

\* A running solve whose job was stopped has the flag up.
StopIsSeen == worker = "solving" /\ active.stop => solve_cancelled

CancellationInv == Kinds /\ HolderStoppedActive /\ FlagIsOwn /\ StopIsSeen

\* request_stop() on an active job keeps the job and marks it.
LEMMA RequestStopMarks ==
    ASSUME Kinds, active # None, RequestStop
    PROVE  /\ active' \in ActiveWork /\ active' # None /\ active'.stop
           /\ solve_cancelled' \in BOOLEAN
           /\ solve_cancelled => solve_cancelled'
           /\ worker = "solving" /\ ~active.stop => solve_cancelled'
BY Zenon, PlanningWorkerAssumption DEF Kinds, RequestStop, ActiveWork

\* A cancellation begun or completed by any caller, a refused and a queued request
\* keep the agreement of the flag and the token.
LEMMA CallsKeepAgreement ==
    ASSUME CancellationInv, NEW c \in Callers, CallBegins(c) \/ CallCompletes(c)
    PROVE  CancellationInv'
<1> USE DEF CancellationInv, HolderStoppedActive, FlagIsOwn, StopIsSeen
<1>1. CASE SubmitRefused(c)
  BY Zenon, <1>1 DEF SubmitRefused, Kinds, workerVars
<1>2. CASE SubmitPending(c)
  BY Zenon, <1>2 DEF SubmitPending, Kinds
<1>3. CASE SubmitSuperseding(c)
  <2>1. active # None /\ RequestStop
    BY Zenon, <1>3 DEF SubmitSuperseding, Supersedes
  <2>2. request' \in [Callers -> [pc: {"idle", "cancelling", "superseding"},
                                  work: Work \cup {None}]]
    BY <1>3 DEF SubmitSuperseding, Kinds
  <2> QED
    BY Zenon, <1>3, <2>1, <2>2, RequestStopMarks DEF SubmitSuperseding, Kinds
<1>4. CASE Cancel(c)
  <2>1. request' \in [Callers -> [pc: {"idle", "cancelling", "superseding"},
                                  work: Work \cup {None}]]
    BY Zenon, <1>4 DEF Cancel, Kinds
  <2> QED
    BY Zenon, <1>4, <2>1, RequestStopMarks DEF Cancel, Kinds
<1>5. CASE SupersedingCompletes(c)
  <2>1. mutex # None
    BY Zenon, <1>5, PlanningWorkerAssumption DEF SupersedingCompletes, Interrupt
  <2> QED
    BY Zenon, <1>5, <2>1 DEF SupersedingCompletes, Interrupt, Kinds, Idle
<1>6. CASE CancelCompletes(c)
  <2>1. mutex # None
    BY Zenon, <1>6, PlanningWorkerAssumption DEF CancelCompletes, Interrupt
  <2> QED
    BY Zenon, <1>6, <2>1 DEF CancelCompletes, Interrupt, Kinds, Idle, workerVars
<1> QED
  BY Zenon, <1>1, <1>2, <1>3, <1>4, <1>5, <1>6 DEF CallBegins, CallCompletes

\* So does every step of the worker thread: it takes and clears the active job
\* only while nobody is between a stop request and cancelActiveSolve.
LEMMA WorkerKeepsAgreement ==
    ASSUME CancellationInv, WorkerStep
    PROVE  CancellationInv'
<1> USE DEF CancellationInv, HolderStoppedActive, FlagIsOwn, StopIsSeen, WorkerQuiet
<1>1. CASE TakeWork
  <2>1. active' \in ActiveWork
    BY Zenon, <1>1 DEF TakeWork, Kinds, Work, ActiveWork
  <2> QED
    BY Zenon, <1>1, <2>1, PlanningWorkerAssumption DEF TakeWork, WorkerLocks, Kinds
<1>2. CASE SkipSolve
  <2>1. active # None
    BY Zenon, <1>2 DEF SkipSolve, Kinds
  <2>2. active' \in ActiveWork /\ (active'.stop \/ active' = active)
    BY Zenon, <1>2, <2>1 DEF SkipSolve, Kinds, ActiveWork
  <2> QED
    BY Zenon, <1>2, <2>1, <2>2, PlanningWorkerAssumption DEF SkipSolve, WorkerLocks, Kinds
<1>3. CASE EnterPlan
  BY Zenon, <1>3 DEF EnterPlan, Kinds
<1>4. CASE BeginSolve
  BY Zenon, <1>4 DEF BeginSolve, Kinds
<1>5. CASE ArmSolve
  <2>1. active \in ActiveWork /\ active.stop \in BOOLEAN
    BY Zenon, <1>5 DEF ArmSolve, Kinds, ActiveWork
  <2> QED
    BY Zenon, <1>5, <2>1 DEF ArmSolve, Kinds
<1>6. CASE SolveFails
  BY Zenon, <1>6 DEF SolveFails, Kinds
<1>7. CASE StageCandidate
  BY Zenon, <1>7 DEF StageCandidate, Kinds
<1>8. CASE FinishWork
  BY Zenon, <1>8 DEF FinishWork, WorkerLocks, Kinds
<1>9. CASE WorkThrows
  BY Zenon, <1>9 DEF WorkThrows, WorkerLocks, Kinds
<1>10. CASE WorkerStops
  BY Zenon, <1>10 DEF WorkerStops, Kinds
<1> QED
  BY Zenon, <1>1, <1>2, <1>3, <1>4, <1>5, <1>6, <1>7, <1>8, <1>9, <1>10 DEF WorkerStep

\* And so do the steps of shutdown(), whose cancellation is of the same form.
LEMMA ShutdownKeepsAgreement ==
    ASSUME CancellationInv, BeginShutdown \/ ShutdownInterrupts \/ JoinWorker
    PROVE  CancellationInv'
<1> USE DEF CancellationInv, HolderStoppedActive, FlagIsOwn, StopIsSeen
<1>1. CASE BeginShutdown /\ active = None
  BY Zenon, <1>1 DEF BeginShutdown, Kinds
<1>2. CASE BeginShutdown /\ active # None
  BY Zenon, <1>2, RequestStopMarks DEF BeginShutdown, Kinds
<1>3. CASE ShutdownInterrupts
  <2>1. mutex # None
    BY Zenon, <1>3, PlanningWorkerAssumption DEF ShutdownInterrupts, Interrupt
  <2> QED
    BY Zenon, <1>3, <2>1 DEF ShutdownInterrupts, Interrupt, Kinds, workerVars
<1>4. CASE JoinWorker
  BY Zenon, <1>4 DEF JoinWorker, Kinds, workerVars
<1> QED
  BY Zenon, <1>1, <1>2, <1>3, <1>4

\* The flag and the stop token of the active job agree in every reachable state.
THEOREM CancellationAgrees == Spec => []CancellationInv
<1>1. Init => CancellationInv
  <2> SUFFICES ASSUME Init PROVE CancellationInv
    BY Zenon
  <2>1. request \in [Callers -> [pc: {"idle", "cancelling", "superseding"},
                                 work: Work \cup {None}]]
    BY Zenon DEF Init, Idle
  <2>2. Kinds
    BY Zenon, <2>1 DEF Init, Kinds
  <2> QED
    BY Zenon, <2>2 DEF Init, CancellationInv, HolderStoppedActive, FlagIsOwn, StopIsSeen
<1>2. CancellationInv /\ [Next]_vars => CancellationInv'
  <2> SUFFICES ASSUME CancellationInv, [Next]_vars PROVE CancellationInv'
    BY Zenon
  <2>1. CASE \E c \in Callers : CallBegins(c) \/ CallCompletes(c)
    BY Zenon, <2>1, CallsKeepAgreement
  <2>2. CASE WorkerStep
    BY Zenon, <2>2, WorkerKeepsAgreement
  <2>3. CASE BeginShutdown \/ ShutdownInterrupts \/ JoinWorker
    BY Zenon, <2>3, ShutdownKeepsAgreement
  <2>4. CASE UNCHANGED vars
    BY Zenon, <2>4 DEF vars, workerVars, CancellationInv, Kinds, HolderStoppedActive, FlagIsOwn,
                StopIsSeen
  <2> QED
    BY Zenon, <2>1, <2>2, <2>3, <2>4 DEF Next
<1> QED
  BY <1>1, <1>2, PTL DEF Spec

\* A solve is interrupted only by its own cancellation: cancelActiveSolve, which
\* names no job, never hits the replacement of the job a caller cancelled.
THEOREM OnlyOwnCancellationHolds == Spec => []OnlyOwnCancellation
<1>1. CancellationInv => OnlyOwnCancellation
  BY Zenon DEF CancellationInv, FlagIsOwn, OnlyOwnCancellation
<1> QED
  BY <1>1, CancellationAgrees, PTL

\* A cancelled solve never stages a candidate, whenever its cancellation came.
THEOREM CancelledSolveNotStagedHolds == Spec => CancelledSolveNotStaged
<1>1. CancellationInv /\ [Next]_vars => [staged' # staged => ~active.stop]_staged
  <2> SUFFICES ASSUME CancellationInv, [Next]_vars, staged' # staged
               PROVE  ~active.stop
    BY Zenon
  <2>1. StageCandidate
    BY Zenon DEF Next, vars, workerVars, CallBegins, CallCompletes, SubmitRefused, SubmitPending,
           SubmitSuperseding, Cancel, SupersedingCompletes, CancelCompletes, WorkerStep,
           TakeWork, SkipSolve, EnterPlan, BeginSolve, ArmSolve, SolveFails, FinishWork,
           WorkThrows, WorkerStops, WorkerQuiet, BeginShutdown, ShutdownInterrupts, JoinWorker
  <2> QED
    BY Zenon, <2>1 DEF StageCandidate, CancellationInv, StopIsSeen
<1> QED
  BY <1>1, CancellationAgrees, PTL DEF Spec, CancelledSolveNotStaged

----------------------------------------------------------------------------
(* The types, and who answers for a staged candidate                       *)

\* The calls that are still to be answered for: the pending request, the solve that
\* may stage a candidate, and the request that waits for its cancellation.
Queued == IF pending # None THEN 1 ELSE 0
Solving == IF worker \in {"started", "checked", "entered", "solving"} THEN 1 ELSE 0
Replacing == IF \E c \in Callers : request[c].pc = "superseding" THEN 1 ELSE 0

\* A candidate is staged at most once for every call: a request is moved, and never
\* copied, from its caller to pending_, to the solve and to the backend.
OneCandidatePerCall == staged + Queued + Solving + Replacing <= calls

\* A caller between its stop request and cancelActiveSolve holds the mutex.
CallerHoldsMutex == \A c \in Callers : request[c].pc # "idle" => mutex = c

Counters == staged \in Nat /\ calls \in 0 .. MaxCalls

Places ==
    /\ mutex \in Callers \cup {None, "shutdown"}
    /\ accepting \in BOOLEAN /\ fatal \in BOOLEAN
    /\ shutdown \in {"running", "interrupting", "stopping", "joined"}
    /\ worker \in {"waiting", "started", "checked", "entered", "solving", "returned", "exited"}

AccountInv == Kinds /\ CallerHoldsMutex /\ Places /\ Counters /\ OneCandidatePerCall

LEMMA OneOrNone ==
    /\ Queued \in {0, 1} /\ Solving \in {0, 1} /\ Replacing \in {0, 1}
    /\ Queued' \in {0, 1} /\ Solving' \in {0, 1} /\ Replacing' \in {0, 1}
BY Zenon DEF Queued, Solving, Replacing

\* The sums before and after a step, when one of three places may have been filled by
\* a call, or handed on to another place.
LEMMA CallFillsOnePlace ==
    ASSUME NEW a \in Nat, NEW n \in Nat, NEW q \in {0, 1}, NEW s \in {0, 1}, NEW r \in {0, 1},
           NEW q1 \in {0, 1}, NEW r1 \in {0, 1}, a + q + s + r <= n
    PROVE  /\ q1 = q \/ r1 = r => a + q1 + s + r1 <= n + 1
           /\ r = 1 \/ q1 = q => a + q1 + s + 0 <= n
OBVIOUS

\* A caller that gives up its part leaves no other one replacing.
LEMMA ReplacementEnds ==
    ASSUME AccountInv, NEW c \in Callers, mutex = c, request' = [request EXCEPT ![c] = Idle]
    PROVE  /\ \A d \in Callers : request'[d].pc = "idle"
           /\ Replacing' = 0
           /\ request[c].pc = "superseding" => Replacing = 1
<1>1. ASSUME NEW d \in Callers PROVE request'[d].pc = "idle"
  <2>1. CASE d = c
    BY Zenon, <2>1 DEF AccountInv, Kinds, Idle
  <2>2. CASE d # c
    BY Zenon, <2>2 DEF AccountInv, Kinds, CallerHoldsMutex
  <2> QED
    BY Zenon, <2>1, <2>2
<1>2. Replacing' = 0
  BY <1>1 DEF Replacing
<1> QED
  BY Zenon, <1>1, <1>2 DEF Replacing

\* A call takes at most one place more than it gives up.
LEMMA CallsKeepAccount ==
    ASSUME AccountInv, Kinds', NEW c \in Callers, CallBegins(c) \/ CallCompletes(c)
    PROVE  AccountInv'
<1>0. Kinds /\ CallerHoldsMutex /\ Places /\ Counters /\ OneCandidatePerCall
  BY Zenon DEF AccountInv
<1>1. UNCHANGED <<accepting, fatal, shutdown, worker, staged>> /\ Solving' = Solving
  BY Zenon DEF CallBegins, CallCompletes, SubmitRefused, SubmitPending, SubmitSuperseding, Cancel,
     SupersedingCompletes, CancelCompletes, workerVars, Solving
<1>2. Places'
  BY Zenon, <1>0, <1>1 DEF Places, CallBegins, CallCompletes, SubmitRefused, SubmitPending,
     SubmitSuperseding, Cancel, SupersedingCompletes, CancelCompletes, Interrupt
<1>3. CASE CallBegins(c)
  <2>1. calls < MaxCalls /\ calls' = calls + 1
    BY Zenon, <1>3 DEF CallBegins, SubmitRefused, SubmitPending, SubmitSuperseding, Cancel, Called
  <2>2. Counters'
    BY <1>0, <1>1, <2>1, PlanningWorkerAssumption DEF Counters
  <2>3. Queued' = Queued \/ Replacing' = Replacing
    <3>1. CASE SubmitRefused(c) \/ SubmitPending(c)
      BY Zenon, <3>1 DEF SubmitRefused, SubmitPending, Replacing
    <3>2. CASE SubmitSuperseding(c) \/ Cancel(c)
      BY Zenon, <3>2 DEF SubmitSuperseding, Cancel, Queued
    <3> QED
      BY Zenon, <1>3, <3>1, <3>2 DEF CallBegins
  <2>4. OneCandidatePerCall'
    <3>1. staged \in Nat /\ calls \in Nat /\ staged' = staged
      BY <1>0, <1>1, PlanningWorkerAssumption DEF Counters
    <3>2. staged + Queued + Solving + Replacing <= calls
      BY Zenon, <1>0 DEF OneCandidatePerCall
    <3>3. staged' + Queued' + Solving' + Replacing' <= calls'
      BY Zenon, <1>1, <2>1, <2>3, <3>1, <3>2, OneOrNone, CallFillsOnePlace
    <3> QED
      BY Zenon, <3>3 DEF OneCandidatePerCall
  <2>5. CallerHoldsMutex'
    <3>1. CASE SubmitRefused(c) \/ SubmitPending(c)
      BY Zenon, <1>0, <3>1 DEF SubmitRefused, SubmitPending, CallerHoldsMutex
    <3>2. CASE SubmitSuperseding(c) \/ Cancel(c)
      <4>1. mutex = None /\ mutex' = c
        BY Zenon, <3>2 DEF SubmitSuperseding, Cancel, Called
      <4>2. ASSUME NEW d \in Callers, d # c PROVE request'[d].pc = "idle"
        <5>1. request'[d] = request[d]
          BY Zenon, <1>0, <3>2, <4>2 DEF SubmitSuperseding, Cancel, Kinds
        <5> QED
          BY Zenon, <1>0, <4>1, <5>1, PlanningWorkerAssumption DEF CallerHoldsMutex
      <4> QED
        BY Zenon, <4>1, <4>2 DEF CallerHoldsMutex
    <3> QED
      BY Zenon, <1>3, <3>1, <3>2 DEF CallBegins
  <2> QED
    BY Zenon, <1>2, <2>2, <2>4, <2>5 DEF AccountInv
<1>4. CASE CallCompletes(c)
  <2>1. mutex = c /\ request' = [request EXCEPT ![c] = Idle] /\ calls' = calls
    BY Zenon, <1>4 DEF CallCompletes, SupersedingCompletes, CancelCompletes, Interrupt
  <2>2. /\ \A d \in Callers : request'[d].pc = "idle"
        /\ Replacing' = 0
        /\ request[c].pc = "superseding" => Replacing = 1
    BY Zenon, <2>1, ReplacementEnds
  <2>3. Replacing = 1 \/ Queued' = Queued
    BY Zenon, <1>4, <2>2 DEF CallCompletes, SupersedingCompletes, CancelCompletes, workerVars,
       Queued
  <2>4. Counters'
    BY Zenon, <1>0, <1>1, <2>1 DEF Counters
  <2>5. OneCandidatePerCall'
    <3>1. staged \in Nat /\ calls \in Nat /\ staged' = staged
      BY <1>0, <1>1, PlanningWorkerAssumption DEF Counters
    <3>2. staged + Queued + Solving + Replacing <= calls
      BY Zenon, <1>0 DEF OneCandidatePerCall
    <3>3. staged' + Queued' + Solving' + Replacing' <= calls'
      BY Zenon, <1>1, <2>1, <2>2, <2>3, <3>1, <3>2, OneOrNone, CallFillsOnePlace
    <3> QED
      BY Zenon, <3>3 DEF OneCandidatePerCall
  <2>6. CallerHoldsMutex'
    BY Zenon, <2>2 DEF CallerHoldsMutex
  <2> QED
    BY Zenon, <1>2, <2>4, <2>5, <2>6 DEF AccountInv
<1> QED
  BY Zenon, <1>3, <1>4

\* The same sums when a request is handed on: to the solve, to the backend, or dropped.
LEMMA RequestHandedOn ==
    ASSUME NEW a \in Nat, NEW n \in Nat, NEW q \in {0, 1}, NEW s \in {0, 1}, NEW r \in {0, 1},
           NEW q1 \in {0, 1}, NEW s1 \in {0, 1}, a + q + s + r <= n
    PROVE  /\ (q1 = 0 \/ q1 = q) /\ (s1 = 0 \/ s1 = s) => a + q1 + s1 + r <= n
           /\ q = 1 /\ q1 = 0 /\ s = 0 => a + q1 + s1 + r <= n
           /\ q1 = q /\ s = 1 /\ s1 = 0 => (a + 1) + q1 + s1 + r <= n
OBVIOUS

\* The worker thread moves a request from place to place, and makes none up.
LEMMA WorkerKeepsAccount ==
    ASSUME AccountInv, Kinds', WorkerStep
    PROVE  AccountInv'
<1>0. Kinds /\ CallerHoldsMutex /\ Places /\ Counters /\ OneCandidatePerCall
  BY Zenon DEF AccountInv
<1>1. UNCHANGED <<mutex, shutdown, request, calls>> /\ Replacing' = Replacing
  BY Zenon DEF WorkerStep, TakeWork, SkipSolve, EnterPlan, BeginSolve, ArmSolve, SolveFails,
     StageCandidate, FinishWork, WorkThrows, WorkerStops, WorkerQuiet, Replacing
<1>2. CallerHoldsMutex'
  BY Zenon, <1>0, <1>1 DEF CallerHoldsMutex
<1>3. Places'
  BY Zenon, <1>0, <1>1 DEF Places, WorkerStep, TakeWork, SkipSolve, EnterPlan, BeginSolve,
     ArmSolve, SolveFails, StageCandidate, FinishWork, WorkThrows, WorkerStops
<1>4. staged \in Nat /\ calls \in Nat /\ staged + Queued + Solving + Replacing <= calls
  BY <1>0, PlanningWorkerAssumption DEF Counters, OneCandidatePerCall
<1>5. \/ /\ staged' = staged /\ (Queued' = 0 \/ Queued' = Queued)
         /\ Solving' = 0 \/ Solving' = Solving
      \/ staged' = staged /\ Queued = 1 /\ Queued' = 0 /\ Solving = 0
      \/ staged' = staged + 1 /\ Queued' = Queued /\ Solving = 1 /\ Solving' = 0
  <2>1. CASE TakeWork
    <3>1. Queued = 1 /\ Queued' = 0
      BY Zenon, <2>1 DEF TakeWork, Queued
    <3>2. Solving = 0
      BY <2>1 DEF TakeWork, Solving
    <3> QED
      BY Zenon, <2>1, <3>1, <3>2 DEF TakeWork
  <2>2. CASE StageCandidate
    <3>1. Solving = 1 /\ Solving' = 0
      BY <2>2 DEF StageCandidate, Solving
    <3> QED
      BY Zenon, <2>2, <3>1 DEF StageCandidate, Queued
  <2>3. CASE SkipSolve \/ ArmSolve \/ SolveFails \/ FinishWork \/ WorkThrows \/ WorkerStops
    <3>1. Solving' = 0 \/ Solving' = Solving
      <4>1. worker' \in {"returned", "waiting", "exited", "solving"}
        BY Zenon, <2>3 DEF SkipSolve, ArmSolve, SolveFails, FinishWork, WorkThrows, WorkerStops
      <4>2. CASE worker' = "solving"
        <5>1. worker = "entered"
          BY Zenon, <2>3, <4>2 DEF SkipSolve, ArmSolve, SolveFails, FinishWork, WorkThrows,
             WorkerStops
        <5> QED
          BY Zenon, <4>2, <5>1 DEF Solving
      <4> QED
        BY <4>1, <4>2 DEF Solving
    <3>2. /\ staged' = staged
          /\ Queued' = 0 \/ Queued' = Queued
      BY Zenon, <2>3 DEF SkipSolve, ArmSolve, SolveFails, FinishWork, WorkThrows, WorkerStops,
         Queued
    <3> QED
      BY Zenon, <3>1, <3>2
  <2>4. CASE EnterPlan \/ BeginSolve
    <3>1. Solving = 1 /\ Solving' = 1
      BY Zenon, <2>4 DEF EnterPlan, BeginSolve, Solving
    <3> QED
      BY Zenon, <2>4, <3>1 DEF EnterPlan, BeginSolve, Queued
  <2> QED
    BY Zenon, <2>1, <2>2, <2>3, <2>4 DEF WorkerStep
<1>6. staged' + Queued' + Solving' + Replacing' <= calls'
  <2>1. /\ (Queued' = 0 \/ Queued' = Queued) /\ (Solving' = 0 \/ Solving' = Solving)
          => staged + Queued' + Solving' + Replacing <= calls
        /\ Queued = 1 /\ Queued' = 0 /\ Solving = 0
          => staged + Queued' + Solving' + Replacing <= calls
        /\ Queued' = Queued /\ Solving = 1 /\ Solving' = 0
          => (staged + 1) + Queued' + Solving' + Replacing <= calls
    BY Zenon, <1>4, OneOrNone, RequestHandedOn
  <2> QED
    BY Zenon, <1>1, <1>5, <2>1
<1>7. Counters'
  <2>1. staged + 1 \in Nat
    BY <1>4
  <2> QED
    BY Zenon, <1>0, <1>1, <1>5, <2>1 DEF Counters
<1> QED
  BY Zenon, <1>2, <1>3, <1>6, <1>7 DEF AccountInv, OneCandidatePerCall

LEMMA ShutdownKeepsAccount ==
    ASSUME AccountInv, Kinds', BeginShutdown \/ ShutdownInterrupts \/ JoinWorker
    PROVE  AccountInv'
<1>0. Kinds /\ CallerHoldsMutex /\ Places /\ Counters /\ OneCandidatePerCall
  BY Zenon DEF AccountInv
<1>1. /\ UNCHANGED <<request, calls, staged, fatal, worker>>
      /\ pending' = None \/ pending' = pending
  BY Zenon DEF BeginShutdown, ShutdownInterrupts, JoinWorker, workerVars
<1>2. /\ Replacing' = Replacing /\ Solving' = Solving
      /\ Queued' = 0 \/ Queued' = Queued
  BY Zenon, <1>1 DEF Replacing, Solving, Queued
<1>3. Places'
  BY Zenon, <1>0, <1>1 DEF Places, BeginShutdown, ShutdownInterrupts, JoinWorker, Interrupt,
     workerVars
<1>4. CallerHoldsMutex'
  <2>1. mutex \notin Callers \/ UNCHANGED mutex
    BY Zenon, PlanningWorkerAssumption DEF BeginShutdown, ShutdownInterrupts, JoinWorker, Interrupt
  <2> QED
    BY Zenon, <1>0, <1>1, <2>1 DEF CallerHoldsMutex
<1>5. staged \in Nat /\ calls \in Nat /\ staged + Queued + Solving + Replacing <= calls
  BY <1>0, PlanningWorkerAssumption DEF Counters, OneCandidatePerCall
<1>6. staged' + Queued' + Solving' + Replacing' <= calls'
  BY Zenon, <1>1, <1>2, <1>5, OneOrNone, RequestHandedOn
<1>7. Counters'
  BY Zenon, <1>0, <1>1 DEF Counters
<1> QED
  BY Zenon, <1>3, <1>4, <1>6, <1>7 DEF AccountInv, OneCandidatePerCall

\* However calls, solves and the shutdown interleave, no more candidates are staged than
\* calls were made, and only one caller at a time is inside a cancellation.
THEOREM CallsAccountFor == Spec => []AccountInv
<1>1. Init => AccountInv
  <2> SUFFICES ASSUME Init PROVE AccountInv
    BY Zenon
  <2>1. request \in [Callers -> [pc: {"idle", "cancelling", "superseding"},
                                 work: Work \cup {None}]]
    BY Zenon DEF Init, Idle
  <2>2. Kinds
    BY Zenon, <2>1 DEF Init, Kinds
  <2>3. \A c \in Callers : request[c].pc = "idle"
    BY Zenon DEF Init, Idle
  <2>4. Queued = 0 /\ Solving = 0 /\ Replacing = 0
    BY <2>3 DEF Init, Queued, Solving, Replacing
  <2>5. 0 + 0 + 0 + 0 <= 0 /\ 0 \in Nat /\ 0 \in 0 .. MaxCalls
    BY PlanningWorkerAssumption
  <2>6. Counters /\ OneCandidatePerCall
    BY Zenon, <2>4, <2>5 DEF Init, Counters, OneCandidatePerCall
  <2>7. Places /\ CallerHoldsMutex
    BY Zenon, <2>3 DEF Init, Places, CallerHoldsMutex
  <2> QED
    BY Zenon, <2>2, <2>6, <2>7 DEF AccountInv
<1>2. AccountInv /\ Kinds' /\ [Next]_vars => AccountInv'
  <2> SUFFICES ASSUME AccountInv, Kinds', [Next]_vars PROVE AccountInv'
    BY Zenon
  <2>1. CASE UNCHANGED vars
    <3>1. Queued' = Queued /\ Solving' = Solving /\ Replacing' = Replacing
      BY Zenon, <2>1 DEF vars, workerVars, Queued, Solving, Replacing
    <3> QED
      BY Zenon, <2>1, <3>1 DEF vars, workerVars, AccountInv, CallerHoldsMutex, Places,
         Counters, OneCandidatePerCall
  <2> QED
    BY Zenon, <2>1, CallsKeepAccount, WorkerKeepsAccount, ShutdownKeepsAccount DEF Next
<1>3. CancellationInv => Kinds
  BY Zenon DEF CancellationInv
<1> QED
  BY <1>1, <1>2, <1>3, CancellationAgrees, PTL DEF Spec

\* PlanningWorker's members, its callers and the backend's flag keep their types; the
\* candidates staged are bounded by the calls.
THEOREM TypeCorrect == Spec => []TypeOK
<1>1. AccountInv => TypeOK
  <2> SUFFICES ASSUME AccountInv PROVE TypeOK
    BY Zenon
  <2>1. staged \in 0 .. MaxCalls
    <3>1. /\ staged \in Nat /\ calls \in 0 .. MaxCalls
          /\ staged + Queued + Solving + Replacing <= calls
      BY Zenon DEF AccountInv, Counters, OneCandidatePerCall
    <3> QED
      BY <3>1, OneOrNone, PlanningWorkerAssumption
  <2> QED
    BY Zenon, <2>1 DEF AccountInv, Kinds, Places, Counters, TypeOK
<1> QED
  BY <1>1, CallsAccountFor, PTL
=============================================================================
