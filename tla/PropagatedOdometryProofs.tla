----------------------- MODULE PropagatedOdometryProofs -----------------------
(***************************************************************************)
(* The odometry worker for every set of stamps, every ingress capacity,    *)
(* age and period, and any number of corrections and generations: what it  *)
(* publishes comes from the correction it applied, is no older than        *)
(* allowed and of no superseded generation, and it never sleeps on work.   *)
(***************************************************************************)
EXTENDS PropagatedOdometry, TLAPS

----------------------------------------------------------------------------
(* The invariant                                                           *)

\* A set of stamps that is empty or has a greatest element: what the history always
\* is, whether or not there are finitely many stamps.
HasGreatest(S) == S # {} => \E m \in S : \A x \in S : x <= m

\* ImuStatePropagator between its calls: valid_ is the negation of requires_reanchor_,
\* a valid state has an anchor and samples, and only a valid state has samples that
\* wait to be predicted over.
PropagatorOK(p) ==
    /\ p \in Propagators(Correction)
    /\ HasGreatest(p.history)
    /\ p.valid <=> ~p.requires_reanchor
    /\ p.valid => p.history # {} /\ p.anchor # None
    /\ p.pending # 0 => p.valid

\* The types, and what a step of the cycle knows of its locals.
Kinds ==
    /\ TypeOK
    /\ PropagatorOK(propagator)
    /\ accepting => ~stop_requested
    /\ worker.step \in {"reset", "shed", "invalidate"} => (worker.imu <=> worker.batch # <<>>)
    /\ worker.step \in {"begin", "record"} => worker.batch # <<>>
    /\ worker.step = "replay" => worker.correction # None

\* The thread decides to sleep, and sleeps, only on an empty ingress.
SleepInv == worker.step \in {"deciding", "blocked"} =>
    /\ imu_ingress = <<>>
    /\ ~reset_requested /\ ~invalidation_requested /\ ~correction_requested

\* While a correction is replayed without mutex_, the estimator's word on its
\* generation and validity changes only with a request that is still to be taken, or
\* with the output suspended.
ReplayInv == worker.step = "replay" =>
    \/ invalidation_requested \/ suspended
    \/ worker.correction.generation = control_generation /\ main_valid

\* A valid state that no pending request and no suspension keeps from being published
\* was anchored in this generation, at the correction applied last.  (A replay whose
\* result was dropped leaves the propagator valid and anchored elsewhere: it is the
\* request that dropped it that keeps the state in.)
AnchorInv == propagator.valid /\ ~suspended /\ ~invalidation_requested =>
    /\ propagator.anchor.generation = control_generation
    /\ load_shed_requested \/ propagator.anchor = last_applied

\* The newest sample is not too far from the correction applied last.
Fresh == ~(latest_imu_time(propagator) - last_applied.time > maximum_correction_age)

\* The age was looked at, unless the cycle will not publish anyway.
AgeInv == worker.step = "recheck" =>
    \/ TransitionPending \/ ~worker.ok
    \/ last_applied = None \/ propagator.history = {} \/ Fresh

\* Past the last look at the control channel, requests that arrive no longer matter.
PublishInv == worker.step = "publish" /\ propagator.valid =>
    /\ propagator.anchor = last_applied
    /\ Fresh
    /\ published # None => published.generation <= propagator.anchor.generation

PublishedInv == published # None =>
    /\ published.generation <= control_generation
    /\ published.time - published.anchor.time <= maximum_correction_age

OutputInv == ReplayInv /\ AnchorInv /\ AgeInv /\ PublishInv /\ PublishedInv

OdometryInv == Kinds /\ SleepInv /\ OutputInv

----------------------------------------------------------------------------
(* ImuStatePropagator                                                      *)

LEMMA MaxOfHistory ==
    ASSUME NEW S \in SUBSET Time, S # {}, HasGreatest(S)
    PROVE  Max(S) \in S /\ \A x \in S : x <= Max(S)
<1>1. S \subseteq Nat
  BY Zenon, TimeAssumption
<1>2. PICK m \in S : \A x \in S : x <= m
  BY Zenon DEF HasGreatest
<1>3. \A x \in S : m >= x
  BY <1>1, <1>2
<1>4. Max(S) \in S /\ \A x \in S : Max(S) >= x
  BY Zenon, <1>3 DEF Max
<1> QED
  BY <1>1, <1>4

\* Pruning keeps the newest sample.
LEMMA PrunedHistory ==
    ASSUME NEW S \in SUBSET Time, S # {}, HasGreatest(S)
    PROVE  /\ pruneHistory(S) \in SUBSET Time /\ pruneHistory(S) # {}
           /\ HasGreatest(pruneHistory(S))
<1>1. S \subseteq Nat
  BY Zenon, TimeAssumption
<1>2. Max(S) \in S /\ \A x \in S : x <= Max(S)
  BY Zenon, MaxOfHistory
<1>3. \A u \in S : ~(u > Max(S))
  <2> SUFFICES ASSUME NEW u \in S PROVE ~(u > Max(S))
    BY Zenon
  <2>1. u \in Nat /\ Max(S) \in Nat /\ u <= Max(S)
    BY Zenon, <1>1, <1>2
  <2> QED
    BY <2>1
<1>4. Max(S) \in pruneHistory(S) /\ pruneHistory(S) \subseteq S
  BY Zenon, <1>2, <1>3 DEF pruneHistory
<1> QED
  BY Zenon, <1>2, <1>4 DEF HasGreatest

LEMMA UnanchoredOK == PropagatorOK(Unanchored)
BY DEF PropagatorOK, Unanchored, Propagators, HasGreatest

LEMMA FailureOK ==
    ASSUME NEW p, PropagatorOK(p)
    PROVE  PropagatorOK(setFailure(p)) /\ ~setFailure(p).valid
<1>1. p \in Propagators(Correction)
  BY Zenon DEF PropagatorOK
<1>2. setFailure(p) \in Propagators(Correction)
  BY Zenon, <1>1 DEF setFailure, Propagators
<1>3. /\ setFailure(p).history = p.history /\ setFailure(p).pending = 0
      /\ setFailure(p).valid = FALSE /\ setFailure(p).requires_reanchor = TRUE
  BY Zenon, <1>1 DEF setFailure, Propagators
<1> QED
  BY Zenon, <1>2, <1>3 DEF PropagatorOK

\* A sample that follows the history becomes its newest.
LEMMA ExtendedHistory ==
    ASSUME NEW S \in SUBSET Time, HasGreatest(S), NEW t \in Time, S # {} => ~(t <= Max(S))
    PROVE  S \cup {t} \in SUBSET Time /\ S \cup {t} # {} /\ HasGreatest(S \cup {t})
<1>1. S \cup {t} \subseteq Nat
  BY TimeAssumption
<1>2. \A x \in S : x <= t
  <2> SUFFICES ASSUME NEW x \in S PROVE x <= t
    BY Zenon
  <2>1. Max(S) \in S /\ x <= Max(S)
    BY Zenon, MaxOfHistory
  <2> QED
    BY <1>1, <2>1
<1>3. \A x \in S \cup {t} : x <= t
  BY <1>1, <1>2
<1> QED
  BY Zenon, <1>3 DEF HasGreatest

\* acceptImu and recordImuForReplay: a state that is valid afterwards was valid
\* before, with the same anchor.
LEMMA RecordedOK ==
    ASSUME NEW p, PropagatorOK(p), NEW t \in Time, NEW append \in BOOLEAN
    PROVE  LET q == validateAndRecordImu(p, t, append)
           IN  /\ PropagatorOK(q)
               /\ q.valid => p.valid /\ q.anchor = p.anchor
               /\ q.valid => Disposition(p, t) = "recorded"
<1>0. p \in Propagators(Correction) /\ p.history \in SUBSET Time /\ HasGreatest(p.history)
  BY Zenon DEF PropagatorOK, Propagators
<1>1. CASE Disposition(p, t) = "rejected"
  BY Zenon, <1>1, FailureOK DEF validateAndRecordImu
<1>2. CASE Disposition(p, t) = "restarted"
  <2> DEFINE q == restartContinuity(t)
  <2>1. validateAndRecordImu(p, t, append) = q
    BY <1>2 DEF validateAndRecordImu
  <2>2. /\ q \in Propagators(Correction) /\ q.history = {t} /\ q.pending = 0
        /\ q.valid = FALSE /\ q.requires_reanchor = TRUE
    BY Zenon DEF restartContinuity, Unanchored, Propagators
  <2>3. HasGreatest({t})
    BY TimeAssumption DEF HasGreatest
  <2> QED
    BY Zenon, <2>1, <2>2, <2>3 DEF PropagatorOK
<1>3. CASE Disposition(p, t) = "recorded"
  <2> DEFINE h == pruneHistory(p.history \cup {t})
             w == IF append /\ ~p.requires_reanchor /\ p.anchor # None THEN t ELSE p.pending
             q == [p EXCEPT !.history = h, !.pending = w]
  <2>1. validateAndRecordImu(p, t, append) = q
    BY <1>3 DEF validateAndRecordImu
  <2>2. p.history # {} => ~(t <= Max(p.history))
    BY <1>3 DEF Disposition
  <2>3. h \in SUBSET Time /\ h # {} /\ HasGreatest(h)
    BY Zenon, <1>0, <2>2, ExtendedHistory, PrunedHistory
  <2>4. w \in Time \cup {0} /\ (w # 0 => p.valid)
    BY Zenon, <1>0 DEF PropagatorOK, Propagators
  <2> HIDE DEF h, w
  <2>5. q \in Propagators(Correction)
    BY Zenon, <1>0, <2>3, <2>4 DEF Propagators
  <2>6. /\ q.history = h /\ q.pending = w /\ q.anchor = p.anchor
        /\ q.valid = p.valid /\ q.requires_reanchor = p.requires_reanchor
    BY Zenon, <1>0 DEF Propagators
  <2> HIDE DEF q
  <2>7. PropagatorOK(q) /\ (q.valid => p.valid) /\ q.anchor = p.anchor
    BY Zenon, <2>3, <2>4, <2>5, <2>6 DEF PropagatorOK
  <2> QED
    BY Zenon, <1>3, <2>1, <2>7
<1> QED
  BY Zenon, <1>1, <1>2, <1>3 DEF Disposition

\* flushPendingPrediction: the samples stay, and a state that is valid afterwards was
\* valid before, with the same anchor.
LEMMA FlushedOK ==
    ASSUME NEW p, PropagatorOK(p), NEW flush \in flushPendingPrediction(p)
    PROVE  /\ flush.ok \in BOOLEAN /\ PropagatorOK(flush.p)
           /\ flush.p.history = p.history
           /\ flush.p.valid => p.valid /\ flush.p.anchor = p.anchor
<1>1. CASE p.anchor = None \/ p.pending = 0
  <2>1. flush = [ok |-> TRUE, p |-> p]
    BY Zenon, <1>1 DEF flushPendingPrediction
  <2> QED
    BY Zenon, <2>1
<1>2. CASE ~(p.anchor = None \/ p.pending = 0)
  <2>0. p \in Propagators(Correction) /\ p.pending \in Time /\ p.valid
    BY Zenon, <1>2 DEF PropagatorOK, Propagators
  <2> DEFINE q == [p EXCEPT !.time = p.pending, !.pending = 0, !.valid = TRUE,
                            !.requires_reanchor = FALSE]
  <2>1. flush = [ok |-> TRUE, p |-> q] \/ flush = [ok |-> FALSE, p |-> setFailure(p)]
    BY Zenon, <1>2 DEF flushPendingPrediction
  <2>2. q \in Propagators(Correction)
    BY Zenon, <2>0 DEF Propagators
  <2>3. /\ q.history = p.history /\ q.anchor = p.anchor /\ q.pending = 0
        /\ q.valid = TRUE /\ q.requires_reanchor = FALSE
    BY Zenon, <2>0 DEF Propagators
  <2> HIDE DEF q
  <2>4. PropagatorOK(q)
    BY Zenon, <2>0, <2>2, <2>3 DEF PropagatorOK
  <2>5. setFailure(p).history = p.history
    BY Zenon, <2>0 DEF setFailure, Propagators
  <2>6. CASE flush = [ok |-> TRUE, p |-> q]
    BY Zenon, <2>0, <2>3, <2>4, <2>6
  <2>7. CASE flush = [ok |-> FALSE, p |-> setFailure(p)]
    BY <2>5, <2>7, FailureOK
  <2> QED
    BY Zenon, <2>1, <2>6, <2>7
<1> QED
  BY Zenon, <1>1, <1>2

\* reanchorAndReplay: a valid result is anchored at the correction, any other answer
\* leaves the state invalid.
LEMMA ReplayedOK ==
    ASSUME NEW p, PropagatorOK(p), NEW c \in Correction, NEW replay \in reanchorAndReplay(p, c)
    PROVE  /\ PropagatorOK(replay.p)
           /\ replay.p.valid => replay.status = "ok" /\ replay.p.anchor = c
<1>0. p \in Propagators(Correction) /\ p.history \in SUBSET Time /\ HasGreatest(p.history)
  BY Zenon DEF PropagatorOK, Propagators
<1>1. CASE bracketHistory(p.history, c.time) = "ok"
  <2> DEFINE q == [history |-> pruneHistory(p.history), anchor |-> c, time |-> Max(p.history),
                   pending |-> 0, valid |-> TRUE, requires_reanchor |-> FALSE]
  <2>1. \/ replay = [status |-> "ok", p |-> q]
        \/ replay = [status |-> "failed", p |-> setFailure(p)]
    BY Zenon, <1>1 DEF reanchorAndReplay
  <2>2. p.history # {}
    BY <1>1 DEF bracketHistory
  <2>3. /\ Max(p.history) \in Time
        /\ pruneHistory(p.history) \in SUBSET Time /\ pruneHistory(p.history) # {}
        /\ HasGreatest(pruneHistory(p.history))
    BY Zenon, <1>0, <2>2, MaxOfHistory, PrunedHistory
  <2>4. PropagatorOK(q) /\ q.anchor = c
    BY Zenon, <2>3, NoneAssumption DEF PropagatorOK, Propagators
  <2> HIDE DEF q
  <2>5. CASE replay = [status |-> "ok", p |-> q]
    BY <2>4, <2>5
  <2>6. CASE replay = [status |-> "failed", p |-> setFailure(p)]
    BY <2>6, FailureOK
  <2> QED
    BY Zenon, <2>1, <2>5, <2>6
<1>2. CASE bracketHistory(p.history, c.time) # "ok"
  <2>1. replay = [status |-> bracketHistory(p.history, c.time), p |-> setFailure(p)]
    BY Zenon, <1>2 DEF reanchorAndReplay
  <2> QED
    BY Zenon, <2>1, FailureOK
<1> QED
  BY Zenon, <1>1, <1>2

----------------------------------------------------------------------------
(* The producers                                                           *)

LEMMA CyclesBegin ==
    ASSUME NEW next \in Steps
    PROVE  At(next) \in Cycle /\ At(next).step = next
<1>1. 0 \in 0 .. MaxGeneration
  BY WorkerAssumption
<1>2. <<>> \in Seq(Time)
  OBVIOUS
<1> QED
  BY Zenon, <1>1, <1>2 DEF At, Cycle

\* A notification moves a sleeping worker to the head of its loop, and no other.
LEMMA NotificationWakes ==
    ASSUME Kinds
    PROVE  /\ Notified \in Cycle
           /\ Notified.step # "blocked" /\ (Notified.step = "deciding" => worker.step = "deciding")
           /\ Notified = worker \/ Notified.step = "idle"
<1>1. worker \in Cycle
  BY Zenon DEF Kinds, TypeOK
<1>2. CASE worker.step = "blocked"
  <2>1. Notified = [worker EXCEPT !.step = "idle"]
    BY Zenon, <1>2 DEF Notified
  <2>2. [worker EXCEPT !.step = "idle"] \in Cycle /\ [worker EXCEPT !.step = "idle"].step = "idle"
    BY Zenon, <1>1 DEF Cycle, Steps
  <2> QED
    BY <2>1, <2>2
<1>3. CASE worker.step # "blocked"
  BY Zenon, <1>1, <1>3 DEF Notified
<1> QED
  BY Zenon, <1>2, <1>3

\* What is published stays published, and the generation only advances.
LEMMA PublicationStands ==
    ASSUME TypeOK, TypeOK', PublishedInv, UNCHANGED published,
           control_generation <= control_generation'
    PROVE  PublishedInv'
<1> SUFFICES ASSUME published # None PROVE published.generation <= control_generation'
  BY Zenon DEF PublishedInv
<1>1. /\ published.generation \in 0 .. MaxGeneration
      /\ control_generation \in 0 .. MaxGeneration /\ control_generation' \in 0 .. MaxGeneration
  BY DEF TypeOK, Estimate
<1>2. published.generation <= control_generation
  BY Zenon DEF PublishedInv
<1> QED
  BY <1>1, <1>2, WorkerAssumption

ProducerStep ==
    \/ \E t \in Time : enqueueImu(t)
    \/ requestLoadShedding \/ reset \/ stop
    \/ EstimatorUpdates

\* What enqueueImu, enqueueEstimatorState, requestLoadShedding, reset and stop change of
\* what the worker looks at: a new generation comes with an invalidation to be taken.
LEMMA ProducersRequest ==
    ASSUME Kinds, ProducerStep
    PROVE  /\ UNCHANGED <<propagator, last_applied, published, next_publish_deadline>>
           /\ worker' = worker \/ worker' = Notified
           /\ suspended => suspended'
           /\ invalidation_requested => invalidation_requested'
           /\ load_shed_requested => load_shed_requested'
           /\ invalidation_requested' \/ control_generation' = control_generation
           /\ \/ invalidation_requested' \/ suspended'
              \/ control_generation' = control_generation /\ (main_valid => main_valid')
<1>1. CASE (\E t \in Time : enqueueImu(t)) \/ requestLoadShedding \/ reset \/ stop
  <2>1. /\ UNCHANGED <<propagator, last_applied, published, next_publish_deadline, suspended,
                       invalidation_requested, control_generation, main_valid>>
        /\ worker' = worker \/ worker' = Notified
    BY Zenon, <1>1 DEF enqueueImu, requestLoadShedding, reset, stop, controlVars, requestVars
  <2>2. load_shed_requested => load_shed_requested'
    BY Zenon, <1>1 DEF enqueueImu, requestLoadShedding, reset, stop, requestVars
  <2> QED
    BY Zenon, <2>1, <2>2
<1>2. CASE enqueueInvalidState
  <2>1. CASE control_generation < MaxGeneration
    <3>1. UNCHANGED stop_requested /\ ~stop_requested
      BY Zenon, <1>2, <2>1 DEF enqueueInvalidState, advanceControlGeneration, Kinds
    <3> QED
      BY Zenon, <1>2, <3>1 DEF enqueueInvalidState
  <2>2. CASE ~(control_generation < MaxGeneration)
    <3>1. stop_requested' /\ UNCHANGED control_generation
      BY Zenon, <1>2, <2>2 DEF enqueueInvalidState, advanceControlGeneration
    <3> QED
      BY Zenon, <1>2, <3>1 DEF enqueueInvalidState
  <2> QED
    BY Zenon, <2>1, <2>2
<1>3. CASE enqueueUncorrectedState
  BY Zenon, <1>3 DEF enqueueUncorrectedState, controlVars, requestVars
<1>4. ASSUME NEW t \in Time, enqueueCorrectedState(t)
      PROVE  /\ UNCHANGED <<propagator, last_applied, published, next_publish_deadline>>
             /\ UNCHANGED <<controlVars, requestVars>> /\ main_valid'
             /\ worker' = worker \/ worker' = Notified
  BY Zenon, <1>4 DEF enqueueCorrectedState
<1> QED
  BY Zenon, <1>1, <1>2, <1>3, <1>4 DEF ProducerStep, EstimatorUpdates, controlVars, requestVars

\* Whoever leaves something under mutex_ for the worker wakes it.
LEMMA ProducersWake ==
    ASSUME Kinds, SleepInv, ProducerStep
    PROVE  SleepInv'
<1>0. /\ Notified.step # "blocked"
      /\ Notified.step = "deciding" => worker.step = "deciding"
  BY Zenon, NotificationWakes
<1>1. ASSUME NEW t \in Time, enqueueImu(t) PROVE SleepInv'
  <2>1. worker.step # "deciding"
    BY Zenon, <1>1 DEF enqueueImu, MutexFree
  <2>2. worker' = Notified \/ (worker' = worker /\ imu_ingress # <<>>)
    BY <1>1 DEF enqueueImu
  <2>3. worker'.step \notin {"deciding", "blocked"}
    BY <1>0, <2>1, <2>2 DEF SleepInv
  <2> QED
    BY Zenon, <2>3 DEF SleepInv
<1>2. CASE requestLoadShedding
  BY Zenon, <1>0, <1>2 DEF SleepInv, requestLoadShedding, correctionVars
<1>3. CASE reset
  BY Zenon, <1>0, <1>3 DEF SleepInv, reset, MutexFree, correctionVars
<1>4. CASE stop
  BY Zenon, <1>0, <1>4 DEF SleepInv, stop, MutexFree, correctionVars, requestVars
<1>5. CASE enqueueInvalidState
  <2>1. worker.step # "deciding"
    BY Zenon, <1>5 DEF enqueueInvalidState, MutexFree
  <2>2. \/ worker' = Notified
        \/ UNCHANGED <<worker, imu_ingress, reset_requested, invalidation_requested,
                       correction_requested>>
    BY <1>5 DEF enqueueInvalidState
  <2> QED
    BY <1>0, <2>1, <2>2 DEF SleepInv
<1>6. CASE enqueueUncorrectedState
  BY Zenon, <1>0, <1>6 DEF SleepInv, enqueueUncorrectedState, MutexFree, correctionVars,
                           requestVars
<1>7. ASSUME NEW t \in Time, enqueueCorrectedState(t) PROVE SleepInv'
  <2>1. worker.step # "deciding"
    BY Zenon, <1>7 DEF enqueueCorrectedState, MutexFree
  <2>2. \/ worker' = Notified
        \/ UNCHANGED <<worker, imu_ingress, reset_requested, invalidation_requested,
                       correction_requested>>
    BY Zenon, <1>7 DEF enqueueCorrectedState, requestVars, correctionVars
  <2> QED
    BY <1>0, <2>1, <2>2 DEF SleepInv
<1> QED
  BY Zenon, <1>1, <1>2, <1>3, <1>4, <1>5, <1>6, <1>7 DEF ProducerStep, EstimatorUpdates

LEMMA GenerationAdvances ==
    ASSUME Kinds, advanceControlGeneration
    PROVE  /\ control_generation' \in 0 .. MaxGeneration
           /\ accepting' \in BOOLEAN /\ stop_requested' \in BOOLEAN
           /\ accepting' => ~stop_requested'
           /\ control_generation <= control_generation'
<1>1. /\ control_generation \in 0 .. MaxGeneration /\ MaxGeneration \in Nat
      /\ accepting \in BOOLEAN /\ stop_requested \in BOOLEAN /\ (accepting => ~stop_requested)
  BY Zenon, WorkerAssumption DEF Kinds, TypeOK
<1>2. CASE control_generation < MaxGeneration
  <2>1. control_generation' = control_generation + 1 /\ UNCHANGED <<accepting, stop_requested>>
    BY Zenon, <1>2 DEF advanceControlGeneration
  <2>2. control_generation' \in 0 .. MaxGeneration /\ control_generation <= control_generation'
    BY <1>1, <1>2, <2>1
  <2>3. accepting' = accepting /\ stop_requested' = stop_requested
    BY Zenon, <2>1
  <2> QED
    BY <1>1, <2>2, <2>3
<1>3. CASE ~(control_generation < MaxGeneration)
  <2>1. UNCHANGED control_generation /\ accepting' = FALSE /\ stop_requested' = TRUE
    BY Zenon, <1>3 DEF advanceControlGeneration
  <2>2. control_generation' \in 0 .. MaxGeneration /\ control_generation <= control_generation'
    BY <1>1, <2>1
  <2> QED
    BY Zenon, <2>1, <2>2
<1> QED
  BY Zenon, <1>2, <1>3

LEMMA ProducersKeepTypes ==
    ASSUME Kinds, ProducerStep
    PROVE  TypeOK' /\ (accepting' => ~stop_requested') /\ control_generation <= control_generation'
<1>0. TypeOK /\ (accepting => ~stop_requested) /\ control_generation <= control_generation
  BY WorkerAssumption DEF Kinds, TypeOK
<1>1. /\ worker' \in Cycle /\ propagator' \in Propagators(Correction)
      /\ next_publish_deadline' \in Nat /\ published' \in Estimate \cup {None}
      /\ last_applied' \in Correction \cup {None}
  BY Zenon, <1>0, ProducersRequest, NotificationWakes DEF TypeOK
<1>2. ASSUME NEW t \in Time, enqueueImu(t)
      PROVE  TypeOK' /\ UNCHANGED <<accepting, stop_requested, control_generation>>
  <2>1. imu_ingress' \in Seq(Time) /\ Len(imu_ingress') <= imu_ingress_capacity
    <3>1. imu_ingress \in Seq(Time) /\ Len(imu_ingress) <= imu_ingress_capacity
      BY Zenon, <1>0 DEF TypeOK
    <3>2. \/ UNCHANGED imu_ingress
          \/ Len(imu_ingress) < imu_ingress_capacity /\ imu_ingress' = Append(imu_ingress, t)
      BY Zenon, <1>2 DEF enqueueImu
    <3> QED
      BY <3>1, <3>2, WorkerAssumption
  <2>2. load_shed_requested' \in BOOLEAN
    BY Zenon, <1>0, <1>2 DEF TypeOK, enqueueImu
  <2>3. UNCHANGED <<controlVars, reset_requested, invalidation_requested, correctionVars,
                    main_valid, correction_sequence>>
    BY Zenon, <1>2 DEF enqueueImu
  <2> QED
    BY Zenon, <1>0, <1>1, <2>1, <2>2, <2>3 DEF TypeOK, controlVars, correctionVars
<1>3. CASE requestLoadShedding \/ reset \/ enqueueUncorrectedState
  <2>1. UNCHANGED <<controlVars, invalidation_requested, correctionVars, imu_ingress,
                    correction_sequence>>
    BY Zenon, <1>3 DEF requestLoadShedding, reset, enqueueUncorrectedState, requestVars
  <2>2. {load_shed_requested', reset_requested', main_valid'} \subseteq BOOLEAN
    BY Zenon, <1>0, <1>3 DEF TypeOK, requestLoadShedding, reset, enqueueUncorrectedState,
       requestVars
  <2> QED
    BY Zenon, <1>0, <1>1, <2>1, <2>2 DEF TypeOK, controlVars, correctionVars
<1>4. CASE stop
  BY Zenon, <1>0, <1>1, <1>4 DEF TypeOK, stop, requestVars, correctionVars
<1>5. CASE enqueueInvalidState
  <2>1. advanceControlGeneration
    BY Zenon, <1>5 DEF enqueueInvalidState
  <2>2. {suspended', invalidation_requested', main_valid'} \subseteq BOOLEAN
    BY Zenon, <1>0, <1>5 DEF TypeOK, enqueueInvalidState
  <2>3. pending_correction' \in Correction \cup {None}
    BY Zenon, <1>0, <1>5 DEF TypeOK, enqueueInvalidState
  <2>4. UNCHANGED <<load_shed_requested, reset_requested, correction_requested, imu_ingress,
                    correction_sequence>>
    BY Zenon, <1>5 DEF enqueueInvalidState
  <2> QED
    BY Zenon, <1>0, <1>1, <2>1, <2>2, <2>3, <2>4, GenerationAdvances DEF TypeOK
<1>6. ASSUME NEW t \in Time, enqueueCorrectedState(t)
      PROVE  TypeOK' /\ UNCHANGED <<accepting, stop_requested, control_generation>>
  <2> DEFINE c == [sequence |-> correction_sequence + 1, time |-> t,
                   generation |-> control_generation]
  <2>1. correction_sequence + 1 \in 1 .. MaxSequence /\ correction_sequence + 1 \in 0 .. MaxSequence
    BY <1>0, <1>6, WorkerAssumption DEF TypeOK, enqueueCorrectedState
  <2>2. c \in Correction
    BY Zenon, <1>0, <2>1 DEF TypeOK, Correction
  <2>3. /\ correction_sequence' = correction_sequence + 1 /\ main_valid' = TRUE
        /\ pending_correction' = c \/ UNCHANGED pending_correction
        /\ correction_requested' = TRUE \/ UNCHANGED correction_requested
        /\ UNCHANGED <<controlVars, requestVars, imu_ingress>>
    BY Zenon, <1>6 DEF enqueueCorrectedState, correctionVars
  <2> HIDE DEF c
  <2>4. correction_requested' \in BOOLEAN
    BY Zenon, <1>0, <2>3 DEF TypeOK
  <2> QED
    BY Zenon, <1>0, <1>1, <2>1, <2>2, <2>3, <2>4 DEF TypeOK, controlVars, requestVars
<1>7. ASSUME TypeOK', UNCHANGED <<accepting, stop_requested, control_generation>>
      PROVE  (accepting' => ~stop_requested') /\ control_generation <= control_generation'
  BY Zenon, <1>0, <1>7
<1> QED
  BY Zenon, <1>2, <1>3, <1>4, <1>5, <1>6, <1>7 DEF ProducerStep, EstimatorUpdates

\* The producers touch neither the propagator nor what was applied and published.
LEMMA ProducersKeepInv ==
    ASSUME OdometryInv, ProducerStep
    PROVE  OdometryInv'
<1>0. Kinds /\ SleepInv /\ ReplayInv /\ AnchorInv /\ AgeInv /\ PublishInv /\ PublishedInv
  BY Zenon DEF OdometryInv, OutputInv
<1>1. /\ UNCHANGED <<propagator, last_applied, published>>
      /\ suspended => suspended'
      /\ invalidation_requested => invalidation_requested'
      /\ load_shed_requested => load_shed_requested'
      /\ invalidation_requested' \/ control_generation' = control_generation
      /\ \/ invalidation_requested' \/ suspended'
         \/ control_generation' = control_generation /\ (main_valid => main_valid')
  BY Zenon, <1>0, ProducersRequest
<1>2. worker' = worker \/ worker'.step = "idle"
  BY Zenon, <1>0, ProducersRequest, NotificationWakes
<1>3. /\ TypeOK' /\ (accepting' => ~stop_requested')
      /\ control_generation <= control_generation' /\ TypeOK
  BY Zenon, <1>0, ProducersKeepTypes DEF Kinds
<1>4. Kinds'
  BY <1>0, <1>1, <1>2, <1>3 DEF Kinds
<1>5. SleepInv'
  BY Zenon, <1>0, ProducersWake
<1>6. ReplayInv'
  BY <1>0, <1>1, <1>2 DEF ReplayInv
<1>7. AnchorInv'
  BY Zenon, <1>0, <1>1 DEF AnchorInv
<1>8. Fresh' = Fresh
  BY Zenon, <1>1 DEF Fresh
<1>9. AgeInv'
  BY <1>0, <1>1, <1>2, <1>8 DEF AgeInv, TransitionPending
<1>10. PublishInv'
  BY <1>0, <1>1, <1>2, <1>8 DEF PublishInv
<1>11. PublishedInv'
  BY Zenon, <1>0, <1>1, <1>3, PublicationStands
<1> QED
  BY Zenon, <1>4, <1>5, <1>6, <1>7, <1>9, <1>10, <1>11 DEF OdometryInv, OutputInv

----------------------------------------------------------------------------
(* The worker's thread                                                     *)

\* A step of run() that touches only the requests, the ingress and its own place.
LEMMA WaitingKeepsKinds ==
    ASSUME Kinds, waitDecides \/ waitBlocks \/ runExits \/ drainIngress
    PROVE  Kinds'
<1>0. TypeOK /\ PropagatorOK(propagator) /\ (accepting => ~stop_requested)
  BY Zenon DEF Kinds
<1>1. CASE waitDecides \/ waitBlocks \/ runExits
  <2>1. \E next \in {"deciding", "blocked", "exited"} : worker' = At(next)
    BY Zenon, <1>1 DEF waitDecides, waitBlocks, runExits
  <2>2. worker' \in Cycle /\ worker'.step \in {"deciding", "blocked", "exited"}
    BY Zenon, <2>1, CyclesBegin DEF Steps
  <2>3. UNCHANGED <<controlVars, requestVars, correctionVars, imu_ingress, producerVars,
                    last_applied, propagator, next_publish_deadline, published>>
    BY Zenon, <1>1 DEF waitDecides, waitBlocks, runExits
  <2>4. TypeOK'
    BY Zenon, <1>0, <2>2, <2>3 DEF TypeOK, controlVars, requestVars, correctionVars, producerVars
  <2> QED
    BY <1>0, <2>2, <2>3, <2>4 DEF Kinds, controlVars
<1>2. CASE drainIngress
  <2> DEFINE w == [At("reset") EXCEPT !.batch = imu_ingress, !.imu = imu_ingress # <<>>]
  <2>1. At("reset") \in Cycle /\ imu_ingress \in Seq(Time)
    BY Zenon, <1>0, CyclesBegin DEF TypeOK, Steps
  <2>2. w \in Cycle /\ w.step = "reset" /\ w.batch = imu_ingress /\ w.imu = (imu_ingress # <<>>)
    BY Zenon, <2>1 DEF Cycle, At
  <2>3. worker' = w
    BY Zenon, <1>2 DEF drainIngress
  <2> HIDE DEF w
  <2>4. /\ worker' \in Cycle /\ worker'.step = "reset"
        /\ worker'.imu <=> worker'.batch # <<>>
    BY <2>2, <2>3
  <2>5. imu_ingress' \in Seq(Time) /\ Len(imu_ingress') <= imu_ingress_capacity
    BY <1>2, WorkerAssumption DEF drainIngress
  <2>6. /\ correction_requested' = FALSE
        /\ UNCHANGED <<controlVars, requestVars, pending_correction, producerVars,
                       last_applied, propagator, next_publish_deadline, published>>
    BY Zenon, <1>2 DEF drainIngress
  <2>7. TypeOK'
    BY Zenon, <1>0, <2>4, <2>5, <2>6 DEF TypeOK, controlVars, requestVars, producerVars
  <2> QED
    BY <1>0, <2>4, <2>6, <2>7 DEF Kinds, controlVars
<1> QED
  BY Zenon, <1>1, <1>2

\* The requests are taken one after the other.
LEMMA RequestsKeepKinds ==
    ASSUME Kinds, takeReset \/ takeLoadShedding \/ takeInvalidation
    PROVE  /\ Kinds' /\ control_generation <= control_generation'
           /\ worker'.step \in {"idle", "exited", "shed", "invalidate", "begin", "take"}
<1>0. /\ TypeOK /\ PropagatorOK(propagator) /\ (accepting => ~stop_requested)
      /\ worker \in Cycle /\ control_generation <= control_generation
  BY WorkerAssumption DEF Kinds, TypeOK
<1>1. /\ worker.step \in {"reset", "shed", "invalidate"}
      /\ worker.imu <=> worker.batch # <<>>
  BY Zenon DEF Kinds, takeReset, takeLoadShedding, takeInvalidation
<1>2. UNCHANGED <<producerVars, last_applied, next_publish_deadline, published>>
  BY Zenon DEF takeReset, takeLoadShedding, takeInvalidation
<1>3. imu_ingress' \in Seq(Time) /\ Len(imu_ingress') <= imu_ingress_capacity
  <2>1. imu_ingress' = <<>> \/ UNCHANGED imu_ingress
    BY Zenon DEF takeReset, takeLoadShedding, takeInvalidation
  <2>2. imu_ingress \in Seq(Time) /\ Len(imu_ingress) <= imu_ingress_capacity
    BY Zenon, <1>0 DEF TypeOK
  <2>3. <<>> \in Seq(Time) /\ Len(<<>>) <= imu_ingress_capacity
    BY WorkerAssumption
  <2> QED
    BY Zenon, <2>1, <2>2, <2>3
<1>4. pending_correction' \in Correction \cup {None}
  BY Zenon, <1>0 DEF TypeOK, takeReset, takeLoadShedding, takeInvalidation, controlVars,
                     correctionVars
<1>5. {load_shed_requested', reset_requested', invalidation_requested', correction_requested',
       suspended'} \subseteq BOOLEAN
  <2>1. CASE takeReset
    BY Zenon, <1>0, <2>1 DEF TypeOK, takeReset, controlVars, correctionVars, requestVars
  <2>2. CASE takeLoadShedding
    BY Zenon, <1>0, <2>2 DEF TypeOK, takeLoadShedding, controlVars
  <2>3. CASE takeInvalidation
    BY Zenon, <1>0, <2>3 DEF TypeOK, takeInvalidation, correctionVars
  <2> QED
    BY Zenon, <2>1, <2>2, <2>3
<1>6. advanceControlGeneration \/ UNCHANGED <<accepting, stop_requested, control_generation>>
  BY Zenon DEF takeReset, takeLoadShedding, takeInvalidation, controlVars
<1>7. /\ control_generation' \in 0 .. MaxGeneration
      /\ accepting' \in BOOLEAN /\ stop_requested' \in BOOLEAN
      /\ accepting' => ~stop_requested'
      /\ control_generation <= control_generation'
  <2>1. CASE advanceControlGeneration
    BY Zenon, <2>1, GenerationAdvances
  <2>2. CASE UNCHANGED <<accepting, stop_requested, control_generation>>
    BY <1>0, <2>2 DEF TypeOK
  <2> QED
    BY Zenon, <1>6, <2>1, <2>2
<1>8. PropagatorOK(propagator')
  <2>1. propagator' \in {propagator, Unanchored, setFailure(propagator)}
    BY Zenon DEF takeReset, takeLoadShedding, takeInvalidation
  <2> QED
    BY Zenon, <1>0, <2>1, UnanchoredOK, FailureOK
<1>9. /\ worker' \in Cycle
      /\ \/ worker'.step \in {"idle", "exited", "take"}
         \/ worker'.step \in {"shed", "invalidate"} /\ worker'.imu = worker.imu
            /\ worker'.batch = worker.batch
         \/ worker'.step = "begin" /\ worker.imu /\ worker'.batch = worker.batch
  <2>1. CASE \E next \in {"idle", "exited"} : worker' = At(next)
    <3>1. PICK next \in {"idle", "exited"} : worker' = At(next)
      BY Zenon, <2>1
    <3>2. At(next) \in Cycle /\ At(next).step = next
      BY Zenon, CyclesBegin DEF Steps
    <3> QED
      BY <3>1, <3>2
  <2>2. CASE \E next \in {"shed", "invalidate", "take", "begin"} :
               worker' = [worker EXCEPT !.step = next] /\ (next = "begin" => worker.imu)
    <3>1. PICK next \in {"shed", "invalidate", "take", "begin"} :
               worker' = [worker EXCEPT !.step = next] /\ (next = "begin" => worker.imu)
      BY Zenon, <2>2
    <3>2. worker' \in Cycle
      BY Zenon, <1>0, <3>1 DEF Cycle, Steps
    <3>3. worker'.step = next /\ worker'.imu = worker.imu /\ worker'.batch = worker.batch
      BY Zenon, <1>0, <3>1 DEF Cycle
    <3> QED
      BY <3>1, <3>2, <3>3
  <2>3. CASE takeReset
    BY Zenon, <2>1, <2>2, <2>3 DEF takeReset
  <2>4. CASE takeLoadShedding
    BY Zenon, <2>1, <2>2, <2>4 DEF takeLoadShedding
  <2>5. CASE takeInvalidation
    BY Zenon, <2>2, <2>5 DEF takeInvalidation
  <2> QED
    BY Zenon, <2>3, <2>4, <2>5
<1>10. TypeOK'
  <2>1. /\ {accepting', stop_requested', load_shed_requested', reset_requested',
            invalidation_requested', correction_requested', suspended', main_valid'}
             \subseteq BOOLEAN
    BY Zenon, <1>0, <1>2, <1>5, <1>7 DEF TypeOK, producerVars
  <2>2. /\ {pending_correction', last_applied'} \subseteq Correction \cup {None}
        /\ correction_sequence' \in 0 .. MaxSequence /\ next_publish_deadline' \in Nat
        /\ published' \in Estimate \cup {None}
    BY Zenon, <1>0, <1>2, <1>4 DEF TypeOK, producerVars
  <2>3. propagator' \in Propagators(Correction)
    BY Zenon, <1>8 DEF PropagatorOK
  <2> QED
    BY Zenon, <1>3, <1>7, <1>9, <2>1, <2>2, <2>3 DEF TypeOK
<1> QED
  BY <1>1, <1>7, <1>8, <1>9, <1>10 DEF Kinds

\* One round of the loop over the batch.
LEMMA RecordingKeepsKinds ==
    ASSUME Kinds, beginBatch \/ recordSample
    PROVE  Kinds' /\ control_generation <= control_generation'
<1>0. /\ TypeOK /\ PropagatorOK(propagator) /\ (accepting => ~stop_requested)
      /\ worker \in Cycle /\ control_generation \in 0 .. MaxGeneration
      /\ control_generation <= control_generation
  BY WorkerAssumption DEF Kinds, TypeOK
<1>1. worker.batch \in Seq(Time) /\ worker.batch # <<>>
  BY Zenon, <1>0 DEF Kinds, beginBatch, recordSample, Cycle
<1>2. CASE beginBatch
  <2> DEFINE w == [worker EXCEPT !.step = "record", !.suspended = suspended,
                                 !.generation = control_generation]
  <2>1. worker' = w
    BY Zenon, <1>2 DEF beginBatch
  <2>2. w \in Cycle
    BY Zenon, <1>0 DEF Cycle, Steps, TypeOK
  <2>3. w.step = "record" /\ w.batch = worker.batch
    BY Zenon, <1>0 DEF Cycle
  <2> HIDE DEF w
  <2>4. UNCHANGED <<controlVars, requestVars, correctionVars, imu_ingress, producerVars,
                    last_applied, propagator, next_publish_deadline, published>>
    BY Zenon, <1>2 DEF beginBatch
  <2>5. TypeOK'
    BY Zenon, <1>0, <2>1, <2>2, <2>4 DEF TypeOK, controlVars, requestVars, correctionVars,
                                         producerVars
  <2> QED
    BY <1>0, <1>1, <2>1, <2>2, <2>3, <2>4, <2>5 DEF Kinds, controlVars
<1>3. CASE recordSample
  <2> DEFINE t == Head(worker.batch)
             d == Disposition(propagator, t)
             last == d = "rejected" \/ Len(worker.batch) = 1
             next == IF last THEN "take" ELSE "record"
             rest == IF last THEN <<>> ELSE Tail(worker.batch)
             held == ~last /\ (worker.suspended \/ d = "restarted")
             latest == IF d = "rejected" THEN worker.latest ELSE t
             ok == d # "rejected"
             w == [worker EXCEPT !.step = next, !.batch = rest, !.suspended = held,
                                 !.latest = latest, !.ok = ok]
  <2>1. /\ worker' = w /\ propagator' = validateAndRecordImu(propagator, t, ~worker.suspended)
        /\ handleContinuityReset \/ UNCHANGED <<controlVars, pending_correction>>
        /\ UNCHANGED <<requestVars, correction_requested, imu_ingress, producerVars,
                       last_applied, next_publish_deadline, published>>
    BY Zenon, <1>3 DEF recordSample
  <2>2. t \in Time /\ rest \in Seq(Time) /\ (next = "record" => rest # <<>>)
    <3>1. t \in Time /\ Tail(worker.batch) \in Seq(Time) /\ Len(worker.batch) \in Nat
      BY <1>1
    <3>2. Len(worker.batch) # 1 => Tail(worker.batch) # <<>>
      <4>1. Len(Tail(worker.batch)) = Len(worker.batch) - 1
        BY <1>1
      <4>2. Len(<<>>) = 0
        OBVIOUS
      <4>3. Tail(worker.batch) = <<>> => Len(worker.batch) - 1 = 0
        BY Zenon, <4>1, <4>2
      <4>4. Len(worker.batch) - 1 = 0 => Len(worker.batch) = 1
        BY <3>1
      <4> QED
        BY Zenon, <4>3, <4>4
    <3>3. <<>> \in Seq(Time)
      OBVIOUS
    <3> HIDE DEF t, d
    <3> QED
      BY Zenon, <3>1, <3>2, <3>3
  <2>3. /\ next \in {"take", "record"} /\ next \in Steps /\ held \in BOOLEAN /\ ok \in BOOLEAN
        /\ latest \in Time \cup {0}
    <3>1. next \in {"take", "record"} /\ next \in Steps
      BY Zenon DEF Steps
    <3>2. held \in BOOLEAN /\ ok \in BOOLEAN
      BY Zenon
    <3>3. worker.latest \in Time \cup {0}
      BY Zenon, <1>0 DEF Cycle
    <3>4. latest \in Time \cup {0}
      BY Zenon, <2>2, <3>3
    <3> QED
      BY Zenon, <3>1, <3>2, <3>4
  <2> HIDE DEF t, d, last, next, rest, held, latest, ok
  <2>4. w \in Cycle
    BY Zenon, <1>0, <2>2, <2>3 DEF Cycle
  <2>5. w.step = next /\ w.batch = rest
    BY Zenon, <1>0 DEF Cycle
  <2> HIDE DEF w
  <2>6. PropagatorOK(propagator')
    BY Zenon, <1>0, <2>1, <2>2, RecordedOK DEF Cycle
  <2>7. CASE handleContinuityReset
    <3>1. /\ control_generation' \in 0 .. MaxGeneration
          /\ {accepting', stop_requested'} \subseteq BOOLEAN
          /\ accepting' => ~stop_requested'
          /\ control_generation <= control_generation'
      BY Zenon, <2>7, GenerationAdvances DEF handleContinuityReset
    <3>2. suspended' \in BOOLEAN /\ pending_correction' \in Correction \cup {None}
      BY Zenon, <1>0, <2>7 DEF handleContinuityReset, TypeOK
    <3>3. TypeOK'
      BY Zenon, <1>0, <2>1, <2>4, <2>6, <3>1, <3>2 DEF TypeOK, requestVars, producerVars,
                                                       PropagatorOK
    <3> QED
      BY <2>1, <2>2, <2>3, <2>5, <2>6, <3>1, <3>3 DEF Kinds
  <2>8. CASE UNCHANGED <<controlVars, pending_correction>>
    <3>1. TypeOK'
      BY Zenon, <1>0, <2>1, <2>4, <2>6, <2>8 DEF TypeOK, controlVars, requestVars, producerVars,
                                                 PropagatorOK
    <3> QED
      BY <1>0, <2>1, <2>2, <2>3, <2>5, <2>6, <2>8, <3>1 DEF Kinds, controlVars
  <2> QED
    BY Zenon, <2>1, <2>7, <2>8
<1> QED
  BY Zenon, <1>2, <1>3

\* Where processPendingCorrection leads.
LEMMA CycleGoesOn ==
    ASSUME Kinds, NEW applied \in Time \cup {0}
    PROVE  /\ AfterCorrection(applied) \in Cycle
           /\ AfterCorrection(applied).step \in {"idle", "flush"}
<1>1. worker \in Cycle
  BY Zenon DEF Kinds, TypeOK
<1>2. CASE worker.imu
  <2> DEFINE w == [worker EXCEPT !.step = "flush", !.correction = None, !.applied = applied]
  <2>1. w \in Cycle /\ w.step = "flush"
    BY Zenon, <1>1 DEF Cycle, Steps
  <2>2. AfterCorrection(applied) = w
    BY Zenon, <1>2 DEF AfterCorrection
  <2> HIDE DEF w
  <2> QED
    BY <2>1, <2>2
<1>3. CASE ~worker.imu
  <2>1. AfterCorrection(applied) = At("idle")
    BY Zenon, <1>3 DEF AfterCorrection
  <2>2. At("idle") \in Cycle /\ At("idle").step = "idle"
    BY Zenon, CyclesBegin DEF Steps
  <2> QED
    BY <2>1, <2>2
<1> QED
  BY Zenon, <1>2, <1>3

\* processPendingCorrection: a correction to replay is one that was waiting.
LEMMA CorrectionKeepsKinds ==
    ASSUME Kinds, takePendingCorrection \/ finishReplay
    PROVE  Kinds' /\ worker'.step \in {"replay", "idle", "flush"}
<1>0. /\ TypeOK /\ PropagatorOK(propagator) /\ (accepting => ~stop_requested)
      /\ worker \in Cycle
  BY Zenon DEF Kinds, TypeOK
<1>1. CASE takePendingCorrection
  <2> DEFINE c == pending_correction
             w == [worker EXCEPT !.step = "replay", !.correction = c]
  <2>3. /\ worker' \in Cycle
        /\ \/ worker'.step = "replay" /\ worker'.correction # None
           \/ worker'.step \in {"idle", "flush"}
    <3>1. worker' = AfterCorrection(0) \/ (worker' = w /\ c # None)
      BY Zenon, <1>1 DEF takePendingCorrection
    <3>2. CASE worker' = AfterCorrection(0)
      BY <3>2, CycleGoesOn
    <3>3. CASE worker' = w /\ c # None
      <4>1. c \in Correction
        BY Zenon, <1>0, <3>3 DEF TypeOK
      <4>2. w \in Cycle /\ w.step = "replay" /\ w.correction = c
        BY Zenon, <1>0, <4>1 DEF Cycle, Steps
      <4> HIDE DEF w
      <4> QED
        BY <3>3, <4>2
    <3> QED
      BY Zenon, <3>1, <3>2, <3>3
  <2>4. /\ pending_correction' = None
        /\ UNCHANGED <<controlVars, requestVars, correction_requested, imu_ingress, producerVars,
                       last_applied, propagator, next_publish_deadline, published>>
    BY Zenon, <1>1 DEF takePendingCorrection
  <2>5. TypeOK'
    BY Zenon, <1>0, <2>3, <2>4 DEF TypeOK, controlVars, requestVars, producerVars
  <2> QED
    BY <1>0, <2>3, <2>4, <2>5 DEF Kinds, controlVars
<1>2. CASE finishReplay
  <2> DEFINE c == worker.correction
  <2>1. c \in Correction /\ c.time \in Time
    <3>1. c \in Correction
      BY Zenon, <1>0, <1>2 DEF Kinds, Cycle, finishReplay
    <3> QED
      BY Zenon, <3>1 DEF Correction
  <2>2. PICK replay \in reanchorAndReplay(propagator, c) :
           propagator' \in {replay.p, setFailure(replay.p)}
    BY Zenon, <1>2 DEF finishReplay
  <2>3. PropagatorOK(propagator')
    BY Zenon, <1>0, <2>1, <2>2, ReplayedOK, FailureOK
  <2>4. /\ worker' \in {AfterCorrection(c.time), AfterCorrection(0)}
        /\ pending_correction' \in {None, c, pending_correction}
        /\ last_applied' \in {c, last_applied}
        /\ suspended' \in {TRUE, FALSE, suspended}
    BY Zenon, <1>2 DEF finishReplay
  <2>5. worker' \in Cycle /\ worker'.step \in {"idle", "flush"}
    BY Zenon, <2>1, <2>4, CycleGoesOn
  <2>6. UNCHANGED <<accepting, stop_requested, control_generation, requestVars,
                    correction_requested, imu_ingress, producerVars,
                    next_publish_deadline, published>>
    BY Zenon, <1>2 DEF finishReplay
  <2> HIDE DEF c
  <2>7. TypeOK'
    BY Zenon, <1>0, <2>1, <2>3, <2>4, <2>5, <2>6 DEF TypeOK, requestVars, producerVars, PropagatorOK
  <2> QED
    BY <1>0, <2>3, <2>5, <2>6, <2>7 DEF Kinds
<1> QED
  BY Zenon, <1>1, <1>2

\* The rest of processImuBatch, up to the last look at the control channel.
LEMMA BatchEndKeepsKinds ==
    ASSUME Kinds, flushAndAge \/ recheckControl
    PROVE  Kinds' /\ worker'.step \in {"recheck", "publish", "idle"}
<1>0. /\ TypeOK /\ PropagatorOK(propagator) /\ (accepting => ~stop_requested)
      /\ worker \in Cycle
  BY Zenon DEF Kinds, TypeOK
<1>1. /\ PropagatorOK(propagator') /\ worker' \in Cycle
      /\ worker'.step \in {"recheck", "publish", "idle"}
  <2>1. CASE flushAndAge
    <3>1. PICK flush \in flushPendingPrediction(propagator)
                           \cup {[ok |-> worker.ok, p |-> propagator]} :
             /\ propagator' \in {flush.p, setFailure(flush.p)}
             /\ \E ok \in BOOLEAN : worker' = [worker EXCEPT !.step = "recheck", !.ok = ok]
      BY Zenon, <2>1 DEF flushAndAge
    <3>2. PropagatorOK(flush.p)
      <4>1. CASE flush \in flushPendingPrediction(propagator)
        BY Zenon, <1>0, <4>1, FlushedOK
      <4>2. CASE flush = [ok |-> worker.ok, p |-> propagator]
        BY <1>0, <4>2
      <4> QED
        BY Zenon, <3>1, <4>1, <4>2
    <3>3. worker' \in Cycle /\ worker'.step = "recheck"
      BY Zenon, <1>0, <3>1 DEF Cycle, Steps
    <3> QED
      BY Zenon, <3>1, <3>2, <3>3, FailureOK
  <2>2. CASE recheckControl
    <3> DEFINE w == [worker EXCEPT !.step = "publish"]
    <3>1. w \in Cycle /\ w.step = "publish"
      BY Zenon, <1>0 DEF Cycle, Steps
    <3>2. (worker' = w \/ worker' = At("idle")) /\ UNCHANGED propagator
      BY Zenon, <2>2 DEF recheckControl
    <3>3. At("idle") \in Cycle /\ At("idle").step = "idle"
      BY Zenon, CyclesBegin DEF Steps
    <3> HIDE DEF w
    <3> QED
      BY <1>0, <3>1, <3>2, <3>3
  <2> QED
    BY Zenon, <2>1, <2>2
<1>2. UNCHANGED <<controlVars, requestVars, correctionVars, imu_ingress, producerVars,
                  last_applied, next_publish_deadline, published>>
  BY Zenon DEF flushAndAge, recheckControl
<1>3. TypeOK'
  BY Zenon, <1>0, <1>1, <1>2 DEF TypeOK, controlVars, requestVars, correctionVars, producerVars,
                                 PropagatorOK
<1> QED
  BY <1>0, <1>1, <1>2, <1>3 DEF Kinds, controlVars

\* An estimate is of the newest sample.
LEMMA EstimateOK ==
    ASSUME NEW p, PropagatorOK(p), kinematicEstimate(p) # None
    PROVE  LET e == kinematicEstimate(p)
           IN  /\ p.valid /\ e.anchor = p.anchor /\ e.anchor \in Correction
               /\ e.time = latest_imu_time(p) /\ e.time \in Time
<1>1. /\ p.valid /\ p.anchor # None /\ p.time = latest_imu_time(p)
      /\ kinematicEstimate(p) = [time |-> p.time, anchor |-> p.anchor]
  BY Zenon DEF kinematicEstimate
<1>2. p.history # {} /\ p.anchor \in Correction
  BY Zenon, <1>1 DEF PropagatorOK, Propagators
<1>3. p.history \in SUBSET Time /\ HasGreatest(p.history)
  BY Zenon DEF PropagatorOK, Propagators
<1>4. latest_imu_time(p) \in Time
  BY Zenon, <1>2, <1>3, MaxOfHistory DEF latest_imu_time
<1> QED
  BY <1>1, <1>2, <1>4

\* The next deadline is a stamp again.
LEMMA DeadlineOK ==
    ASSUME Kinds
    PROVE  /\ Deadline \in Nat
           /\ worker.latest >= Deadline => NextDeadline(worker.latest) \in Nat
<1>1. worker.latest \in Time \cup {0} /\ next_publish_deadline \in Nat
  BY Zenon DEF Kinds, TypeOK, Cycle
<1>2. worker.latest \in Nat
  <2>1. 0 \in Nat
    OBVIOUS
  <2> QED
    BY Zenon, <1>1, <2>1, TimeAssumption
<1>3. Deadline \in Nat
  BY Zenon, <1>1, <1>2 DEF Deadline
<1>4. ASSUME worker.latest >= Deadline PROVE NextDeadline(worker.latest) \in Nat
  <2> DEFINE n == (worker.latest - Deadline) \div publish_period
  <2>1. worker.latest - Deadline \in Nat /\ publish_period \in Nat \ {0}
    BY <1>2, <1>3, <1>4, WorkerAssumption
  <2>2. n \in Nat
    BY <2>1
  <2> HIDE DEF n
  <2>3. publish_period * (n + 1) \in Nat
    BY <2>1, <2>2
  <2>4. Deadline + publish_period * (n + 1) \in Nat
    BY <1>3, <2>3
  <2> QED
    BY Zenon, <2>4 DEF NextDeadline, n
<1> QED
  BY Zenon, <1>3, <1>4

LEMMA PublishingKeepsKinds ==
    ASSUME Kinds, maybePublishOnImu \/ runThrows
    PROVE  Kinds' /\ worker'.step \in {"idle", "exited"}
<1>0. /\ TypeOK /\ PropagatorOK(propagator) /\ (accepting => ~stop_requested)
      /\ worker \in Cycle
  BY Zenon DEF Kinds, TypeOK
<1>1. worker' \in Cycle /\ worker'.step \in {"idle", "exited"}
  <2>1. \E next \in {"idle", "exited"} : worker' = At(next)
    BY Zenon DEF maybePublishOnImu, runThrows
  <2> QED
    BY Zenon, <2>1, CyclesBegin DEF Steps
<1>2. CASE runThrows
  <2>1. imu_ingress' \in Seq(Time) /\ Len(imu_ingress') <= imu_ingress_capacity
    BY <1>2, WorkerAssumption DEF runThrows
  <2>2. /\ accepting' = FALSE /\ stop_requested' = TRUE /\ suspended' = TRUE
        /\ UNCHANGED <<control_generation, requestVars, correctionVars, producerVars,
                       last_applied, propagator, next_publish_deadline, published>>
    BY Zenon, <1>2 DEF runThrows
  <2>3. TypeOK'
    BY Zenon, <1>0, <1>1, <2>1, <2>2 DEF TypeOK, requestVars, correctionVars, producerVars
  <2> QED
    BY <1>0, <1>1, <2>2, <2>3 DEF Kinds
<1>3. CASE maybePublishOnImu
  <2> DEFINE e == kinematicEstimate(propagator)
             p == [time |-> e.time, anchor |-> e.anchor, generation |-> control_generation]
  <2>1. /\ published' = published \/ (published' = p /\ e # None)
        /\ suspended' = suspended \/ suspended' = TRUE
        /\ \/ next_publish_deadline' \in {Deadline, next_publish_deadline}
           \/ /\ worker.latest >= Deadline
              /\ next_publish_deadline' = NextDeadline(worker.latest)
    BY Zenon, <1>3 DEF maybePublishOnImu
  <2>2. next_publish_deadline' \in Nat
    BY Zenon, <1>0, <2>1, DeadlineOK DEF TypeOK
  <2>3. e # None => p \in Estimate
    BY Zenon, <1>0, EstimateOK DEF TypeOK, Estimate
  <2>4. UNCHANGED <<accepting, stop_requested, control_generation, requestVars, correctionVars,
                    imu_ingress, producerVars, last_applied, propagator>>
    BY Zenon, <1>3 DEF maybePublishOnImu
  <2> HIDE DEF e, p
  <2>5. TypeOK'
    BY Zenon, <1>0, <1>1, <2>1, <2>2, <2>3, <2>4 DEF TypeOK, requestVars, correctionVars,
                                                     producerVars
  <2> QED
    BY <1>0, <1>1, <2>4, <2>5 DEF Kinds
<1> QED
  BY Zenon, <1>2, <1>3

\* Only the wait leads to sleep, and it looked at every request with mutex_ held.
LEMMA WorkerSleepsOnNothing ==
    ASSUME Kinds, SleepInv, WorkerStep \/ runThrows
    PROVE  SleepInv'
<1>1. CASE waitDecides
  BY Zenon, <1>1 DEF SleepInv, waitDecides, WakeUp, correctionVars, requestVars
<1>2. CASE waitBlocks
  BY Zenon, <1>2 DEF SleepInv, waitBlocks, correctionVars, requestVars
<1>3. ASSUME worker'.step \notin {"deciding", "blocked"} PROVE SleepInv'
  BY Zenon, <1>3 DEF SleepInv
<1>4. CASE runExits \/ drainIngress
  <2>1. /\ At("exited").step = "exited"
        /\ At("reset") \in Cycle /\ At("reset").step = "reset"
    BY Zenon, CyclesBegin DEF Steps
  <2>2. CASE runExits
    BY Zenon, <1>3, <2>1, <2>2 DEF runExits
  <2>3. CASE drainIngress
    <3>1. worker'.step = "reset"
      BY Zenon, <2>1, <2>3 DEF drainIngress, Cycle
    <3> QED
      BY Zenon, <1>3, <3>1
  <2> QED
    BY Zenon, <1>4, <2>2, <2>3
<1>5. CASE takeReset \/ takeLoadShedding \/ takeInvalidation
  BY Zenon, <1>3, <1>5, RequestsKeepKinds
<1>6. CASE beginBatch \/ recordSample
  <2>1. worker'.step \in {"record", "take"}
    <3>1. worker \in Cycle
      BY Zenon DEF Kinds, TypeOK
    <3> QED
      BY Zenon, <1>6, <3>1 DEF beginBatch, recordSample, Cycle
  <2> QED
    BY Zenon, <1>3, <2>1
<1>7. CASE takePendingCorrection \/ finishReplay
  BY Zenon, <1>3, <1>7, CorrectionKeepsKinds
<1>8. CASE flushAndAge \/ recheckControl
  BY Zenon, <1>3, <1>8, BatchEndKeepsKinds
<1>9. CASE maybePublishOnImu \/ runThrows
  BY Zenon, <1>3, <1>9, PublishingKeepsKinds
<1> QED
  BY Zenon, <1>1, <1>2, <1>4, <1>5, <1>6, <1>7, <1>8, <1>9 DEF WorkerStep

\* Outside the three steps that rely on what an earlier one saw, the output depends
\* only on the anchor.
LEMMA AnchorSuffices ==
    ASSUME TypeOK, TypeOK', PublishedInv, AnchorInv', UNCHANGED published,
           control_generation <= control_generation',
           worker'.step \notin {"replay", "recheck", "publish"}
    PROVE  OutputInv'
<1>1. PublishedInv'
  BY Zenon, PublicationStands
<1> QED
  BY Zenon, <1>1 DEF OutputInv, ReplayInv, AgeInv, PublishInv

\* Samples and failures never make a state valid, nor move its anchor.
LEMMA AnchorKept ==
    ASSUME AnchorInv,
           propagator'.valid => propagator.valid /\ propagator'.anchor = propagator.anchor,
           UNCHANGED <<suspended, invalidation_requested, load_shed_requested,
                       control_generation, last_applied>>
    PROVE  AnchorInv'
BY Zenon DEF AnchorInv

\* Every request that is taken leaves the state invalid or the output suspended.
LEMMA RequestsKeepOutput ==
    ASSUME Kinds, OutputInv, takeReset \/ takeLoadShedding \/ takeInvalidation
    PROVE  OutputInv'
<1>0. /\ TypeOK /\ TypeOK' /\ PublishedInv /\ AnchorInv /\ control_generation <= control_generation'
      /\ worker'.step \notin {"replay", "recheck", "publish"} /\ PropagatorOK(propagator)
  BY Zenon, RequestsKeepKinds DEF Kinds, OutputInv
<1>1. ~setFailure(propagator).valid
  BY Zenon, <1>0, FailureOK
<1>2. ~Unanchored.valid
  BY Zenon DEF Unanchored
<1>3. \/ ~propagator'.valid \/ suspended'
      \/ UNCHANGED <<propagator, suspended, invalidation_requested, load_shed_requested,
                     control_generation, last_applied>>
  <2>1. CASE takeReset
    BY Zenon, <1>2, <2>1 DEF takeReset, controlVars, requestVars
  <2>2. CASE takeLoadShedding
    <3>1. CASE load_shed_requested
      BY Zenon, <1>1, <2>2, <3>1 DEF takeLoadShedding, controlVars
    <3>2. CASE ~load_shed_requested
      <4>1. load_shed_requested = FALSE
        BY Zenon, <1>0, <3>2 DEF TypeOK
      <4> QED
        BY Zenon, <2>2, <4>1 DEF takeLoadShedding, controlVars
    <3> QED
      BY Zenon, <3>1, <3>2
  <2>3. CASE takeInvalidation
    <3>1. CASE invalidation_requested
      BY Zenon, <2>3, <3>1 DEF takeInvalidation
    <3>2. CASE ~invalidation_requested
      <4>1. invalidation_requested = FALSE /\ suspended \in BOOLEAN
        BY Zenon, <1>0, <3>2 DEF TypeOK
      <4>2. suspended' = suspended
        BY Zenon, <2>3, <4>1 DEF takeInvalidation
      <4> QED
        BY Zenon, <2>3, <4>1, <4>2 DEF takeInvalidation
    <3> QED
      BY Zenon, <3>1, <3>2
  <2> QED
    BY Zenon, <2>1, <2>2, <2>3
<1>4. AnchorInv'
  BY Zenon, <1>0, <1>3 DEF AnchorInv
<1>5. UNCHANGED published
  BY Zenon DEF takeReset, takeLoadShedding, takeInvalidation
<1> QED
  BY Zenon, <1>0, <1>4, <1>5, AnchorSuffices

\* A restart of continuity invalidates the state it advances the generation past.
LEMMA RecordingKeepsOutput ==
    ASSUME Kinds, OutputInv, beginBatch \/ recordSample
    PROVE  OutputInv'
<1>0. /\ TypeOK /\ TypeOK' /\ PublishedInv /\ AnchorInv /\ control_generation <= control_generation'
      /\ worker \in Cycle /\ PropagatorOK(propagator)
  BY Zenon, RecordingKeepsKinds DEF Kinds, OutputInv, TypeOK
<1>1. worker'.step \in {"record", "take"} /\ UNCHANGED published
  BY Zenon, <1>0 DEF beginBatch, recordSample, Cycle
<1>2. CASE beginBatch
  <2>1. AnchorInv'
    BY Zenon, <1>0, <1>2, AnchorKept DEF beginBatch, controlVars, requestVars
  <2> QED
    BY Zenon, <1>0, <1>1, <2>1, AnchorSuffices
<1>3. CASE recordSample
  <2> DEFINE t == Head(worker.batch)
  <2>1. t \in Time
    <3>1. worker.batch \in Seq(Time) /\ worker.batch # <<>>
      BY Zenon, <1>0, <1>3 DEF Kinds, recordSample, Cycle
    <3> QED
      BY <3>1
  <2>2. /\ propagator'.valid => propagator.valid /\ propagator'.anchor = propagator.anchor
        /\ propagator'.valid => Disposition(propagator, t) = "recorded"
    <3>1. /\ propagator' = validateAndRecordImu(propagator, t, ~worker.suspended)
          /\ (~worker.suspended) \in BOOLEAN
      BY Zenon, <1>3 DEF recordSample
    <3> QED
      BY Zenon, <1>0, <2>1, <3>1, RecordedOK
  <2>3. Disposition(propagator, t) = "recorded" => UNCHANGED controlVars
    BY Zenon, <1>3 DEF recordSample
  <2>4. UNCHANGED <<requestVars, last_applied>>
    BY Zenon, <1>3 DEF recordSample
  <2>5. AnchorInv'
    BY Zenon, <1>0, <2>2, <2>3, <2>4 DEF AnchorInv, controlVars, requestVars
  <2> QED
    BY Zenon, <1>0, <1>1, <2>5, AnchorSuffices
<1> QED
  BY Zenon, <1>2, <1>3

LEMMA WaitingKeepsOutput ==
    ASSUME Kinds, OutputInv, waitDecides \/ waitBlocks \/ runExits \/ drainIngress
    PROVE  OutputInv'
<1>0. /\ TypeOK /\ TypeOK' /\ PublishedInv /\ AnchorInv
      /\ control_generation <= control_generation
  BY WaitingKeepsKinds, WorkerAssumption DEF Kinds, OutputInv, TypeOK
<1>1. UNCHANGED <<controlVars, requestVars, last_applied, propagator, published>>
  BY Zenon DEF waitDecides, waitBlocks, runExits, drainIngress
<1>2. AnchorInv'
  BY Zenon, <1>0, <1>1, AnchorKept DEF controlVars, requestVars
<1>3. worker'.step \in {"deciding", "blocked", "exited", "reset"}
  <2>1. At("reset") \in Cycle
    BY Zenon, CyclesBegin DEF Steps
  <2>2. \A next \in {"deciding", "blocked", "exited", "reset"} : At(next).step = next
    BY Zenon, CyclesBegin DEF Steps
  <2>3. drainIngress => worker'.step = At("reset").step
    BY Zenon, <2>1 DEF drainIngress, Cycle
  <2> QED
    BY Zenon, <2>2, <2>3 DEF waitDecides, waitBlocks, runExits
<1>4. control_generation <= control_generation'
  BY Zenon, <1>0, <1>1 DEF controlVars
<1> QED
  BY Zenon, <1>0, <1>1, <1>2, <1>3, <1>4, AnchorSuffices

\* What a replay starts from was checked with mutex_ held.
LEMMA TakingKeepsOutput ==
    ASSUME Kinds, OutputInv, takePendingCorrection
    PROVE  OutputInv'
<1>0. /\ TypeOK /\ TypeOK' /\ PublishedInv /\ AnchorInv /\ worker \in Cycle
      /\ control_generation <= control_generation
  BY CorrectionKeepsKinds, WorkerAssumption DEF Kinds, OutputInv, TypeOK
<1>1. UNCHANGED <<controlVars, requestVars, producerVars, last_applied, propagator, published>>
  BY Zenon DEF takePendingCorrection
<1>2. AnchorInv'
  BY Zenon, <1>0, <1>1, AnchorKept DEF controlVars, requestVars
<1>3. PublishedInv'
  BY Zenon, <1>0, <1>1, PublicationStands DEF controlVars
<1>4. worker'.step \in {"replay", "idle", "flush"}
  BY Zenon, CorrectionKeepsKinds
<1>5. ReplayInv'
  <2> DEFINE w == [worker EXCEPT !.step = "replay", !.correction = pending_correction]
  <2>1. CASE worker' = AfterCorrection(0)
    <3>1. worker'.step # "replay"
      BY <2>1, CycleGoesOn
    <3> QED
      BY Zenon, <3>1 DEF ReplayInv
  <2>2. CASE worker' = w /\ pending_correction.generation = control_generation /\ main_valid
    <3>1. w.correction = pending_correction
      BY Zenon, <1>0 DEF Cycle
    <3> HIDE DEF w
    <3>2. worker'.correction = pending_correction
      BY Zenon, <2>2, <3>1
    <3> QED
      BY Zenon, <1>1, <2>2, <3>2 DEF ReplayInv, controlVars, producerVars
  <2> QED
    BY Zenon, <2>1, <2>2 DEF takePendingCorrection
<1> QED
  BY Zenon, <1>2, <1>3, <1>4, <1>5 DEF OutputInv, AgeInv, PublishInv

\* A replay succeeds only undisturbed; one that was disturbed leaves a valid state
\* behind only under a request that keeps it from being published.
LEMMA ReplayKeepsOutput ==
    ASSUME Kinds, OutputInv, finishReplay
    PROVE  OutputInv'
<1> DEFINE c == worker.correction
           undisturbed == /\ control_generation = c.generation /\ main_valid
                          /\ ~load_shed_requested /\ ~invalidation_requested
<1>0. /\ TypeOK /\ TypeOK' /\ PublishedInv /\ ReplayInv /\ worker \in Cycle
      /\ PropagatorOK(propagator) /\ control_generation <= control_generation
      /\ worker.step = "replay"
  <2>1. TypeOK /\ TypeOK' /\ PropagatorOK(propagator)
    BY Zenon, CorrectionKeepsKinds DEF Kinds
  <2>2. control_generation \in 0 .. MaxGeneration /\ worker \in Cycle
    BY Zenon, <2>1 DEF TypeOK
  <2>3. control_generation <= control_generation
    BY <2>2, WorkerAssumption
  <2> QED
    BY Zenon, <2>1, <2>2, <2>3 DEF OutputInv, finishReplay
<1>1. c \in Correction
  BY Zenon, <1>0 DEF Kinds, Cycle
<1>2. PICK replay \in reanchorAndReplay(propagator, c) :
         \/ /\ undisturbed /\ propagator' = replay.p /\ last_applied' = c
         \/ propagator' = setFailure(replay.p)
         \/ /\ ~(undisturbed /\ replay.status = "ok") /\ propagator' = replay.p
            /\ UNCHANGED <<last_applied, suspended>>
  BY Zenon DEF finishReplay
<1>3. UNCHANGED <<control_generation, requestVars, published>>
  BY Zenon DEF finishReplay
<1>4. PropagatorOK(replay.p) /\ (replay.p.valid => replay.status = "ok" /\ replay.p.anchor = c)
  BY Zenon, <1>0, <1>1, ReplayedOK
<1>5. ~setFailure(replay.p).valid
  BY Zenon, <1>4, FailureOK
<1>6. ReplayInv => \/ invalidation_requested \/ suspended
                   \/ c.generation = control_generation /\ main_valid
  BY Zenon, <1>0 DEF ReplayInv
<1> HIDE DEF c
<1>7. AnchorInv'
  <2>1. CASE undisturbed /\ propagator' = replay.p /\ last_applied' = c
    <3>1. propagator'.valid => propagator'.anchor = c
      BY Zenon, <1>4, <2>1
    <3>2. c.generation = control_generation'
      BY Zenon, <1>3, <2>1
    <3> QED
      BY Zenon, <2>1, <3>1, <3>2 DEF AnchorInv
  <2>2. CASE propagator' = setFailure(replay.p)
    BY Zenon, <1>5, <2>2 DEF AnchorInv
  <2>3. CASE /\ ~(undisturbed /\ replay.status = "ok") /\ propagator' = replay.p
             /\ UNCHANGED <<last_applied, suspended>>
    <3>1. propagator'.valid => replay.status = "ok" /\ propagator'.anchor = c
      BY Zenon, <1>4, <2>3
    <3>2. invalidation_requested \/ suspended
            \/ (c.generation = control_generation /\ main_valid)
      BY Zenon, <1>0, <1>6
    <3>3. propagator'.valid => \/ invalidation_requested \/ suspended
                               \/ c.generation = control_generation /\ load_shed_requested
      BY Zenon, <2>3, <3>1, <3>2
    <3> QED
      BY Zenon, <1>3, <2>3, <3>1, <3>3 DEF AnchorInv, requestVars
  <2> QED
    BY Zenon, <1>2, <2>1, <2>2, <2>3
<1>8. worker'.step \in {"idle", "flush"}
  <2>1. c.time \in Time
    BY Zenon, <1>1 DEF Correction
  <2>2. worker' \in {AfterCorrection(c.time), AfterCorrection(0)}
    BY Zenon DEF finishReplay, c
  <2> QED
    BY Zenon, <2>1, <2>2, CycleGoesOn
<1>9. control_generation <= control_generation'
  BY Zenon, <1>0, <1>3
<1> QED
  BY Zenon, <1>0, <1>3, <1>7, <1>8, <1>9, AnchorSuffices

\* The age of the correction is looked at after the state was carried forward, and of
\* the newest sample.
LEMMA AgingKeepsOutput ==
    ASSUME Kinds, OutputInv, flushAndAge
    PROVE  OutputInv'
<1>0. /\ TypeOK /\ TypeOK' /\ PublishedInv /\ AnchorInv
      /\ PropagatorOK(propagator) /\ worker \in Cycle
  BY Zenon, BatchEndKeepsKinds DEF Kinds, OutputInv, TypeOK
<1>1. UNCHANGED <<controlVars, requestVars, last_applied, published>>
  BY Zenon DEF flushAndAge
<1>2. PICK flush \in flushPendingPrediction(propagator)
                       \cup {[ok |-> worker.ok, p |-> propagator]} :
        LET stale == /\ ~TransitionPending /\ flush.ok
                     /\ propagator.history # {} /\ last_applied # None
                     /\ latest_imu_time(flush.p) - last_applied.time > maximum_correction_age
        IN  /\ propagator' = IF stale THEN setFailure(flush.p) ELSE flush.p
            /\ worker' = [worker EXCEPT !.step = "recheck", !.ok = flush.ok /\ ~stale]
  BY Zenon DEF flushAndAge
<1> DEFINE old == latest_imu_time(flush.p) - last_applied.time > maximum_correction_age
           stale == /\ ~TransitionPending /\ flush.ok
                    /\ propagator.history # {} /\ last_applied # None /\ old
<1>3. /\ PropagatorOK(flush.p) /\ flush.p.history = propagator.history
      /\ flush.p.valid => propagator.valid /\ flush.p.anchor = propagator.anchor
  <2>1. CASE flush \in flushPendingPrediction(propagator)
    BY Zenon, <1>0, <2>1, FlushedOK
  <2>2. CASE flush = [ok |-> worker.ok, p |-> propagator]
    BY <1>0, <2>2
  <2> QED
    BY Zenon, <2>1, <2>2
<1>4. propagator' = flush.p \/ (propagator' = setFailure(flush.p) /\ stale)
  BY Zenon, <1>2
<1>5. ~setFailure(flush.p).valid
  BY Zenon, <1>3, FailureOK
<1>6. AnchorInv'
  <2>1. propagator'.valid => propagator.valid /\ propagator'.anchor = propagator.anchor
    BY Zenon, <1>3, <1>4, <1>5
  <2> QED
    BY Zenon, <1>0, <1>1, <2>1, AnchorKept DEF controlVars, requestVars
<1>7. /\ worker'.step = "recheck" /\ worker'.generation = worker.generation
      /\ worker'.ok = (flush.ok /\ ~stale)
  BY Zenon, <1>0, <1>2 DEF Cycle
<1> HIDE DEF stale
<1>8. TransitionPending' = TransitionPending
  BY Zenon, <1>1, <1>7 DEF TransitionPending, controlVars, requestVars
<1>9. AgeInv'
  <2>1. SUFFICES ASSUME ~TransitionPending, flush.ok, ~stale,
                        last_applied # None, propagator'.history # {}
                 PROVE  Fresh'
    BY Zenon, <1>1, <1>7, <1>8 DEF AgeInv
  <2>2. propagator' = flush.p
    BY Zenon, <1>4, <2>1
  <2>3. ~old
    BY Zenon, <1>3, <2>1, <2>2 DEF stale
  <2>4. Fresh' = ~old
    BY Zenon, <1>1, <2>2 DEF Fresh
  <2> QED
    BY Zenon, <2>3, <2>4
<1>10. PublishedInv'
  <2>1. control_generation <= control_generation'
    BY <1>0, <1>1, WorkerAssumption DEF TypeOK, controlVars
  <2> QED
    BY Zenon, <1>0, <1>1, <2>1, PublicationStands
<1> QED
  BY Zenon, <1>6, <1>7, <1>9, <1>10 DEF OutputInv, ReplayInv, PublishInv

\* The recheck sees no request and no suspension, so the state it lets through is
\* anchored at the correction applied last, in this generation.
LEMMA RecheckKeepsOutput ==
    ASSUME Kinds, OutputInv, recheckControl
    PROVE  OutputInv'
<1>0. /\ TypeOK /\ TypeOK' /\ PublishedInv /\ AnchorInv /\ AgeInv
      /\ PropagatorOK(propagator) /\ worker.step = "recheck"
  BY Zenon, BatchEndKeepsKinds DEF Kinds, OutputInv, recheckControl
<1>1. UNCHANGED <<controlVars, requestVars, last_applied, propagator, published>>
  BY Zenon DEF recheckControl
<1>2. AnchorInv'
  BY Zenon, <1>0, <1>1, AnchorKept DEF controlVars, requestVars
<1>3. control_generation <= control_generation'
  BY <1>0, <1>1, WorkerAssumption DEF TypeOK, controlVars
<1>4. CASE worker' = At("idle")
  <2>1. worker'.step = "idle"
    BY Zenon, <1>4, CyclesBegin DEF Steps
  <2> QED
    BY Zenon, <1>0, <1>1, <1>2, <1>3, <2>1, AnchorSuffices
<1>5. CASE worker' # At("idle")
  <2>1. ~TransitionPending /\ ~suspended /\ worker.ok /\ propagator.valid
    BY Zenon, <1>5 DEF recheckControl
  <2>2. /\ propagator.anchor = last_applied
        /\ propagator.anchor.generation = control_generation
    BY Zenon, <1>0, <2>1 DEF AnchorInv, TransitionPending
  <2>3. propagator.anchor # None /\ propagator.history # {}
    BY Zenon, <1>0, <2>1 DEF PropagatorOK
  <2>4. Fresh
    BY Zenon, <1>0, <2>1, <2>2, <2>3 DEF AgeInv
  <2>5. Fresh'
    BY Zenon, <1>1, <2>4 DEF Fresh
  <2>6. PublishInv'
    BY Zenon, <1>0, <1>1, <2>2, <2>5 DEF PublishInv, PublishedInv
  <2>7. worker'.step = "publish"
    <3>1. worker \in Cycle
      BY Zenon, <1>0 DEF TypeOK
    <3> QED
      BY Zenon, <1>5, <3>1 DEF recheckControl, Cycle
  <2>8. PublishedInv'
    BY Zenon, <1>0, <1>1, <1>3, PublicationStands
  <2> QED
    BY Zenon, <1>2, <2>6, <2>7, <2>8 DEF OutputInv, ReplayInv, AgeInv
<1> QED
  BY Zenon, <1>4, <1>5

\* What the callback is given.
LEMMA WhatIsPublished ==
    ASSUME Kinds, OutputInv, maybePublishOnImu, published' # published
    PROVE  /\ published' \in Estimate
           /\ published'.anchor = last_applied /\ published'.generation = control_generation
           /\ published'.time - published'.anchor.time <= maximum_correction_age
           /\ published # None => published.generation <= published'.anchor.generation
<1> DEFINE e == kinematicEstimate(propagator)
<1>0. /\ PropagatorOK(propagator) /\ PublishInv /\ TypeOK /\ worker.step = "publish"
  BY Zenon DEF Kinds, OutputInv, maybePublishOnImu
<1>1. /\ e # None
      /\ published' = [time |-> e.time, anchor |-> e.anchor, generation |-> control_generation]
  BY Zenon DEF maybePublishOnImu
<1>2. /\ propagator.valid /\ e.anchor = propagator.anchor /\ e.anchor \in Correction
      /\ e.time = latest_imu_time(propagator) /\ e.time \in Time
  BY Zenon, <1>0, <1>1, EstimateOK
<1>3. /\ propagator.anchor = last_applied /\ Fresh
      /\ published # None => published.generation <= propagator.anchor.generation
  BY Zenon, <1>0, <1>2 DEF PublishInv
<1> HIDE DEF e
<1>4. /\ published'.time = e.time /\ published'.anchor = e.anchor
      /\ published'.generation = control_generation
  BY <1>1
<1>5. published' \in Estimate
  BY Zenon, <1>0, <1>1, <1>2 DEF TypeOK, Estimate
<1>6. e.time - e.anchor.time <= maximum_correction_age
  <2>1. e.time \in Nat /\ e.anchor.time \in Nat /\ maximum_correction_age \in Nat
    BY Zenon, <1>2, TimeAssumption, WorkerAssumption DEF Correction
  <2>2. ~(e.time - e.anchor.time > maximum_correction_age)
    BY Zenon, <1>2, <1>3 DEF Fresh
  <2> QED
    BY <2>1, <2>2
<1> QED
  BY Zenon, <1>2, <1>3, <1>4, <1>5, <1>6

LEMMA PublishingKeepsOutput ==
    ASSUME Kinds, OutputInv, maybePublishOnImu \/ runThrows
    PROVE  OutputInv'
<1>0. /\ TypeOK /\ TypeOK' /\ PublishedInv /\ AnchorInv
      /\ worker'.step \in {"idle", "exited"}
  BY Zenon, PublishingKeepsKinds DEF Kinds, OutputInv
<1>1. /\ UNCHANGED <<control_generation, requestVars, last_applied, propagator>>
      /\ suspended' = suspended \/ suspended' = TRUE
  BY Zenon DEF maybePublishOnImu, runThrows
<1>2. AnchorInv'
  BY Zenon, <1>0, <1>1 DEF AnchorInv, requestVars
<1>3. control_generation <= control_generation' /\ control_generation' = control_generation
  BY <1>0, <1>1, WorkerAssumption DEF TypeOK
<1>4. CASE published' = published
  BY Zenon, <1>0, <1>2, <1>3, <1>4, AnchorSuffices
<1>5. CASE published' # published
  <2>1. maybePublishOnImu
    BY Zenon, <1>5 DEF runThrows
  <2>2. PublishedInv'
    BY Zenon, <1>3, <1>5, <2>1, WhatIsPublished DEF PublishedInv
  <2> QED
    BY Zenon, <1>0, <1>2, <2>2 DEF OutputInv, ReplayInv, AgeInv, PublishInv
<1> QED
  BY Zenon, <1>4, <1>5

----------------------------------------------------------------------------
(* The results                                                             *)

LEMMA OdometryInvInit ==
    ASSUME OdometryInit
    PROVE  OdometryInv
<1>1. At("idle") \in Cycle /\ At("idle").step = "idle"
  BY Zenon, CyclesBegin DEF Steps
<1>2. PropagatorOK(Unanchored) /\ ~Unanchored.valid
  BY Zenon, UnanchoredOK DEF Unanchored
<1>3. /\ 0 \in 0 .. MaxGeneration /\ 0 \in 0 .. MaxSequence /\ 0 \in Nat
      /\ <<>> \in Seq(Time) /\ Len(<<>>) <= imu_ingress_capacity
  BY WorkerAssumption
<1>4. TypeOK
  BY Zenon, <1>1, <1>2, <1>3 DEF OdometryInit, TypeOK, PropagatorOK
<1>5. Kinds
  BY <1>1, <1>2, <1>4 DEF OdometryInit, Kinds
<1>6. SleepInv
  BY <1>1 DEF OdometryInit, SleepInv
<1>7. OutputInv
  BY <1>1, <1>2 DEF OdometryInit, OutputInv, ReplayInv, AnchorInv, AgeInv, PublishInv, PublishedInv
<1> QED
  BY Zenon, <1>5, <1>6, <1>7 DEF OdometryInv

LEMMA OdometryInvStep ==
    ASSUME OdometryInv, [OdometryNext]_odometryVars
    PROVE  OdometryInv'
<1>0. Kinds /\ SleepInv /\ OutputInv
  BY Zenon DEF OdometryInv
<1>1. CASE ProducerStep
  BY Zenon, <1>1, ProducersKeepInv
<1>2. CASE WorkerStep \/ runThrows
  <2>1. SleepInv'
    BY Zenon, <1>0, <1>2, WorkerSleepsOnNothing
  <2>2. Kinds'
    BY Zenon, <1>0, <1>2, WaitingKeepsKinds, RequestsKeepKinds, RecordingKeepsKinds,
       CorrectionKeepsKinds, BatchEndKeepsKinds, PublishingKeepsKinds DEF WorkerStep
  <2>3. OutputInv'
    BY Zenon, <1>0, <1>2, WaitingKeepsOutput, RequestsKeepOutput, RecordingKeepsOutput,
       TakingKeepsOutput, ReplayKeepsOutput, AgingKeepsOutput, RecheckKeepsOutput,
       PublishingKeepsOutput DEF WorkerStep
  <2> QED
    BY Zenon, <2>1, <2>2, <2>3 DEF OdometryInv
<1>3. CASE UNCHANGED odometryVars
  <2>0. /\ UNCHANGED <<accepting, stop_requested, suspended, control_generation>>
        /\ UNCHANGED <<load_shed_requested, reset_requested, invalidation_requested>>
        /\ UNCHANGED <<correction_requested, pending_correction, imu_ingress, main_valid,
                       last_applied, correction_sequence, worker, propagator,
                       next_publish_deadline, published>>
    BY <1>3 DEF odometryVars, controlVars, requestVars, correctionVars, workerVars
  <2>1. Kinds'
    <3>1. TypeOK'
      BY Zenon, <1>0, <2>0 DEF Kinds, TypeOK
    <3> QED
      BY <1>0, <2>0, <3>1 DEF Kinds
  <2>2. SleepInv' /\ OutputInv'
    <3>1. Fresh' = Fresh /\ TransitionPending' = TransitionPending
      BY Zenon, <2>0 DEF Fresh, TransitionPending
    <3> QED
      BY <1>0, <2>0, <3>1 DEF SleepInv, OutputInv, ReplayInv, AnchorInv, AgeInv, PublishInv,
                              PublishedInv
  <2> QED
    BY Zenon, <2>1, <2>2 DEF OdometryInv
<1> QED
  BY Zenon, <1>1, <1>2, <1>3 DEF OdometryNext, ProducerStep

\* The inductive invariant of the odometry worker, its producers and its control channel.
THEOREM OdometryInvHolds == OdometrySpec => []OdometryInv
BY PTL, OdometryInvInit, OdometryInvStep DEF OdometrySpec

\* The worker's variables keep their types: the ingress stays within its capacity, and
\* the generation within what its counter can hold.
THEOREM TypeCorrect == OdometrySpec => []TypeOK
<1>1. OdometryInv => TypeOK
  BY Zenon DEF OdometryInv, Kinds
<1> QED
  BY PTL, <1>1, OdometryInvHolds

\* No estimate that maybePublishOnImu published is further from the correction it was
\* propagated from than maximum_correction_age.
THEOREM PublishedIsFreshHolds == OdometrySpec => []PublishedIsFresh
<1>1. OdometryInv => PublishedIsFresh
  BY Zenon DEF OdometryInv, OutputInv, PublishedInv, PublishedIsFresh
<1> QED
  BY PTL, <1>1, OdometryInvHolds

\* The worker never sleeps on a sample, a reset, an invalidation or a correction: no
\* notification is lost between the wait's predicate and the sleep.
THEOREM SleepsOnlyWhenIdleHolds == OdometrySpec => []SleepsOnlyWhenIdle
<1>1. OdometryInv => SleepsOnlyWhenIdle
  BY Zenon DEF OdometryInv, SleepInv, SleepsOnlyWhenIdle
<1> QED
  BY PTL, <1>1, OdometryInvHolds

\* Only maybePublishOnImu publishes.
LEMMA OnePublisher ==
    ASSUME OdometryInv, OdometryNext, published' # published
    PROVE  maybePublishOnImu
<1>1. ~ProducerStep
  BY Zenon, ProducersRequest DEF OdometryInv
<1> QED
  BY Zenon, <1>1 DEF OdometryNext, ProducerStep, WorkerStep, runThrows, waitDecides, waitBlocks,
     runExits, drainIngress, takeReset, takeLoadShedding, takeInvalidation, beginBatch,
     recordSample, takePendingCorrection, finishReplay, flushAndAge, recheckControl

\* Whatever is published was propagated from the correction recorded as the last one
\* applied, whatever the producers do while a correction is replayed without mutex_.
THEOREM PublishesAppliedCorrectionHolds == OdometrySpec => PublishesAppliedCorrection
<1>1. ASSUME OdometryInv, [OdometryNext]_odometryVars
      PROVE  [published' # published => published'.anchor = last_applied]_odometryVars
  BY Zenon, <1>1, OnePublisher, WhatIsPublished DEF OdometryInv
<1> QED
  BY PTL, <1>1, OdometryInvHolds DEF OdometrySpec, PublishesAppliedCorrection

\* Of the corrections made before a generation ended, at most the publication in flight
\* still comes out: the next one is from a correction at least as new as the generation
\* the last one was published in.
THEOREM SupersededNotRepeatedHolds == OdometrySpec => SupersededNotRepeated
<1>1. ASSUME OdometryInv, [OdometryNext]_odometryVars
      PROVE  [(published' # published /\ published # None)
                => published'.anchor.generation >= published.generation]_odometryVars
  <2>1. SUFFICES ASSUME OdometryNext, published' # published, published # None
                 PROVE  published'.anchor.generation >= published.generation
    BY Zenon, <1>1
  <2>2. Kinds /\ OutputInv /\ maybePublishOnImu
    BY Zenon, <1>1, <2>1, OnePublisher DEF OdometryInv
  <2>3. published' \in Estimate /\ published.generation <= published'.anchor.generation
    BY Zenon, <2>1, <2>2, WhatIsPublished
  <2>4. published \in Estimate
    BY Zenon, <2>1, <2>2 DEF Kinds, TypeOK
  <2>5. published'.anchor.generation \in Nat /\ published.generation \in Nat
    BY <2>3, <2>4, WorkerAssumption DEF Estimate, Correction
  <2> QED
    BY <2>3, <2>5
<1> QED
  BY PTL, <1>1, OdometryInvHolds DEF OdometrySpec, SupersededNotRepeated

=============================================================================
