------------------------ MODULE FastLioPipelineProofs ------------------------
(***************************************************************************)
(* The estimator for every set of stamps and every limit: what the         *)
(* synchroniser keeps, the filter's time against the synchroniser's epoch, *)
(* the map's size guard and the confirmation of a recovery.                *)
(***************************************************************************)
EXTENDS FastLioPipeline, WellFoundedInduction, TLAPS

----------------------------------------------------------------------------
(* Least and greatest stamps                                               *)

LEMMA MinIsLeast ==
    ASSUME NEW T \in SUBSET Nat, T # {}
    PROVE  Min(T) \in T /\ \A y \in T : Min(T) <= y
<1> DEFINE R == {p \in Nat \X Nat : p[1] < p[2]}
<1>1. IsWellFoundedOn(R, Nat)
  BY Zenon, NatLessThanWellFounded DEF OpToRel
<1> HIDE DEF R
<1>2. PICK x \in T : \A y \in T : ~(<<y, x>> \in R)
  BY Zenon, <1>1, WFMin
<1>3. \A y \in Nat : y < x => <<y, x>> \in R
  BY Zenon DEF R
<1>4. ASSUME NEW y \in T PROVE x <= y
  <2>1. x \in Nat /\ y \in Nat
    BY Zenon
  <2>2. ~(y < x)
    BY <1>2, <1>3, <2>1, Zenon
  <2> QED
    BY <2>1, <2>2
<1> QED
  BY Zenon, <1>4 DEF Min

LEMMA MaxIsGreatest ==
    ASSUME NEW T \in SUBSET Nat, T # {}, NEW bound \in Nat, \A y \in T : y <= bound
    PROVE  Max(T) \in T /\ \A y \in T : y <= Max(T)
<1> DEFINE Above == {n \in Nat : \A y \in T : y <= n}
<1>1. Above \in SUBSET Nat /\ Above # {}
  BY Zenon
<1> DEFINE m == Min(Above)
<1>2. m \in Above /\ \A n \in Above : m <= n
  BY Zenon, <1>1, MinIsLeast
<1> HIDE DEF m
<1>3. m \in T
  <2> SUFFICES ASSUME m \notin T PROVE FALSE
    BY Zenon
  <2>1. m \in Nat /\ \A y \in T : y < m
    BY <1>2
  <2>2. PICK z \in T : z \in Nat /\ z < m
    BY Zenon, <2>1
  <2>3. m - 1 \in Nat /\ \A y \in T : y <= m - 1
    BY <2>1, <2>2
  <2> QED
    BY <1>2, <2>1, <2>3
<1> QED
  BY Zenon, <1>2, <1>3 DEF Max

----------------------------------------------------------------------------
(* What synchronizeNext returns                                            *)

\* What the synchroniser's steps need to know of the buffers.
Buffers ==
    /\ imu_samples \subseteq Time
    /\ lidar_scans \in Seq(Scan)
    /\ last_synchronized_end_time \in Time \cup {0}

\* The scan follows the synchronised time and the samples reach over it.
Spannable(scan) ==
    /\ ~Overlapping(scan) /\ ~StartUnbracketed(scan)
    /\ AtOrAfter(scan.end) # {}

LEMMA Outcomes ==
    \/ Synchronization = Outcome("waiting")
    \/ Synchronization = Outcome("rejected") /\ lidar_scans # <<>>
    \/ /\ Synchronization.kind = "discontinuity" /\ lidar_scans # <<>>
       /\ Spannable(Head(lidar_scans))
       /\ LongestGap(Spanned(Head(lidar_scans))) > maximum_imu_gap
       /\ Synchronization.gap = LongestGap(Spanned(Head(lidar_scans)))
       /\ Synchronization.resume = GapEnd(Spanned(Head(lidar_scans)))
    \/ /\ Synchronization.kind = "group" /\ lidar_scans # <<>>
       /\ Spannable(Head(lidar_scans))
       /\ Synchronization.start = PropagationStart(Head(lidar_scans))
<1> DEFINE scan == Head(lidar_scans)
<1>1. CASE lidar_scans = <<>> \/ imu_samples = {}
  BY Zenon, <1>1 DEF Synchronization
<1>2. CASE ~(lidar_scans = <<>> \/ imu_samples = {})
  <2>1. CASE Overlapping(scan) \/ StartUnbracketed(scan)
    BY Zenon, <1>2, <2>1 DEF Synchronization
  <2>2. CASE ~(Overlapping(scan) \/ StartUnbracketed(scan)) /\ AtOrAfter(scan.end) = {}
    BY Zenon, <1>2, <2>2 DEF Synchronization
  <2>3. CASE Spannable(scan) /\ LongestGap(Spanned(scan)) > maximum_imu_gap
    <3>1. Synchronization = [Outcome("discontinuity") EXCEPT !.gap = LongestGap(Spanned(scan)),
                                                            !.resume = GapEnd(Spanned(scan))]
      BY Zenon, <1>2, <2>3 DEF Synchronization, Spannable
    <3>2. /\ Synchronization.kind = "discontinuity"
          /\ Synchronization.gap = LongestGap(Spanned(scan))
          /\ Synchronization.resume = GapEnd(Spanned(scan))
      BY Zenon, <3>1 DEF Outcome
    <3> QED
      BY Zenon, <1>2, <2>3, <3>2
  <2>4. CASE Spannable(scan) /\ ~(LongestGap(Spanned(scan)) > maximum_imu_gap)
    <3>1. Synchronization = [Outcome("group") EXCEPT !.start = PropagationStart(scan)]
      BY Zenon, <1>2, <2>4 DEF Synchronization, Spannable
    <3>2. Synchronization.kind = "group" /\ Synchronization.start = PropagationStart(scan)
      BY Zenon, <3>1 DEF Outcome
    <3> QED
      BY Zenon, <1>2, <2>4, <3>2
  <2> QED
    BY Zenon, <1>2, <2>1, <2>2, <2>3, <2>4 DEF Spannable
<1> QED
  BY Zenon, <1>1, <1>2

\* The stamps of a scan at the head that the samples reach over.
LEMMA SpannableStamps ==
    ASSUME Buffers, lidar_scans # <<>>, NEW scan, scan = Head(lidar_scans), Spannable(scan)
    PROVE  /\ scan \in Scan /\ scan.start \in Nat \ {0} /\ scan.end \in Time /\ scan.end \in Nat \ {0}
           /\ scan.start <= scan.end
           /\ last_synchronized_end_time <= scan.start
           /\ PropagationStart(scan) \in Nat \ {0}
           /\ last_synchronized_end_time <= PropagationStart(scan)
           /\ PropagationStart(scan) <= scan.start
           /\ imu_samples \in SUBSET Nat
           /\ \E r \in imu_samples : r <= scan.start
           /\ AtOrBefore(PropagationStart(scan)) # {}
<1>1. scan \in Scan
  BY DEF Buffers
<1>2. /\ scan.start \in Nat \ {0} /\ scan.end \in Time /\ scan.end \in Nat \ {0}
      /\ scan.start <= scan.end
  BY Zenon, <1>1, SynchronizationAssumption DEF Scan
<1>3. last_synchronized_end_time \in Nat /\ imu_samples \in SUBSET Nat
  BY SynchronizationAssumption DEF Buffers
<1>4. last_synchronized_end_time <= scan.start
  BY <1>2, <1>3 DEF Spannable, Overlapping
<1>5. /\ PropagationStart(scan) \in Nat \ {0} /\ last_synchronized_end_time <= PropagationStart(scan)
      /\ PropagationStart(scan) <= scan.start
  BY <1>2, <1>3, <1>4 DEF PropagationStart
<1>6. (\E r \in imu_samples : r <= scan.start) /\ AtOrBefore(PropagationStart(scan)) # {}
  BY Zenon DEF Spannable, StartUnbracketed, AtOrBefore
<1> QED
  BY Zenon, <1>1, <1>2, <1>3, <1>4, <1>5, <1>6

\* The sample that ends a gap is later than the start of the propagation, because the
\* samples spanned begin with the last one at or before it.
LEMMA ResumeIsLater ==
    ASSUME Buffers, lidar_scans # <<>>, NEW scan, scan = Head(lidar_scans), Spannable(scan),
           LongestGap(Spanned(scan)) > maximum_imu_gap
    PROVE  /\ GapEnd(Spanned(scan)) \in imu_samples
           /\ PropagationStart(scan) < GapEnd(Spanned(scan))
<1> DEFINE start == PropagationStart(scan)
           first == Max(AtOrBefore(start))
           last == Min(AtOrAfter(scan.end))
           spanned == Spanned(scan)
<1>1. /\ start \in Nat /\ imu_samples \in SUBSET Nat /\ AtOrBefore(start) # {}
      /\ start <= scan.end /\ scan.end \in Nat
  BY SpannableStamps
<1> HIDE DEF start
<1>2. first \in AtOrBefore(start) /\ \A s \in AtOrBefore(start) : s <= first
  BY Zenon, <1>1, MaxIsGreatest DEF AtOrBefore
<1>3. last \in AtOrAfter(scan.end)
  BY Zenon, <1>1, MinIsLeast DEF Spannable, AtOrAfter
<1>4. spanned = {s \in imu_samples : s >= first /\ s <= last}
  BY Zenon DEF Spanned, start
<1> HIDE DEF first, last, spanned
<1>5. /\ first \in imu_samples /\ first \in Nat /\ first <= start
      /\ last \in imu_samples /\ last \in Nat /\ first <= last
  <2>1. first \in imu_samples /\ first <= start /\ last \in imu_samples /\ scan.end <= last
    BY Zenon, <1>2, <1>3 DEF AtOrBefore, AtOrAfter
  <2>2. first \in Nat /\ last \in Nat
    BY Zenon, <1>1, <2>1
  <2> QED
    BY <1>1, <2>1, <2>2
<1>6. spanned \in SUBSET Nat /\ first \in spanned /\ \A s \in spanned : first <= s
  <2>1. spanned \in SUBSET Nat
    BY Zenon, <1>1, <1>4
  <2>2. first \in spanned
    BY <1>4, <1>5
  <2>3. ASSUME NEW s \in spanned PROVE first <= s
    BY Zenon, <1>4, <1>5, <2>1
  <2> QED
    BY Zenon, <2>1, <2>2, <2>3
<1>7. Min(spanned) = first
  <2>1. Min(spanned) \in spanned /\ \A y \in spanned : Min(spanned) <= y
    BY Zenon, <1>6, MinIsLeast
  <2>2. Min(spanned) \in Nat /\ first <= Min(spanned) /\ Min(spanned) <= first
    BY Zenon, <1>6, <2>1
  <2> QED
    BY <1>5, <2>2
<1>8. ASSUME NEW t \in spanned \ {first}
      PROVE  /\ t \in Nat /\ t \in imu_samples /\ start < t
             /\ t - Previous(spanned, t) \in Nat /\ t - Previous(spanned, t) <= last
  <2>1. t \in Nat /\ t \in imu_samples /\ first < t /\ t <= last
    BY <1>1, <1>4, <1>5, <1>6
  <2>2. start < t
    BY <1>1, <1>2, <2>1 DEF AtOrBefore
  <2> DEFINE before == {s \in spanned : s < t}
  <2>3. before \in SUBSET Nat /\ first \in before /\ \A y \in before : y <= t
    <3>1. before \in SUBSET Nat
      BY Zenon, <1>6
    <3>2. first \in before
      BY Zenon, <1>6, <2>1
    <3>3. ASSUME NEW y \in before PROVE y <= t
      BY <2>1, <3>1
    <3> QED
      BY Zenon, <3>1, <3>2, <3>3
  <2>4. Max(before) \in before
    BY Zenon, <2>1, <2>3, MaxIsGreatest
  <2>5. Previous(spanned, t) \in Nat /\ Previous(spanned, t) < t
    BY Zenon, <2>3, <2>4 DEF Previous
  <2> QED
    BY <1>5, <2>1, <2>2, <2>5
<1>9. LongestGap(spanned) \in Gaps(spanned)
  <2>1. Gaps(spanned) \cup {0} \in SUBSET Nat /\ \A g \in Gaps(spanned) \cup {0} : g <= last
    BY <1>5, <1>7, <1>8 DEF Gaps
  <2>2. LongestGap(spanned) \in Gaps(spanned) \cup {0}
    BY Zenon, <1>5, <2>1, MaxIsGreatest DEF LongestGap
  <2>3. LongestGap(spanned) > maximum_imu_gap /\ maximum_imu_gap \in Nat
    BY Zenon, SynchronizationAssumption DEF spanned
  <2> QED
    BY <2>2, <2>3
<1> DEFINE ending == {t \in spanned \ {first} : t - Previous(spanned, t) = LongestGap(spanned)}
<1>10. ending # {} /\ ending \in SUBSET Nat
  BY Zenon, <1>7, <1>8, <1>9 DEF Gaps
<1>11. GapEnd(spanned) = Min(ending)
  BY Zenon, <1>7 DEF GapEnd
<1>12. Min(ending) \in ending
  BY Zenon, <1>10, MinIsLeast
<1> QED
  BY Zenon, <1>8, <1>11, <1>12 DEF spanned, start

\* What a group leaves in the buffer still reaches back to the scan's end.
LEMMA RetainedReachesBack ==
    ASSUME Buffers, lidar_scans # <<>>, NEW scan, scan = Head(lidar_scans), Spannable(scan)
    PROVE  \E t \in Retained(scan) : t <= scan.end
<1> DEFINE after == Min(AtOrAfter(scan.end))
           before == {r \in imu_samples : r < after} \cup {0}
<1>1. /\ imu_samples \in SUBSET Nat /\ scan.start \in Nat /\ scan.end \in Nat
      /\ scan.start <= scan.end
  BY Zenon, SpannableStamps
<1>2. PICK r \in imu_samples : r <= scan.start
  BY Zenon, SpannableStamps
<1>3. after \in AtOrAfter(scan.end) /\ \A y \in AtOrAfter(scan.end) : after <= y
  BY Zenon, <1>1, MinIsLeast DEF Spannable, AtOrAfter
<1>4. after \in Nat /\ after \in imu_samples /\ scan.end <= after
  BY Zenon, <1>1, <1>3 DEF AtOrAfter
<1>5. Retained(scan) = {s \in imu_samples : s >= after \/ s = Max(before)}
  BY Zenon DEF Retained
<1>6. CASE after = scan.end
  BY Zenon, <1>1, <1>4, <1>5, <1>6
<1>7. CASE after # scan.end
  <2>1. r \in before /\ r \in Nat /\ r # 0
    BY <1>1, <1>2, <1>4, <1>7, SynchronizationAssumption DEF Buffers
  <2> HIDE DEF after
  <2>2. before \in SUBSET Nat /\ \A y \in before : y <= after
    <3>1. before \in SUBSET Nat
      <4>1. ASSUME NEW y \in before PROVE y \in Nat
        <5>1. y \in imu_samples \/ y = 0
          BY Zenon
        <5> QED
          BY <1>1, <5>1
      <4> QED
        BY <4>1, Zenon
    <3>2. ASSUME NEW y \in before PROVE y <= after
      <4>1. y \in Nat /\ (y = 0 \/ y < after)
        BY Zenon, <3>1
      <4> QED
        BY <1>4, <4>1
    <3> QED
      BY Zenon, <3>1, <3>2
  <2>3. Max(before) \in before /\ r <= Max(before)
    BY Zenon, <1>4, <2>1, <2>2, MaxIsGreatest
  <2> DEFINE m == Max(before)
  <2>4. m \in imu_samples /\ m \in Nat /\ m < after
    BY <1>4, <2>1, <2>2, <2>3
  <2>5. m \in Retained(scan)
    BY Zenon, <1>5, <2>4
  <2> HIDE DEF m
  <2>6. m <= scan.end
    BY <1>1, <1>3, <2>4 DEF AtOrAfter
  <2> QED
    BY Zenon, <2>5, <2>6
<1> QED
  BY Zenon, <1>6, <1>7

----------------------------------------------------------------------------
(* The buffers                                                             *)

BufferInv == Buffers /\ BracketRetained

\* The three ways synchronizeNext ends with a scan, and how far its epoch moves.
LEMMA SynchronizedMoves ==
    ASSUME BufferInv, Synchronization.kind # "waiting", Synchronized(Synchronization)
    PROVE  /\ BufferInv'
           /\ \/ /\ Synchronization.kind = "rejected"
                 /\ UNCHANGED last_synchronized_end_time
              \/ /\ Synchronization.kind = "discontinuity"
                 /\ last_synchronized_end_time' = Synchronization.resume
                 /\ Synchronization.resume \in Time
                 /\ last_synchronized_end_time < Synchronization.resume
              \/ /\ Synchronization.kind = "group"
                 /\ last_synchronized_end_time' = Head(lidar_scans).end
                 /\ lidar_scans # <<>> /\ Spannable(Head(lidar_scans))
                 /\ Synchronization.start = PropagationStart(Head(lidar_scans))
<1> DEFINE outcome == Synchronization
           scan == Head(lidar_scans)
<1>0. lidar_scans # <<>>
  BY Outcomes DEF Outcome
<1>1. lidar_scans' \in Seq(Scan)
  BY <1>0 DEF Synchronized, BufferInv, Buffers
<1>2. CASE outcome = Outcome("rejected")
  <2>1. outcome.kind = "rejected"
    BY Zenon, <1>2 DEF Outcome
  <2>2. UNCHANGED <<imu_samples, last_synchronized_end_time>>
    BY Zenon, <2>1 DEF Synchronized
  <2> QED
    BY Zenon, <1>1, <2>1, <2>2 DEF BufferInv, Buffers, BracketRetained
<1>3. CASE /\ outcome.kind = "discontinuity" /\ Spannable(scan)
           /\ LongestGap(Spanned(scan)) > maximum_imu_gap
           /\ outcome.resume = GapEnd(Spanned(scan))
  <2>1. /\ imu_samples' = AtOrAfter(outcome.resume)
        /\ last_synchronized_end_time' = outcome.resume
    BY Zenon, <1>3 DEF Synchronized
  <2>2. outcome.resume \in imu_samples /\ PropagationStart(scan) < outcome.resume
    BY Zenon, <1>0, <1>3, ResumeIsLater DEF BufferInv
  <2>3. outcome.resume \in Time /\ outcome.resume \in Nat
    BY Zenon, <2>2, SynchronizationAssumption DEF BufferInv, Buffers
  <2>4. /\ PropagationStart(scan) \in Nat /\ last_synchronized_end_time \in Nat
        /\ last_synchronized_end_time <= PropagationStart(scan)
    BY <1>0, <1>3, SpannableStamps, SynchronizationAssumption DEF BufferInv, Buffers
  <2>5. outcome.resume \in imu_samples' /\ imu_samples' \subseteq imu_samples
    BY <2>1, <2>2, <2>3 DEF AtOrAfter
  <2>6. Buffers' /\ BracketRetained'
    BY <1>1, <2>1, <2>3, <2>5 DEF BufferInv, Buffers, BracketRetained
  <2>7. last_synchronized_end_time < outcome.resume
    BY <2>2, <2>3, <2>4
  <2> QED
    BY Zenon, <1>3, <2>1, <2>3, <2>6, <2>7 DEF BufferInv
<1>4. CASE /\ outcome.kind = "group" /\ Spannable(scan)
           /\ outcome.start = PropagationStart(scan)
  <2>1. /\ imu_samples' = Retained(scan)
        /\ last_synchronized_end_time' = scan.end
    BY Zenon, <1>4 DEF Synchronized
  <2>2. imu_samples' \subseteq imu_samples
    BY Zenon, <2>1 DEF Retained
  <2>3. scan.end \in Time
    BY Zenon, <1>0, <1>4, SpannableStamps DEF BufferInv
  <2>4. \E t \in imu_samples' : t <= scan.end
    BY Zenon, <1>0, <1>4, <2>1, RetainedReachesBack DEF BufferInv
  <2>5. Buffers' /\ BracketRetained'
    BY Zenon, <1>1, <2>1, <2>2, <2>3, <2>4 DEF BufferInv, Buffers, BracketRetained
  <2> QED
    BY Zenon, <1>0, <1>4, <2>1, <2>5 DEF BufferInv
<1> QED
  BY <1>2, <1>3, <1>4, Outcomes DEF Outcome

\* The synchroniser always keeps a sample at or before the end of what it has
\* synchronised.
THEOREM BufferInvHolds == Spec => []BufferInv
<1>1. Init => BufferInv
  BY DEF Init, BufferInit, BufferInv, Buffers, BracketRetained
<1>2. BufferInv /\ [Next]_pipelineVars => BufferInv'
  <2> SUFFICES ASSUME BufferInv, [Next]_pipelineVars PROVE BufferInv'
    BY Zenon
  <2>1. CASE processNext
    BY Zenon, <2>1, SynchronizedMoves DEF processNext, CanProcess
  <2>2. CASE resolveInitialStatePrior \/ applyInitialStatePrior
    BY Zenon, <2>2 DEF resolveInitialStatePrior, applyInitialStatePrior, synchronizationVars,
                bufferVars, BufferInv, Buffers, BracketRetained
  <2>3. ASSUME NEW t \in Time, pushImu(t) PROVE BufferInv'
    <3>1. /\ UNCHANGED <<lidar_scans, last_synchronized_end_time>>
          /\ imu_samples' = imu_samples \/ imu_samples' = imu_samples \cup {t}
      BY Zenon, <2>3 DEF pushImu, BufferImu
    <3> QED
      BY Zenon, <3>1 DEF BufferInv, Buffers, BracketRetained
  <2>4. ASSUME NEW t \in Time, submitInitialStatePrior(t) PROVE BufferInv'
    BY Zenon, <2>4 DEF submitInitialStatePrior, synchronizationVars, bufferVars, BufferInv, Buffers,
                BracketRetained
  <2>5. ASSUME NEW scan \in Scan, pushLidar(scan) PROVE BufferInv'
    <3>1. /\ UNCHANGED <<imu_samples, last_synchronized_end_time>>
          /\ lidar_scans' = lidar_scans \/ lidar_scans' = Append(lidar_scans, scan)
      BY Zenon, <2>5 DEF pushLidar, BufferLidar
    <3> QED
      BY <3>1 DEF BufferInv, Buffers, BracketRetained
  <2>6. CASE \E elapsed \in {"degraded", "lost"} : superviseLidarTimeout(elapsed)
    BY Zenon, <2>6 DEF superviseLidarTimeout, synchronizationVars, bufferVars, BufferInv, Buffers,
                BracketRetained
  <2>7. CASE reset
    BY <2>7 DEF reset, BufferCleared, BufferInv, Buffers, BracketRetained
  <2>8. CASE UNCHANGED pipelineVars
    BY Zenon, <2>8 DEF pipelineVars, synchronizationVars, bufferVars, BufferInv, Buffers,
                BracketRetained
  <2> QED
    BY Zenon, <2>1, <2>2, <2>3, <2>4, <2>5, <2>6, <2>7, <2>8 DEF Next, PipelineStep
<1> QED
  BY <1>1, <1>2, PTL DEF Spec

\* No group, gap or rejected scan throws away the sample the next prediction starts from.
THEOREM BracketRetainedHolds == Spec => []BracketRetained
<1>1. BufferInv => BracketRetained
  BY Zenon DEF BufferInv
<1> QED
  BY <1>1, BufferInvHolds, PTL

----------------------------------------------------------------------------
(* The lifecycle functions                                                 *)

\* Estimators, without the limits of the counters.
EstimatorState ==
    [status : Statuses, state_time : Nat, confirmed : BOOLEAN, uncorrected : Nat,
     successes : Nat, failures : Nat, reference : BOOLEAN, mapped : BOOLEAN,
     map_recovery : BOOLEAN]

\* What the lifecycle guarantees of a state by itself.
Sound(e) ==
    /\ e.status = "Tracking" => e.confirmed /\ e.successes = 0 /\ ~e.map_recovery
    /\ e.confirmed => e.status \in {"Tracking", "Degraded", "Lost"} /\ e.state_time # 0
    /\ e.map_recovery => e.confirmed

LEMMA AtMostBounds ==
    ASSUME NEW n \in Nat, NEW limit \in Nat
    PROVE  AtMost(n, limit) \in Nat /\ AtMost(n, limit) <= n /\ AtMost(n, limit) <= limit
BY DEF AtMost

LEMMA Limits ==
    /\ recovery_confirmation_updates \in Nat \ {0}
    /\ lost_after_registration_failures \in Nat \ {0}
    /\ maximum_initial_map_registration_failures \in Nat \ {0}
BY Zenon, PipelineAssumption

LEMMA UncorrectedUpdate ==
    ASSUME NEW e \in EstimatorState, NEW r, r = recordUncorrectedUpdate(e)
    PROVE  /\ r \in EstimatorState
           /\ r.state_time = e.state_time /\ r.confirmed = e.confirmed
           /\ r.map_recovery = e.map_recovery /\ r.reference = e.reference
           /\ ~e.confirmed => r = e
           /\ e.confirmed => r.successes = 0 /\ r.status \in {"Degraded", "Lost"}
<1>1. CASE ~e.confirmed
  BY Zenon, <1>1 DEF recordUncorrectedUpdate
<1>2. CASE e.confirmed
  <2> DEFINE n == AtMost(e.uncorrected + 1, lost_after_registration_failures)
             status == IF n = lost_after_registration_failures \/ e.status = "Lost"
                       THEN "Lost" ELSE "Degraded"
  <2>0. e.uncorrected + 1 \in Nat
    BY DEF EstimatorState
  <2>1. n \in Nat
    BY Zenon, <2>0, Limits, AtMostBounds
  <2>2. status \in {"Degraded", "Lost"} /\ status \in Statuses
    BY Zenon DEF Statuses
  <2>3. r = [e EXCEPT !.uncorrected = n, !.successes = 0, !.status = status]
    BY Zenon, <1>2 DEF recordUncorrectedUpdate
  <2> HIDE DEF n, status
  <2>4. r \in EstimatorState
    <3>1. ASSUME NEW k \in Nat, NEW new \in Statuses
          PROVE  [e EXCEPT !.uncorrected = n, !.successes = k, !.status = new] \in EstimatorState
      BY Zenon, <2>1 DEF EstimatorState
    <3>2. 0 \in Nat /\ status \in Statuses
      BY Zenon, <2>2
    <3>3. [e EXCEPT !.uncorrected = n, !.successes = 0, !.status = status] \in EstimatorState
      BY <3>1, <3>2, Zenon
    <3> QED
      BY <2>3, <3>3, Zenon
  <2>5. /\ r.state_time = e.state_time /\ r.confirmed = e.confirmed
        /\ r.map_recovery = e.map_recovery /\ r.reference = e.reference
        /\ r.successes = 0 /\ r.status = status
    BY Zenon, <2>3 DEF EstimatorState
  <2> QED
    BY Zenon, <1>2, <2>2, <2>4, <2>5
<1> QED
  BY Zenon, <1>1, <1>2

LEMMA FailedRegistration ==
    ASSUME NEW e \in EstimatorState, Sound(e), NEW r, r = registrationFailed(e)
    PROVE  /\ r \in EstimatorState
           /\ r.state_time = e.state_time /\ r.confirmed = e.confirmed
           /\ r.map_recovery = e.map_recovery
           /\ ~e.confirmed => r.status # "Tracking"
           /\ e.confirmed => r.successes = 0 /\ r.status \in {"Degraded", "Lost"}
<1> DEFINE n == AtMost(e.failures + 1, maximum_initial_map_registration_failures)
           status == IF n = maximum_initial_map_registration_failures THEN "Lost" ELSE e.status
           counted == [e EXCEPT !.failures = n, !.status = status]
<1>1. CASE e.status # "InitializingMap"
  <2>1. r = recordUncorrectedUpdate(e)
    BY Zenon, <1>1 DEF registrationFailed
  <2> QED
    BY Zenon, <2>1, UncorrectedUpdate DEF Sound
<1>2. CASE e.status = "InitializingMap"
  <2>0. e.failures + 1 \in Nat
    BY DEF EstimatorState
  <2>1. n \in Nat
    BY Zenon, <2>0, Limits, AtMostBounds
  <2>2. status \in Statuses /\ status # "Tracking"
    BY Zenon, <1>2 DEF Statuses
  <2>3. r = recordUncorrectedUpdate(counted)
    BY Zenon, <1>2 DEF registrationFailed
  <2> HIDE DEF n, status
  <2>4. counted \in EstimatorState
    BY Zenon, <2>1, <2>2 DEF EstimatorState
  <2>5. /\ counted.state_time = e.state_time /\ counted.confirmed = e.confirmed
        /\ counted.map_recovery = e.map_recovery /\ counted.status = status
    BY Zenon DEF EstimatorState
  <2>6. ~e.confirmed
    BY Zenon, <1>2 DEF Sound
  <2> HIDE DEF counted
  <2> QED
    BY <2>2, <2>3, <2>4, <2>5, <2>6, UncorrectedUpdate
<1> QED
  BY Zenon, <1>1, <1>2

LEMMA AcceptedCorrection ==
    ASSUME NEW e \in EstimatorState, Sound(e), NEW r, r = correctionAccepted(e)
    PROVE  /\ r \in EstimatorState
           /\ r.state_time = e.state_time /\ r.confirmed /\ r.map_recovery = e.map_recovery
           /\ r.status = "Tracking" => /\ r.successes = 0 /\ ~r.map_recovery
                                       /\ \/ ~e.confirmed \/ e.status = "Tracking"
                                          \/ e.successes + 1 >= recovery_confirmation_updates
           /\ r.status # "Tracking" =>
                /\ r.status \in {"Degraded", "Lost"}
                /\ e.confirmed /\ e.status # "Tracking"
                /\ r.successes <= e.successes + 1
                /\ r.successes <= recovery_confirmation_updates
<1> DEFINE n == AtMost(e.successes + 1, recovery_confirmation_updates)
<1>1. e.successes + 1 \in Nat /\ e.successes \in Nat
  BY DEF EstimatorState
<1>2. /\ n \in Nat /\ n <= e.successes + 1 /\ n <= recovery_confirmation_updates
  BY Zenon, <1>1, Limits, AtMostBounds
<1>3. "Tracking" \in Statuses /\ "Degraded" \in Statuses
  BY Zenon DEF Statuses
<1>4. /\ Tracking(e) \in EstimatorState
      /\ Tracking(e).state_time = e.state_time /\ Tracking(e).confirmed
      /\ Tracking(e).map_recovery = e.map_recovery
      /\ Tracking(e).status = "Tracking" /\ Tracking(e).successes = 0
  <2>1. Tracking(e) \in EstimatorState
    BY <1>3, Zenon DEF Tracking, EstimatorState
  <2>2. /\ Tracking(e).state_time = e.state_time /\ Tracking(e).confirmed
        /\ Tracking(e).map_recovery = e.map_recovery
        /\ Tracking(e).status = "Tracking" /\ Tracking(e).successes = 0
    BY Zenon DEF Tracking, EstimatorState
  <2> QED
    BY Zenon, <2>1, <2>2
<1>5. CASE ~e.confirmed
  <2>1. r = Tracking(e)
    BY Zenon, <1>5 DEF correctionAccepted
  <2> QED
    BY Zenon, <1>4, <1>5, <2>1 DEF Sound, EstimatorState
<1>6. CASE e.confirmed /\ e.status = "Tracking"
  <2>1. r = e
    BY Zenon, <1>6 DEF correctionAccepted
  <2> QED
    BY Zenon, <1>6, <2>1 DEF Sound, EstimatorState
<1>7. CASE e.confirmed /\ e.status # "Tracking" /\ e.map_recovery
  <2>1. r = [e EXCEPT !.successes = n]
    BY Zenon, <1>7 DEF correctionAccepted
  <2> HIDE DEF n
  <2>2. r \in EstimatorState
    BY Zenon, <1>2, <2>1 DEF EstimatorState
  <2>3. /\ r.state_time = e.state_time /\ r.confirmed = e.confirmed /\ r.status = e.status
        /\ r.map_recovery = e.map_recovery /\ r.successes = n
    BY Zenon, <2>1 DEF EstimatorState
  <2> QED
    BY Zenon, <1>2, <1>7, <2>2, <2>3 DEF Sound
<1>8. CASE /\ e.confirmed /\ e.status # "Tracking" /\ ~e.map_recovery
           /\ n = recovery_confirmation_updates
  <2>1. r = Tracking(e)
    BY Zenon, <1>8 DEF correctionAccepted
  <2>2. e.successes + 1 >= recovery_confirmation_updates
    BY Zenon, <1>1, <1>2, <1>8, Limits
  <2> QED
    BY Zenon, <1>4, <1>8, <2>1, <2>2 DEF EstimatorState
<1>9. CASE /\ e.confirmed /\ e.status # "Tracking" /\ ~e.map_recovery
           /\ n # recovery_confirmation_updates
  <2>1. r = [e EXCEPT !.successes = n, !.status = "Degraded"]
    BY Zenon, <1>9 DEF correctionAccepted
  <2> HIDE DEF n
  <2>2. r \in EstimatorState
    BY <1>2, <1>3, <2>1, Zenon DEF EstimatorState
  <2>3. /\ r.state_time = e.state_time /\ r.confirmed = e.confirmed /\ r.status = "Degraded"
        /\ r.map_recovery = e.map_recovery /\ r.successes = n
    BY Zenon, <2>1 DEF EstimatorState
  <2> QED
    BY Zenon, <1>2, <1>9, <2>2, <2>3
<1> QED
  BY Zenon, <1>5, <1>6, <1>7, <1>8, <1>9

LEMMA UpdatedMap ==
    ASSUME NEW e \in EstimatorState, NEW failed \in BOOLEAN, NEW r, r = mapUpdated(e, failed)
    PROVE  /\ r \in EstimatorState
           /\ r.state_time = e.state_time /\ r.confirmed = e.confirmed
           /\ r.successes = e.successes
           /\ e.status # "Tracking" => r = e
           /\ e.status = "Tracking" /\ ~e.map_recovery =>
                \/ r.status = "Tracking" /\ ~r.map_recovery
                \/ r.status = "Degraded" /\ r.map_recovery
<1>1. CASE e.status # "Tracking" \/ e.map_recovery
  BY Zenon, <1>1 DEF mapUpdated
<1>2. CASE e.status = "Tracking" /\ ~e.map_recovery
  <2> DEFINE status == IF failed THEN "Degraded" ELSE e.status
  <2>1. r = [e EXCEPT !.mapped = TRUE, !.reference = FALSE, !.map_recovery = failed,
                      !.status = status]
    BY Zenon, <1>2 DEF mapUpdated
  <2>2. status \in Statuses
    BY Zenon, <1>2 DEF Statuses
  <2>3. (failed => status = "Degraded") /\ (~failed => status = "Tracking")
    BY Zenon, <1>2
  <2> HIDE DEF status
  <2>4. r \in EstimatorState
    BY <2>1, <2>2, Zenon DEF EstimatorState
  <2>5. /\ r.state_time = e.state_time /\ r.confirmed = e.confirmed
        /\ r.successes = e.successes /\ r.status = status /\ r.map_recovery = failed
    BY Zenon, <2>1 DEF EstimatorState
  <2> QED
    BY Zenon, <1>2, <2>3, <2>4, <2>5
<1> QED
  BY Zenon, <1>1, <1>2

----------------------------------------------------------------------------
(* What processing a scan does to the estimator                            *)

\* The filter's time against the synchroniser's epoch.
Timed(e, epoch) ==
    e.state_time <= epoch /\ (e.status = "Tracking" => e.state_time = epoch)

\* The recovery's counter is covered by the corrections in a row, unless the filter was
\* left behind, after which no scan corrects it before an uncorrected update.
Counted(e, epoch, row) ==
    e.confirmed /\ e.status # "Tracking" => e.successes <= row \/ e.state_time # epoch

Regained(e, r, row) ==
    e.confirmed /\ e.status # "Tracking" /\ r.status = "Tracking"
      => row + 1 >= recovery_confirmation_updates

StreakAfter(result, row) ==
    IF result.corrected /\ result.estimator.status # "Tracking"
    THEN AtMost(row + 1, recovery_confirmation_updates) ELSE 0

\* From estimator e, result is one the lifecycle allows at the new epoch.
Allowed(e, result, epoch, row) ==
    /\ result.estimator \in EstimatorState /\ Sound(result.estimator)
    /\ Timed(result.estimator, epoch)
    /\ Counted(result.estimator, epoch, StreakAfter(result, row))
    /\ Regained(e, result.estimator, row)

LEMMA UncorrectedAllowed ==
    ASSUME NEW e, NEW r \in EstimatorState, NEW epoch \in Nat, NEW row \in Nat,
           Sound(r), r.state_time <= epoch, r.status # "Tracking",
           r.confirmed => r.successes = 0 \/ r.state_time # epoch
    PROVE  Allowed(e, Uncorrected(r), epoch, row)
<1>1. Uncorrected(r).estimator = r /\ ~Uncorrected(r).corrected
  BY Zenon DEF Uncorrected
<1>2. StreakAfter(Uncorrected(r), row) = 0
  BY Zenon, <1>1 DEF StreakAfter
<1>3. r.successes \in Nat
  BY Zenon DEF EstimatorState
<1> QED
  BY <1>1, <1>2, <1>3 DEF Allowed, Timed, Counted, Regained

LEMMA CorrectedAllowed ==
    ASSUME NEW e \in EstimatorState, Sound(e), e.state_time # 0, NEW row \in Nat,
           row <= recovery_confirmation_updates,
           e.confirmed /\ e.status # "Tracking" => e.successes <= row,
           NEW failed \in BOOLEAN
    PROVE  Allowed(e, Corrected(mapUpdated(correctionAccepted(e), failed)), e.state_time, row)
<1> DEFINE accepted == correctionAccepted(e)
           r == mapUpdated(accepted, failed)
<1>1. /\ accepted \in EstimatorState
      /\ accepted.state_time = e.state_time /\ accepted.confirmed
      /\ accepted.map_recovery = e.map_recovery
      /\ accepted.status = "Tracking" =>
           /\ accepted.successes = 0 /\ ~accepted.map_recovery
           /\ \/ ~e.confirmed \/ e.status = "Tracking"
              \/ e.successes + 1 >= recovery_confirmation_updates
      /\ accepted.status # "Tracking" =>
           /\ accepted.status \in {"Degraded", "Lost"}
           /\ e.confirmed /\ e.status # "Tracking"
           /\ accepted.successes <= e.successes + 1
           /\ accepted.successes <= recovery_confirmation_updates
  BY Zenon, AcceptedCorrection
<1> HIDE DEF accepted
<1>2. /\ r \in EstimatorState
      /\ r.state_time = accepted.state_time /\ r.confirmed = accepted.confirmed
      /\ r.successes = accepted.successes
      /\ accepted.status # "Tracking" => r = accepted
      /\ accepted.status = "Tracking" /\ ~accepted.map_recovery =>
           \/ r.status = "Tracking" /\ ~r.map_recovery
           \/ r.status = "Degraded" /\ r.map_recovery
  <2>1. accepted \in EstimatorState
    BY Zenon, <1>1
  <2> QED
    BY <2>1, UpdatedMap, Zenon
<1> HIDE DEF r
<1>3. /\ e.successes \in Nat /\ r.successes \in Nat /\ e.state_time \in Nat
      /\ accepted.successes \in Nat
  BY Zenon, <1>1, <1>2 DEF EstimatorState
<1>4. Sound(r) /\ Timed(r, e.state_time)
  BY <1>1, <1>2, <1>3 DEF Sound, Timed
<1>5. Regained(e, r, row)
  BY <1>1, <1>2, <1>3, Limits DEF Regained
<1>6. Corrected(r).estimator = r /\ Corrected(r).corrected
  BY Zenon DEF Corrected
<1>7. Counted(r, e.state_time, StreakAfter(Corrected(r), row))
  <2> SUFFICES ASSUME r.status # "Tracking"
               PROVE  r.successes <= StreakAfter(Corrected(r), row)
    BY Zenon DEF Counted
  <2>1. StreakAfter(Corrected(r), row) = AtMost(row + 1, recovery_confirmation_updates)
    BY Zenon, <1>6 DEF StreakAfter
  <2>2. CASE accepted.status = "Tracking"
    BY <1>1, <1>2, <1>3, <2>1, <2>2, Limits DEF AtMost
  <2>3. CASE accepted.status # "Tracking"
    BY <1>1, <1>2, <1>3, <2>1, <2>3, Limits DEF AtMost
  <2> QED
    BY Zenon, <2>2, <2>3
<1> QED
  BY Zenon, <1>2, <1>4, <1>5, <1>6, <1>7 DEF Allowed, r, accepted

\* Every way Predicted ends, from a filter at or before the scan's end.
LEMMA PredictedAllowed ==
    ASSUME NEW e \in EstimatorState, Sound(e), NEW scan, scan.end \in Nat \ {0},
           e.state_time <= scan.end, NEW row \in Nat, row <= recovery_confirmation_updates,
           e.confirmed /\ e.status # "Tracking" => e.successes <= row,
           NEW result \in Predicted(e, scan)
    PROVE  Allowed(e, result, scan.end, row)
<1> DEFINE predicted == PredictedTo(e, scan)
           first == [predicted EXCEPT !.reference = TRUE]
           restarted == [predicted EXCEPT !.failures = 0]
<1>1. /\ predicted \in EstimatorState
      /\ predicted.state_time = scan.end /\ predicted.confirmed = e.confirmed
      /\ predicted.status = e.status /\ predicted.successes = e.successes
      /\ predicted.map_recovery = e.map_recovery
  BY Zenon DEF PredictedTo, EstimatorState
<1> HIDE DEF predicted
<1>2. Sound(predicted)
  BY Zenon, <1>1 DEF Sound
<1>3. ASSUME NEW x \in EstimatorState, Sound(x), x.state_time <= scan.end
      PROVE  Allowed(e, Uncorrected(recordUncorrectedUpdate(x)), scan.end, row)
  <2> DEFINE r == recordUncorrectedUpdate(x)
  <2>1. /\ r \in EstimatorState
        /\ r.state_time = x.state_time /\ r.confirmed = x.confirmed
        /\ r.map_recovery = x.map_recovery
        /\ ~x.confirmed => r = x
        /\ x.confirmed => r.successes = 0 /\ r.status \in {"Degraded", "Lost"}
    BY Zenon, <1>3, UncorrectedUpdate
  <2> HIDE DEF r
  <2>2. Sound(r) /\ r.status # "Tracking"
    BY Zenon, <1>3, <2>1 DEF Sound
  <2>3. Allowed(e, Uncorrected(r), scan.end, row)
    BY Zenon, <1>3, <2>1, <2>2, UncorrectedAllowed
  <2> QED
    BY Zenon, <2>3 DEF r
<1>4. CASE result = Uncorrected(recordUncorrectedUpdate(e))
  BY Zenon, <1>3, <1>4
<1>5. CASE result = ScanUnusable(predicted)
  BY <1>1, <1>2, <1>3, <1>5 DEF ScanUnusable
<1>6. CASE e.status = "InitializingMap" /\ result = Uncorrected(first)
  <2>1. ~e.confirmed
    BY Zenon, <1>6 DEF Sound
  <2>2. /\ first \in EstimatorState
        /\ first.state_time = scan.end /\ ~first.confirmed
        /\ first.status = e.status /\ first.map_recovery = e.map_recovery
    BY Zenon, <1>1, <2>1 DEF EstimatorState
  <2> HIDE DEF first
  <2>3. Sound(first)
    BY Zenon, <1>6, <2>1, <2>2 DEF Sound
  <2> QED
    BY <1>6, <2>2, <2>3, UncorrectedAllowed
<1>7. CASE result = Uncorrected(registrationFailed(predicted))
  <2> DEFINE r == registrationFailed(predicted)
  <2>1. /\ r \in EstimatorState
        /\ r.state_time = predicted.state_time /\ r.confirmed = predicted.confirmed
        /\ r.map_recovery = predicted.map_recovery
        /\ ~predicted.confirmed => r.status # "Tracking"
        /\ predicted.confirmed => r.successes = 0 /\ r.status \in {"Degraded", "Lost"}
    BY Zenon, <1>1, <1>2, FailedRegistration
  <2> HIDE DEF r
  <2>2. Sound(r) /\ r.status # "Tracking" /\ r.state_time = scan.end
    BY Zenon, <1>1, <1>2, <2>1 DEF Sound
  <2>3. Allowed(e, Uncorrected(r), scan.end, row)
    BY <1>1, <2>1, <2>2, UncorrectedAllowed
  <2> QED
    BY Zenon, <1>7, <2>3 DEF r
<1>8. ASSUME NEW failed \in BOOLEAN,
             result = Corrected(mapUpdated(correctionAccepted(restarted), failed))
      PROVE  Allowed(e, result, scan.end, row)
  <2>0. restarted \in EstimatorState
    BY <1>1, Zenon DEF EstimatorState
  <2>1. /\ restarted.state_time = scan.end /\ restarted.confirmed = e.confirmed
        /\ restarted.status = e.status /\ restarted.successes = e.successes
        /\ restarted.map_recovery = e.map_recovery
    BY Zenon, <1>1 DEF EstimatorState
  <2> HIDE DEF restarted
  <2>2. Sound(restarted)
    BY Zenon, <2>1 DEF Sound
  <2>3. Allowed(restarted, result, restarted.state_time, row)
    BY Zenon, <1>8, <2>0, <2>1, <2>2, CorrectedAllowed
  <2> QED
    BY Zenon, <2>1, <2>3 DEF Allowed, Regained
<1> QED
  BY Zenon, <1>4, <1>5, <1>6, <1>7, <1>8 DEF Predicted, Registrations, predicted

\* An IMU gap: the filter is rebased on its end, or is lost and left behind.
LEMMA DiscontinuityAllowed ==
    ASSUME NEW e \in EstimatorState, Sound(e), NEW outcome, outcome.resume \in Nat,
           e.state_time < outcome.resume, NEW inflated \in BOOLEAN, NEW row \in Nat
    PROVE  Allowed(e, Uncorrected(recoverFromDiscontinuity(e, outcome, inflated)),
                   outcome.resume, row)
<1> DEFINE long == outcome.gap > maximum_recoverable_imu_gap
           moved == [e EXCEPT !.state_time = outcome.resume]
           rebased == recordUncorrectedUpdate(moved)
           r == recoverFromDiscontinuity(e, outcome, inflated)
<1>0. e.state_time \in Nat
  BY Zenon DEF EstimatorState
<1>1. CASE ~statusUsesEstimatorState(e.status) \/ e.state_time = 0
  <2>1. r = e
    BY Zenon, <1>1 DEF recoverFromDiscontinuity
  <2>2. ~e.confirmed
    BY Zenon, <1>1 DEF Sound, statusUsesEstimatorState
  <2>3. e.status # "Tracking"
    BY Zenon, <2>2 DEF Sound
  <2> QED
    BY <1>0, <2>1, <2>2, <2>3, UncorrectedAllowed
<1>2. CASE statusUsesEstimatorState(e.status) /\ e.state_time # 0 /\ ~inflated
  <2>1. r = [e EXCEPT !.status = "Lost"]
    BY Zenon, <1>2 DEF recoverFromDiscontinuity
  <2> HIDE DEF r
  <2>2. /\ r \in EstimatorState
        /\ r.status = "Lost" /\ r.state_time = e.state_time /\ r.confirmed = e.confirmed
        /\ r.map_recovery = e.map_recovery
    BY Zenon, <2>1 DEF EstimatorState, Statuses
  <2>3. Sound(r)
    BY Zenon, <2>2 DEF Sound
  <2>4. Allowed(e, Uncorrected(r), outcome.resume, row)
    BY <1>0, <2>2, <2>3, UncorrectedAllowed
  <2> QED
    BY Zenon, <2>4 DEF r
<1>3. CASE statusUsesEstimatorState(e.status) /\ e.state_time # 0 /\ inflated
  <2>1. /\ moved \in EstimatorState
        /\ moved.state_time = outcome.resume /\ moved.confirmed = e.confirmed
        /\ moved.map_recovery = e.map_recovery
    BY Zenon DEF EstimatorState
  <2>2. e.confirmed => r = [rebased EXCEPT !.status = IF long THEN "Lost" ELSE @]
    BY Zenon, <1>3 DEF recoverFromDiscontinuity
  <2>3. ~e.confirmed => r = [rebased EXCEPT !.status = "InitializingMap",
                                            !.reference = @ /\ ~long,
                                            !.failures = IF long THEN 0 ELSE @]
    BY Zenon, <1>3 DEF recoverFromDiscontinuity
  <2> HIDE DEF r, moved, long
  <2>4. /\ rebased \in EstimatorState
        /\ rebased.state_time = moved.state_time /\ rebased.confirmed = moved.confirmed
        /\ rebased.map_recovery = moved.map_recovery
        /\ moved.confirmed => rebased.successes = 0 /\ rebased.status \in {"Degraded", "Lost"}
    BY Zenon, <2>1, UncorrectedUpdate
  <2> HIDE DEF rebased
  <2>5. CASE e.confirmed
    <3> DEFINE status == IF long THEN "Lost" ELSE rebased.status
    <3>1. status \in {"Degraded", "Lost"} /\ status \in Statuses
      BY Zenon, <2>1, <2>4, <2>5 DEF Statuses
    <3>2. r = [rebased EXCEPT !.status = status]
      BY Zenon, <2>2, <2>5
    <3> HIDE DEF status
    <3>3. /\ r \in EstimatorState /\ r.status = status
          /\ r.state_time = rebased.state_time /\ r.confirmed = rebased.confirmed
          /\ r.map_recovery = rebased.map_recovery /\ r.successes = rebased.successes
      BY Zenon, <2>4, <3>1, <3>2 DEF EstimatorState
    <3>4. Sound(r)
      BY <1>0, <2>1, <2>4, <2>5, <3>1, <3>3 DEF Sound
    <3>5. Allowed(e, Uncorrected(r), outcome.resume, row)
      BY <2>1, <2>4, <2>5, <3>1, <3>3, <3>4, UncorrectedAllowed
    <3> QED
      BY Zenon, <3>5 DEF r
  <2>6. CASE ~e.confirmed
    <3> DEFINE reference == rebased.reference /\ ~long
               failures == IF long THEN 0 ELSE rebased.failures
    <3>1. failures \in Nat
      BY Zenon, <2>4 DEF EstimatorState
    <3>2. r = [rebased EXCEPT !.status = "InitializingMap", !.reference = reference,
                              !.failures = failures]
      BY Zenon, <2>3, <2>6
    <3>3. reference \in BOOLEAN /\ "InitializingMap" \in Statuses
      BY Zenon, <2>4 DEF EstimatorState, Statuses
    <3> HIDE DEF reference, failures
    <3>4. r \in EstimatorState
      BY <2>4, <3>1, <3>2, <3>3, Zenon DEF EstimatorState
    <3>5. /\ r.status = "InitializingMap"
          /\ r.state_time = rebased.state_time /\ r.confirmed = rebased.confirmed
          /\ r.map_recovery = rebased.map_recovery
      BY Zenon, <2>4, <3>2 DEF EstimatorState
    <3>6. Sound(r)
      BY Zenon, <2>1, <2>4, <2>6, <3>5 DEF Sound
    <3>7. Allowed(e, Uncorrected(r), outcome.resume, row)
      BY <2>1, <2>4, <2>6, <3>4, <3>5, <3>6, UncorrectedAllowed
    <3> QED
      BY Zenon, <3>7 DEF r
  <2> QED
    BY Zenon, <2>5, <2>6
<1> QED
  BY Zenon, <1>1, <1>2, <1>3

----------------------------------------------------------------------------
(* The estimator and the synchroniser together                             *)

InitializationState ==
    [samples : Nat, last : Nat, result : BOOLEAN, wait_start : Nat,
     step : {"idle", "resolve", "apply"}, candidate : Nat, fallback : BOOLEAN,
     prior_time : Nat, initialized : BOOLEAN]

\* The recovery's counter against the history, the filter against the epoch, and an
\* initialisation under way only while the estimator is still initialising.
EstimatorInv ==
    /\ BufferInv
    /\ estimator \in EstimatorState /\ Sound(estimator)
    /\ streak \in 0 .. recovery_confirmation_updates
    /\ Timed(estimator, last_synchronized_end_time)
    /\ Counted(estimator, last_synchronized_end_time, streak)
    /\ initialization \in InitializationState
    /\ initial_prior_candidate \in Nat
    /\ initialization.step # "idle" => estimator.status = "InitializingImu"

\* processInternal, whatever the filter's time is to the interval's start.
LEMMA GroupAllowed ==
    ASSUME EstimatorInv, lidar_scans # <<>>, NEW scan, scan = Head(lidar_scans),
           Spannable(scan), NEW result \in processInternal(scan, PropagationStart(scan))
    PROVE  Allowed(estimator, result, scan.end, streak)
<1> DEFINE start == PropagationStart(scan)
           e == estimator
<1>1. /\ scan.start \in Nat /\ scan.end \in Nat \ {0} /\ scan.start <= scan.end
      /\ start \in Nat \ {0} /\ start <= scan.start
      /\ last_synchronized_end_time <= start
  BY Zenon, SpannableStamps DEF EstimatorInv, BufferInv
<1>2. last_synchronized_end_time # 0 => start = last_synchronized_end_time
  BY Zenon DEF PropagationStart
<1>3. last_synchronized_end_time \in Nat
  BY SynchronizationAssumption DEF EstimatorInv, BufferInv, Buffers
<1>4. /\ e \in EstimatorState /\ Sound(e) /\ e.state_time \in Nat /\ e.successes \in Nat
      /\ e.state_time <= last_synchronized_end_time
      /\ streak \in Nat /\ streak <= recovery_confirmation_updates
      /\ e.confirmed /\ e.status # "Tracking" =>
           e.successes <= streak \/ e.state_time # last_synchronized_end_time
  BY Limits DEF EstimatorInv, EstimatorState, Timed, Counted
<1>5. \/ ~statusUsesEstimatorState(e.status) /\ result = Uncorrected(e)
      \/ e.state_time = 0 /\ result = Uncorrected(e)
      \/ /\ e.state_time = 0 /\ InitialEpoch(start) <= scan.start
         /\ result \in Predicted([e EXCEPT !.state_time = InitialEpoch(start)], scan)
      \/ e.state_time = start /\ result \in Predicted(e, scan)
      \/ e.state_time # 0 /\ result = Uncorrected(recordUncorrectedUpdate(e))
      \/ /\ Rebasable(e, start)
         /\ result \in Predicted(recordUncorrectedUpdate([e EXCEPT !.state_time = start]), scan)
  <2>1. CASE ~statusUsesEstimatorState(e.status)
    BY Zenon, <1>1, <2>1 DEF processInternal
  <2>2. CASE e.state_time = 0 /\ statusUsesEstimatorState(e.status)
    BY Zenon, <1>1, <2>2 DEF processInternal, FirstScanUsable
  <2>3. CASE e.state_time = start /\ statusUsesEstimatorState(e.status)
    BY Zenon, <1>1, <2>3 DEF processInternal
  <2>4. CASE e.state_time \notin {0, start} /\ statusUsesEstimatorState(e.status)
    BY Zenon, <1>1, <2>4 DEF processInternal
  <2> QED
    BY Zenon, <2>1, <2>2, <2>3, <2>4
<1> HIDE DEF start, e
<1>6. ASSUME NEW x \in EstimatorState, Sound(x), x.state_time <= scan.end, ~x.confirmed
      PROVE  Allowed(e, Uncorrected(x), scan.end, streak)
  <2>1. x.status # "Tracking"
    BY Zenon, <1>6 DEF Sound
  <2> QED
    BY Zenon, <1>1, <1>4, <1>6, <2>1, UncorrectedAllowed
<1>7. e.state_time <= scan.end
  BY <1>1, <1>3, <1>4
<1>8. CASE ~statusUsesEstimatorState(e.status) /\ result = Uncorrected(e)
  <2>1. ~e.confirmed
    BY Zenon, <1>4, <1>8 DEF Sound, statusUsesEstimatorState
  <2> QED
    BY Zenon, <1>4, <1>6, <1>7, <1>8, <2>1 DEF e
<1>9. CASE e.state_time = 0 /\ result = Uncorrected(e)
  <2>1. ~e.confirmed
    BY Zenon, <1>4, <1>9 DEF Sound
  <2> QED
    BY Zenon, <1>4, <1>6, <1>7, <1>9, <2>1 DEF e
<1>10. CASE /\ e.state_time = 0 /\ InitialEpoch(start) <= scan.start
            /\ result \in Predicted([e EXCEPT !.state_time = InitialEpoch(start)], scan)
  <2> DEFINE x == [e EXCEPT !.state_time = InitialEpoch(start)]
  <2>1. ~e.confirmed
    BY Zenon, <1>4, <1>10 DEF Sound
  <2>2. InitialEpoch(start) \in Nat
    BY Zenon, <1>1 DEF InitialEpoch, EstimatorInv, InitializationState
  <2>3. /\ x \in EstimatorState
        /\ x.state_time = InitialEpoch(start) /\ x.confirmed = e.confirmed
        /\ x.status = e.status /\ x.map_recovery = e.map_recovery
    BY Zenon, <1>4, <2>2 DEF EstimatorState
  <2> HIDE DEF x
  <2>4. Sound(x) /\ x.state_time <= scan.end
    BY <1>1, <1>4, <1>10, <2>1, <2>2, <2>3 DEF Sound
  <2>5. result \in Predicted(x, scan)
    BY Zenon, <1>10 DEF x
  <2>6. Allowed(x, result, scan.end, streak)
    BY Zenon, <1>1, <1>4, <2>1, <2>3, <2>4, <2>5, PredictedAllowed
  <2> QED
    BY Zenon, <2>1, <2>6 DEF Allowed, Regained, e
<1>11. CASE e.state_time = start /\ result \in Predicted(e, scan)
  <2>1. e.state_time = last_synchronized_end_time
    BY <1>1, <1>2, <1>3, <1>4, <1>11
  <2> QED
    BY Zenon, <1>1, <1>4, <1>7, <1>11, <2>1, PredictedAllowed DEF e
<1>12. CASE e.state_time # 0 /\ result = Uncorrected(recordUncorrectedUpdate(e))
  <2> DEFINE r == recordUncorrectedUpdate(e)
  <2>2. /\ r \in EstimatorState
        /\ r.state_time = e.state_time /\ r.confirmed = e.confirmed
        /\ r.map_recovery = e.map_recovery
        /\ ~e.confirmed => r = e
        /\ e.confirmed => r.successes = 0 /\ r.status \in {"Degraded", "Lost"}
    BY Zenon, <1>4, UncorrectedUpdate
  <2> HIDE DEF r
  <2>3. Sound(r) /\ r.status # "Tracking"
    BY Zenon, <1>4, <2>2 DEF Sound
  <2>4. Allowed(e, Uncorrected(r), scan.end, streak)
    BY Zenon, <1>1, <1>4, <1>7, <2>2, <2>3, UncorrectedAllowed
  <2> QED
    BY Zenon, <1>12, <2>4 DEF r, e
<1>13. CASE /\ Rebasable(e, start)
            /\ result \in Predicted(recordUncorrectedUpdate([e EXCEPT !.state_time = start]), scan)
  <2> DEFINE moved == [e EXCEPT !.state_time = start]
             x == recordUncorrectedUpdate(moved)
  <2>1. e.confirmed /\ e.status # "Tracking"
    BY Zenon, <1>13 DEF Rebasable
  <2>2. /\ moved \in EstimatorState
        /\ moved.state_time = start /\ moved.confirmed = e.confirmed
        /\ moved.map_recovery = e.map_recovery
    BY Zenon, <1>1, <1>4 DEF EstimatorState
  <2> HIDE DEF moved
  <2>3. /\ x \in EstimatorState
        /\ x.state_time = moved.state_time /\ x.confirmed = moved.confirmed
        /\ x.map_recovery = moved.map_recovery
        /\ moved.confirmed => x.successes = 0 /\ x.status \in {"Degraded", "Lost"}
    BY Zenon, <2>2, UncorrectedUpdate
  <2>4. result \in Predicted(x, scan)
    BY Zenon, <1>13 DEF moved
  <2> HIDE DEF x
  <2>5. Sound(x) /\ x.state_time <= scan.end /\ x.successes <= streak
    BY <1>1, <1>4, <2>1, <2>2, <2>3 DEF Sound
  <2>6. Allowed(x, result, scan.end, streak)
    BY Zenon, <1>1, <1>4, <2>3, <2>4, <2>5, PredictedAllowed
  <2> QED
    BY Zenon, <2>1, <2>2, <2>3, <2>6 DEF Allowed, Regained, e
<1> QED
  BY Zenon, <1>5, <1>8, <1>9, <1>10, <1>11, <1>12, <1>13

\* A step of processNext: what synchronizeNext found decides what the lifecycle allows.
LEMMA ProcessedAllowed ==
    ASSUME EstimatorInv, processNext
    PROVE  \E result :
              /\ Allowed(estimator, result, last_synchronized_end_time', streak)
              /\ estimator' = result.estimator
              /\ streak' = StreakAfter(result, streak)
<1> DEFINE outcome == Synchronization
<1>1. PICK result \in Results : /\ estimator' = result.estimator
                                /\ streak' = StreakAfter(result, streak)
  BY Zenon DEF processNext, StreakAfter
<1>2. /\ outcome.kind # "waiting" /\ Synchronized(outcome) /\ BufferInv
  BY Zenon DEF processNext, CanProcess, EstimatorInv
<1>3. /\ estimator \in EstimatorState /\ Sound(estimator) /\ estimator.state_time \in Nat
      /\ last_synchronized_end_time \in Nat
      /\ estimator.state_time <= last_synchronized_end_time /\ streak \in Nat
  BY Limits, SynchronizationAssumption
     DEF EstimatorInv, EstimatorState, Timed, BufferInv, Buffers
<1>4. CASE outcome.kind = "rejected" /\ UNCHANGED last_synchronized_end_time
  <2>1. result = Uncorrected(recordUncorrectedUpdate(estimator))
    BY Zenon, <1>1, <1>4 DEF Results
  <2> DEFINE r == recordUncorrectedUpdate(estimator)
  <2>2. /\ r \in EstimatorState
        /\ r.state_time = estimator.state_time /\ r.confirmed = estimator.confirmed
        /\ r.map_recovery = estimator.map_recovery
        /\ ~estimator.confirmed => r = estimator
        /\ estimator.confirmed => r.successes = 0 /\ r.status \in {"Degraded", "Lost"}
    BY Zenon, <1>3, UncorrectedUpdate
  <2> HIDE DEF r
  <2>3. Sound(r) /\ r.status # "Tracking"
    BY Zenon, <1>3, <2>2 DEF Sound
  <2>4. Allowed(estimator, Uncorrected(r), last_synchronized_end_time, streak)
    BY Zenon, <1>3, <2>2, <2>3, UncorrectedAllowed
  <2> QED
    BY Zenon, <1>1, <1>4, <2>1, <2>4 DEF r
<1>5. CASE /\ outcome.kind = "discontinuity"
           /\ last_synchronized_end_time' = outcome.resume
           /\ outcome.resume \in Time /\ last_synchronized_end_time < outcome.resume
  <2>1. PICK inflated \in BOOLEAN :
           result = Uncorrected(recoverFromDiscontinuity(estimator, outcome, inflated))
    BY Zenon, <1>1, <1>5 DEF Results
  <2>2. outcome.resume \in Nat
    BY Zenon, <1>5, SynchronizationAssumption
  <2> HIDE DEF outcome
  <2>3. estimator.state_time < outcome.resume
    BY <1>3, <1>5, <2>2
  <2>4. Allowed(estimator, result, outcome.resume, streak)
    BY Zenon, <1>3, <2>1, <2>2, <2>3, DiscontinuityAllowed
  <2> QED
    BY Zenon, <1>1, <1>5, <2>4
<1>6. CASE /\ outcome.kind = "group"
           /\ last_synchronized_end_time' = Head(lidar_scans).end
           /\ lidar_scans # <<>> /\ Spannable(Head(lidar_scans))
           /\ outcome.start = PropagationStart(Head(lidar_scans))
  <2>1. result \in processInternal(Head(lidar_scans), PropagationStart(Head(lidar_scans)))
    BY Zenon, <1>1, <1>6 DEF Results
  <2>2. Allowed(estimator, result, Head(lidar_scans).end, streak)
    BY Zenon, <1>6, <2>1, GroupAllowed
  <2> QED
    BY Zenon, <1>1, <1>6, <2>2
<1> QED
  BY Zenon, <1>2, <1>4, <1>5, <1>6, SynchronizedMoves

\* The lifecycle, the filter's time and the recovery's counter stay consistent with the
\* synchroniser through every interleaving of samples, scans, priors and time-outs.
THEOREM EstimatorInvHolds == Spec => []EstimatorInv
<1>1. Init => EstimatorInv
  <2> SUFFICES ASSUME Init PROVE EstimatorInv
    BY Zenon
  <2>1. BufferInv
    BY DEF Init, BufferInit, BufferInv, Buffers, BracketRetained
  <2>2. estimator \in EstimatorState
    BY Zenon DEF Init, WaitingForSensors, EstimatorState, Statuses
  <2>3. initialization \in InitializationState
    BY Zenon DEF Init, NotInitialized, InitializationState
  <2> QED
    BY <2>1, <2>2, <2>3, Limits
       DEF Init, BufferInit, EstimatorInv, Sound, Timed, Counted, WaitingForSensors,
           NotInitialized
<1>2. EstimatorInv /\ BufferInv' /\ [Next]_pipelineVars => EstimatorInv'
  <2> SUFFICES ASSUME EstimatorInv, BufferInv', [Next]_pipelineVars PROVE EstimatorInv'
    BY Zenon
  <2> USE DEF EstimatorInv
  <2>1. CASE processNext
    <3>1. PICK result : /\ Allowed(estimator, result, last_synchronized_end_time', streak)
                        /\ estimator' = result.estimator
                        /\ streak' = StreakAfter(result, streak)
      BY Zenon, <2>1, ProcessedAllowed
    <3>2. /\ UNCHANGED <<initialization, initial_prior_candidate>>
          /\ initialization.step = "idle"
      BY Zenon, <2>1 DEF processNext, priorVars
    <3>3. streak' \in 0 .. recovery_confirmation_updates
      BY <3>1, Limits DEF StreakAfter, AtMost
    <3> QED
      BY Zenon, <3>1, <3>2, <3>3 DEF Allowed
  <2>2. CASE resolveInitialStatePrior
    <3>1. UNCHANGED <<estimator, streak, last_synchronized_end_time>>
      BY Zenon, <2>2 DEF resolveInitialStatePrior, synchronizationVars
    <3>2. /\ initialization' \in InitializationState /\ initial_prior_candidate' \in Nat
          /\ initialization.step = "resolve"
      <4> DEFINE application_time == initialization.last
                 candidate == initialization.candidate
                 present == prior_source = "topic" /\ candidate # 0
                 future == present /\ candidate > application_time
                 stale == /\ present /\ ~future
                          /\ application_time - candidate > maximum_topic_prior_age
                 accepted == prior_source = "zero" \/ (present /\ ~future /\ ~stale)
                 timed_out ==
                    application_time - initialization.wait_start >= topic_wait_timeout
                 fallback == ~accepted /\ ~future /\ timed_out
                 step == IF accepted \/ fallback THEN "apply" ELSE "idle"
                 fell == initialization.fallback \/ fallback
      <4>1. /\ initialization.step = "resolve"
            /\ initialization' = [initialization EXCEPT !.step = step, !.candidate = 0,
                                                        !.fallback = fell]
            /\ initial_prior_candidate' = IF stale THEN 0 ELSE initial_prior_candidate
        BY Zenon, <2>2 DEF resolveInitialStatePrior
      <4>2. step \in {"idle", "resolve", "apply"} /\ fell \in BOOLEAN
        BY Zenon DEF InitializationState
      <4> HIDE DEF step, fell, stale
      <4>3. 0 \in Nat
        BY Zenon
      <4>4. initialization' \in InitializationState
        BY <4>1, <4>2, <4>3, Zenon DEF InitializationState
      <4> QED
        BY Zenon, <4>1, <4>4
    <3> QED
      BY Zenon, <3>1, <3>2
  <2>3. CASE applyInitialStatePrior
    <3> DEFINE own == prior_source = "topic" /\ ~initialization.fallback
    <3>1. PICK accepted \in BOOLEAN :
             /\ initialization' =
                  [initialization EXCEPT
                     !.step = "idle", !.initialized = accepted,
                     !.prior_time = IF ~accepted THEN 0
                                    ELSE IF own THEN initial_prior_candidate
                                    ELSE initialization.last]
             /\ estimator' = [estimator EXCEPT !.status = IF accepted THEN "InitializingMap"
                                                          ELSE @]
      BY Zenon, <2>3 DEF applyInitialStatePrior
    <3> DEFINE prior_time == IF ~accepted THEN 0 ELSE IF own THEN initial_prior_candidate
                             ELSE initialization.last
               status == IF accepted THEN "InitializingMap" ELSE estimator.status
    <3>2. prior_time \in Nat
      BY Zenon DEF InitializationState
    <3>3. /\ initialization' = [initialization EXCEPT !.step = "idle", !.initialized = accepted,
                                                      !.prior_time = prior_time]
          /\ estimator' = [estimator EXCEPT !.status = status]
      BY Zenon, <3>1
    <3>4. estimator.status = "InitializingImu"
      BY Zenon, <2>3 DEF applyInitialStatePrior
    <3>5. status \in Statuses /\ status \in {"InitializingImu", "InitializingMap"}
      BY Zenon, <3>4 DEF Statuses
    <3> HIDE DEF prior_time, status
    <3>6. initialization' \in InitializationState /\ initialization'.step = "idle"
      <4>1. "idle" \in {"idle", "resolve", "apply"}
        BY Zenon
      <4>2. initialization' \in InitializationState
        BY <3>2, <3>3, <4>1, Zenon DEF InitializationState
      <4> QED
        BY Zenon, <3>3, <4>2 DEF InitializationState
    <3>7. /\ estimator' \in EstimatorState /\ estimator'.status = status
          /\ estimator'.state_time = estimator.state_time
          /\ estimator'.confirmed = estimator.confirmed
          /\ estimator'.map_recovery = estimator.map_recovery
      BY Zenon, <3>3, <3>5 DEF EstimatorState
    <3>8. UNCHANGED <<streak, last_synchronized_end_time, initial_prior_candidate>>
      BY Zenon, <2>3 DEF applyInitialStatePrior, synchronizationVars, priorVars
    <3>9. ~estimator.confirmed
      BY Zenon, <3>4 DEF Sound
    <3> QED
      BY Zenon, <3>5, <3>6, <3>7, <3>8, <3>9 DEF Sound, Timed, Counted
  <2>4. ASSUME NEW t \in Time, pushImu(t) PROVE EstimatorInv'
    <3>0. UNCHANGED <<streak, last_synchronized_end_time, initial_prior_candidate>>
      BY Zenon, <2>4 DEF pushImu, priorVars
    <3>1. CASE UNCHANGED <<estimator, initialization>>
      BY Zenon, <3>0, <3>1
    <3>2. CASE ImuAccepted(t) /\ Collecting
      <4> DEFINE n == AtMost(initialization.samples + 1, minimum_imu_samples)
                 status == IF n = minimum_imu_samples THEN "InitializingImu"
                           ELSE "CollectingImu"
                 wait_start == IF initialization.result THEN initialization.wait_start ELSE t
      <4>1. PICK result \in BOOLEAN :
               /\ result => n = minimum_imu_samples
               /\ estimator' = [estimator EXCEPT !.status = status]
               /\ initialization' =
                    [initialization EXCEPT
                       !.samples = n, !.last = t, !.result = result, !.wait_start = wait_start,
                       !.step = IF result THEN "resolve" ELSE "idle",
                       !.candidate = IF result THEN initial_prior_candidate ELSE 0]
        BY Zenon, <2>4, <3>2 DEF pushImu
      <4> DEFINE step == IF result THEN "resolve" ELSE "idle"
                 candidate == IF result THEN initial_prior_candidate ELSE 0
      <4>2. n \in Nat
        <5>1. initialization.samples + 1 \in Nat /\ minimum_imu_samples \in Nat
          BY PipelineAssumption DEF InitializationState
        <5> QED
          BY Zenon, <5>1, AtMostBounds
      <4>3. t \in Nat /\ wait_start \in Nat /\ candidate \in Nat
        BY Zenon, SynchronizationAssumption DEF InitializationState
      <4>4. /\ step \in {"idle", "resolve", "apply"}
            /\ step # "idle" => status = "InitializingImu"
        BY Zenon, <4>1
      <4>5. status \in Statuses /\ status \in {"InitializingImu", "CollectingImu"}
        BY Zenon DEF Statuses
      <4>6. initialization' = [initialization EXCEPT
                                 !.samples = n, !.last = t, !.result = result,
                                 !.wait_start = wait_start, !.step = step,
                                 !.candidate = candidate]
        BY Zenon, <4>1
      <4>7. estimator' = [estimator EXCEPT !.status = status]
        BY Zenon, <4>1
      <4> HIDE DEF n, status, wait_start, step, candidate
      <4>8. initialization' \in InitializationState
        BY <4>2, <4>3, <4>4, <4>6, Zenon DEF InitializationState
      <4>9. initialization'.step = step
        BY Zenon, <4>6 DEF InitializationState
      <4>10. /\ estimator' \in EstimatorState /\ estimator'.status = status
             /\ estimator'.state_time = estimator.state_time
             /\ estimator'.confirmed = estimator.confirmed
             /\ estimator'.map_recovery = estimator.map_recovery
        BY Zenon, <4>5, <4>7 DEF EstimatorState
      <4>11. ~estimator.confirmed
        BY Zenon, <3>2 DEF Collecting, Sound
      <4> QED
        BY Zenon, <3>0, <4>4, <4>5, <4>8, <4>9, <4>10, <4>11 DEF Sound, Timed, Counted
    <3> QED
      BY Zenon, <2>4, <3>1, <3>2 DEF pushImu
  <2>5. ASSUME NEW t \in Time, submitInitialStatePrior(t) PROVE EstimatorInv'
    <3>1. /\ UNCHANGED <<estimator, initialization, streak, last_synchronized_end_time>>
          /\ initial_prior_candidate' \in Nat
      BY Zenon, <2>5, SynchronizationAssumption DEF submitInitialStatePrior, synchronizationVars
    <3> QED
      BY Zenon, <3>1
  <2>6. ASSUME NEW scan \in Scan, pushLidar(scan) PROVE EstimatorInv'
    BY Zenon, <2>6 DEF pushLidar, priorVars
  <2>7. ASSUME NEW elapsed \in {"degraded", "lost"}, superviseLidarTimeout(elapsed)
        PROVE  EstimatorInv'
    <3> DEFINE status == IF elapsed = "lost" THEN "Lost" ELSE "Degraded"
    <3>1. /\ UNCHANGED <<initialization, streak, last_synchronized_end_time,
                         initial_prior_candidate>>
          /\ initialization.step = "idle" /\ estimator.status \in {"Tracking", "Degraded"}
          /\ estimator' = [estimator EXCEPT !.status = status]
      BY Zenon, <2>7 DEF superviseLidarTimeout, ThreadFree, synchronizationVars, priorVars
    <3>2. status \in {"Degraded", "Lost"} /\ status \in Statuses
      BY Zenon DEF Statuses
    <3> HIDE DEF status
    <3>3. /\ estimator' \in EstimatorState /\ estimator'.status = status
          /\ estimator'.state_time = estimator.state_time
          /\ estimator'.confirmed = estimator.confirmed
          /\ estimator'.map_recovery = estimator.map_recovery
          /\ estimator'.successes = estimator.successes
      BY Zenon, <3>1, <3>2 DEF EstimatorState
    <3>4. Sound(estimator') /\ Timed(estimator', last_synchronized_end_time')
      BY Zenon, <3>1, <3>2, <3>3 DEF Sound, Timed
    <3>5. Counted(estimator', last_synchronized_end_time', streak')
      BY <3>1, <3>2, <3>3, Limits DEF Sound, Counted
    <3> QED
      BY Zenon, <3>1, <3>3, <3>4, <3>5
  <2>8. CASE reset
    <3>1. /\ estimator' = WaitingForSensors /\ initialization' = NotInitialized
          /\ streak' = 0 /\ last_synchronized_end_time' = 0 /\ initial_prior_candidate' = 0
      BY Zenon, <2>8 DEF reset, BufferCleared
    <3>2. WaitingForSensors \in EstimatorState
      BY Zenon DEF WaitingForSensors, EstimatorState, Statuses
    <3>3. NotInitialized \in InitializationState
      BY Zenon DEF NotInitialized, InitializationState
    <3> QED
      BY <3>1, <3>2, <3>3, Limits DEF Sound, Timed, Counted, WaitingForSensors, NotInitialized
  <2>9. CASE UNCHANGED pipelineVars
    BY Zenon, <2>9 DEF pipelineVars, lifecycleVars, priorVars, synchronizationVars
  <2> QED
    BY Zenon, <2>1, <2>2, <2>3, <2>4, <2>5, <2>6, <2>7, <2>8, <2>9 DEF Next, PipelineStep
<1> QED
  BY <1>1, <1>2, BufferInvHolds, PTL DEF Spec

\* The filter is never ahead of the synchroniser's epoch, not even with a prior that was
\* replaced by a later one between its check and its use, and is at it while Tracking.
THEOREM FilterMatches == Spec => []FilterMatchesSynchronizer
<1>1. EstimatorInv => FilterMatchesSynchronizer
  BY Zenon DEF EstimatorInv, Timed, FilterMatchesSynchronizer
<1> QED
  BY <1>1, EstimatorInvHolds, PTL

\* Once the map has failed its size guard, Tracking is not reported until a reset.
THEOREM MapGuardLatchesHolds == Spec => []MapGuardLatches
<1>1. EstimatorInv => MapGuardLatches
  BY Zenon DEF EstimatorInv, Sound, MapGuardLatches
<1> QED
  BY <1>1, EstimatorInvHolds, PTL

\* Tracking is regained only by recovery_confirmation_updates corrections with no
\* uncorrected update between them, whatever gaps, failures and time-outs came before.
THEOREM RecoveryConfirmedHolds == Spec => RecoveryConfirmed
<1> DEFINE Confirmed == /\ estimator.confirmed /\ estimator.status # "Tracking"
                        /\ estimator'.status = "Tracking"
                        => streak + 1 >= recovery_confirmation_updates
<1>1. EstimatorInv /\ [Next]_pipelineVars => Confirmed
  <2> SUFFICES ASSUME EstimatorInv, [Next]_pipelineVars,
                      estimator.confirmed, estimator.status # "Tracking",
                      estimator'.status = "Tracking"
               PROVE  streak + 1 >= recovery_confirmation_updates
    BY Zenon
  <2>0. estimator \in EstimatorState /\ estimator.status \in {"Degraded", "Lost"}
    BY Zenon DEF EstimatorInv, Sound
  <2>1. CASE processNext
    BY <2>1, ProcessedAllowed DEF Allowed, Regained
  <2>2. CASE UNCHANGED estimator
    BY Zenon, <2>2
  <2>3. CASE applyInitialStatePrior
    BY Zenon, <2>0, <2>3 DEF applyInitialStatePrior, EstimatorInv
  <2>4. ASSUME NEW t \in Time, pushImu(t) PROVE UNCHANGED estimator
    BY Zenon, <2>0, <2>4 DEF pushImu, Collecting
  <2>5. ASSUME NEW elapsed \in {"degraded", "lost"}, superviseLidarTimeout(elapsed)
        PROVE  FALSE
    BY Zenon, <2>0, <2>5 DEF superviseLidarTimeout, EstimatorState
  <2>6. CASE reset
    BY Zenon, <2>6 DEF reset, WaitingForSensors
  <2> QED
    BY Zenon, <2>1, <2>2, <2>3, <2>4, <2>5, <2>6
       DEF Next, PipelineStep, resolveInitialStatePrior, submitInitialStatePrior, pushLidar,
           pipelineVars, lifecycleVars
<1>2. EstimatorInv /\ [Next]_pipelineVars => [Confirmed]_pipelineVars
  BY Zenon, <1>1
<1> QED
  BY <1>2, EstimatorInvHolds, PTL DEF Spec, RecoveryConfirmed

=============================================================================
