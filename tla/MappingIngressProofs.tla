------------------------ MODULE MappingIngressProofs ------------------------
(***************************************************************************)
(* The mapping ingress for any number of callback threads, epochs, scans   *)
(* and messages: types, the two mutexes, readiness, the drain of a reset,  *)
(* the order in which scans reach the map and the world store, and the     *)
(* balance of the inbox's accounting.                                      *)
(***************************************************************************)
EXTENDS MappingIngress, FiniteSetTheorems, TLAPS

Pcs == {"idle", "arrived", "entered", "draining", "barrier", "drained", "locked", "accepted"}
WorkerPcs == {"waiting", "processing", "mapped", "processed", "published", "failed", "exited"}
Handling == [pc: Pcs, scan: Scan \cup {None}, epoch: 0..MaxEpoch]

\* TypeOK, with callback and worker the function and the record they are.
Kinds ==
    /\ TypeOK
    /\ callback \in [Callbacks -> Handling]
    /\ worker \in [pc: WorkerPcs, scan: Scan \cup {None}]

\* Who holds the two mutexes, what a callback has established by its place, and that
\* the last accepted scan is always told from those of the active epoch.
LockInv ==
    /\ \A c \in Callbacks :
         /\ ingress_lock = c <=> callback[c].pc \notin {"idle", "arrived"}
         /\ transition_lock = c <=> callback[c].pc \in {"locked", "accepted"}
         /\ callback[c].pc \in {"draining", "barrier", "drained", "locked", "accepted"}
              => callback[c].epoch = active_epoch
         /\ callback[c].scan # None => callback[c].scan.epoch = callback[c].epoch
         /\ callback[c].pc \in {"locked", "accepted"} => callback[c].scan # None
         /\ callback[c].pc = "accepted" => callback[c].scan.sequence = last_scan.sequence
    /\ last_scan.epoch = active_epoch

\* in_flight_ is up exactly while the worker holds a scan, and a mapped scan is what
\* the map holds.
WorkerInv ==
    /\ in_flight <=> worker.pc \in {"processing", "mapped", "processed", "published", "failed"}
    /\ in_flight <=> worker.scan # None
    /\ worker.pc = "mapped" => mapped = worker.scan

\* The scans queued and in process, and those together with what the map holds.
Held == {ready, worker.scan} \ {None}
Observations == Held \cup {mapped}

\* No observation is of a later epoch than the active one; while a reset drains the
\* worker, all are of an earlier one, and afterwards the scans held are of the active
\* one unless the shutdown, which admits no scan, cut the drain short.
DrainInv ==
    /\ \A o \in Observations : o.epoch <= active_epoch
    /\ \A c \in Callbacks :
         /\ callback[c].pc \in {"draining", "barrier"}
              => \A o \in Observations : o.epoch < active_epoch
         /\ callback[c].pc = "barrier" => ready = None
    /\ ShutdownStarted => ~accepting
    /\ OldScansDrained

\* Observation b may follow a in the map.
Follows(b, a) ==
    \/ b.epoch > a.epoch
    \/ b.epoch = a.epoch /\ b.stamp > a.stamp /\ b.sequence > a.sequence

\* The map, the scan in process and the queued scan follow one another; those of the
\* active epoch are covered by the highest admitted key and by the last accepted
\* sequence number, and precede a scan between its acceptance and its submission;
\* the world is not ahead of the map.
OrderInv ==
    /\ worker.pc = "processing" => Follows(worker.scan, mapped)
    /\ ready # None => /\ Follows(ready, mapped)
                       /\ worker.scan # None => Follows(ready, worker.scan)
    /\ \A o \in Observations : o.epoch = active_epoch =>
         /\ o.stamp <= highest_admitted_key
         /\ o.sequence <= last_scan.sequence
         /\ \A c \in Callbacks : callback[c].pc = "accepted"
              => o.sequence < callback[c].scan.sequence
    /\ \/ world.epoch < mapped.epoch
       \/ world.epoch = mapped.epoch /\ world.stamp <= mapped.stamp

IngressInv == Kinds /\ LockInv /\ WorkerInv /\ DrainInv /\ OrderInv

----------------------------------------------------------------------------
(* Types                                                                   *)

\* A callback's step moves its own place and nothing else of it or of the others.
LEMMA GotoMoves ==
    ASSUME callback \in [Callbacks -> Handling], NEW c \in Callbacks, NEW pc \in Pcs, Goto(c, pc)
    PROVE  /\ callback' \in [Callbacks -> Handling]
           /\ callback'[c].pc = pc
           /\ callback'[c].scan = callback[c].scan /\ callback'[c].epoch = callback[c].epoch
           /\ \A d \in Callbacks \ {c} : callback'[d] = callback[d]
<1>1. callback[c] \in Handling
  BY Zenon
<1>2. callback'[c] = [callback[c] EXCEPT !.pc = pc]
  BY Zenon DEF Goto
<1>3. /\ callback'[c] \in Handling /\ callback'[c].pc = pc
      /\ callback'[c].scan = callback[c].scan /\ callback'[c].epoch = callback[c].epoch
  BY Zenon, <1>1, <1>2 DEF Handling
<1>4. \A d \in Callbacks \ {c} : callback'[d] = callback[d]
  BY Zenon DEF Goto
<1>5. callback' = [d \in Callbacks |-> callback'[d]]
  BY Zenon DEF Goto
<1> QED
  BY Zenon, <1>3, <1>4, <1>5

\* A callback that returns is idle.
LEMMA ReturnIdles ==
    ASSUME callback \in [Callbacks -> Handling], NEW c \in Callbacks, Return(c)
    PROVE  /\ callback' \in [Callbacks -> Handling]
           /\ callback'[c].pc = "idle" /\ callback'[c].scan = None
           /\ \A d \in Callbacks \ {c} : callback'[d] = callback[d]
<1>1. Idle \in Handling /\ Idle.pc = "idle" /\ Idle.scan = None
  BY MappingIngressAssumption DEF Idle, Handling, Pcs
<1> QED
  BY Zenon, <1>1 DEF Return

\* A message that arrives is handled from its first step.
LEMMA ArrivalsHandled ==
    ASSUME callback \in [Callbacks -> Handling], NEW c \in Callbacks,
           NEW scan \in Scan \cup {None}, NEW epoch \in 1..MaxEpoch,
           callback' = [callback EXCEPT ![c] =
                          [pc |-> "arrived", scan |-> scan, epoch |-> epoch]]
    PROVE  /\ callback' \in [Callbacks -> Handling]
           /\ callback'[c].pc = "arrived"
           /\ callback'[c].scan = scan /\ callback'[c].epoch = epoch
           /\ \A d \in Callbacks \ {c} : callback'[d] = callback[d]
<1>1. [pc |-> "arrived", scan |-> scan, epoch |-> epoch] \in Handling
  BY MappingIngressAssumption DEF Handling, Pcs
<1> QED
  BY Zenon, <1>1

\* The members a callback's step leaves alone or sets keep their types.
LEMMA CallbacksKeepKinds ==
    ASSUME Kinds, LockInv, NEW c \in Callbacks, CallbackStep(c)
    PROVE  Kinds'
<1> USE DEF Kinds, TypeOK, Handling
<1> DEFINE Plain ==
      /\ active_epoch' \in 1..MaxEpoch
      /\ last_scan' \in [epoch: 1..MaxEpoch, sequence: 0..MaxSequence]
      /\ {ingress_lock', transition_lock'} \subseteq Callbacks \cup {None}
      /\ ready' \in Scan \cup {None}
      /\ {epoch_ready', in_flight', resetting', accepting', fatal'} \subseteq BOOLEAN
      /\ highest_admitted_key' \in 0..MaxStamp
      /\ UNCHANGED <<messages, worker, shutdown, mapped, world>>
<1>0. SUFFICES callback' \in [Callbacks -> Handling] /\ Plain
  <2>1. \A d \in Callbacks : callback'[d] \in Handling
    BY Zenon
  <2> QED
    BY Zenon, <2>1 DEF Pcs
<1> USE DEF Pcs, workerVars
<1>1. CASE EnterIngress(c)
  BY <1>1, GotoMoves DEF EnterIngress
<1>2. CASE OldEpoch(c)
  BY Zenon, <1>2, ReturnIdles DEF OldEpoch
<1>3. CASE ResetEpoch(c)
  <2>1. callback' \in [Callbacks -> Handling]
    BY Zenon, <1>3, GotoMoves DEF ResetEpoch
  <2>2. callback[c].epoch \in 1..MaxEpoch
    BY <1>3 DEF ResetEpoch
  <2>3. last_scan' \in [epoch: 1..MaxEpoch, sequence: 0..MaxSequence]
    BY <1>3, <2>2, MappingIngressAssumption DEF ResetEpoch
  <2> QED
    BY Zenon, <1>3, <2>1, <2>2, <2>3 DEF ResetEpoch
<1>4. CASE CurrentEpoch(c)
  BY <1>4, GotoMoves DEF CurrentEpoch
<1>5. CASE BeginDrain(c)
  BY Zenon, <1>5, GotoMoves DEF BeginDrain
<1>6. CASE EndDrain(c)
  <2>1. 0 \in 0..MaxStamp
    BY MappingIngressAssumption
  <2> QED
    BY Zenon, <1>6, <2>1, GotoMoves DEF EndDrain
<1>7. CASE Relock(c)
  BY <1>7, GotoMoves, ReturnIdles DEF Relock
<1>8. CASE RejectSequence(c)
  BY Zenon, <1>8, ReturnIdles DEF RejectSequence
<1>9. CASE DiscardScan(c)
  BY Zenon, <1>9, ReturnIdles DEF DiscardScan, EndCallback
<1>10. CASE ValidationThrows(c)
  BY Zenon, <1>10, ReturnIdles DEF ValidationThrows, EndCallback
<1>11. CASE AcceptScan(c)
  <2>0. callback[c].scan # None /\ callback[c].epoch \in 1..MaxEpoch
    BY Zenon, <1>11 DEF AcceptScan, LockInv
  <2>1. callback' \in [Callbacks -> Handling]
    BY Zenon, <1>11, GotoMoves DEF AcceptScan
  <2>2. callback[c].scan.sequence \in 0..MaxSequence
    BY <2>0 DEF Scan
  <2> QED
    BY Zenon, <1>11, <2>0, <2>1, <2>2 DEF AcceptScan
<1>12. CASE SubmitScan(c)
  <2>0. callback[c].scan # None
    BY Zenon, <1>12 DEF SubmitScan, LockInv
  <2>1. callback' \in [Callbacks -> Handling]
    BY Zenon, <1>12, ReturnIdles DEF SubmitScan, EndCallback
  <2>2. callback[c].scan \in Scan /\ callback[c].scan.stamp \in 0..MaxStamp
    BY <2>0 DEF Scan
  <2> QED
    BY Zenon, <1>12, <2>1, <2>2 DEF SubmitScan, EndCallback
<1> QED
  BY Zenon, <1>1, <1>2, <1>3, <1>4, <1>5, <1>6, <1>7, <1>8, <1>9, <1>10, <1>11, <1>12
     DEF CallbackStep

LEMMA ArrivalsKeepKinds ==
    ASSUME Kinds, NEW c \in Callbacks, ScanArrives(c) \/ EpochAnnounced(c)
    PROVE  Kinds'
<1> USE DEF Kinds, TypeOK, workerVars
<1>1. messages' \in 0..MaxMessages
  BY MappingIngressAssumption DEF ScanArrives, EpochAnnounced
<1>2. callback' \in [Callbacks -> Handling]
  <2>1. CASE UNCHANGED callback
    BY Zenon, <2>1
  <2>2. CASE \E scan \in Scan :
          callback' = [callback EXCEPT ![c] =
                         [pc |-> "arrived", scan |-> scan, epoch |-> scan.epoch]]
    <3>1. \A scan \in Scan : scan.epoch \in 1..MaxEpoch
      BY Zenon DEF Scan
    <3> QED
      BY Zenon, <2>2, <3>1, ArrivalsHandled
  <2>3. CASE \E epoch \in 1..MaxEpoch :
          callback' = [callback EXCEPT ![c] =
                         [pc |-> "arrived", scan |-> None, epoch |-> epoch]]
    BY Zenon, <2>3, ArrivalsHandled
  <2> QED
    BY Zenon, <2>1, <2>2, <2>3 DEF ScanArrives, EpochAnnounced
<1>3. \A d \in Callbacks : callback'[d] \in Handling
  BY Zenon, <1>2
<1>4. UNCHANGED <<active_epoch, last_scan, ingress_lock, workerVars, epoch_ready,
                  transition_lock, shutdown, mapped, world>>
  BY Zenon DEF ScanArrives, EpochAnnounced
<1> QED
  BY Zenon, <1>1, <1>2, <1>3, <1>4 DEF Handling, Pcs

LEMMA WorkerKeepsKinds ==
    ASSUME Kinds, WorkerInv, WorkerStep
    PROVE  Kinds'
<1> USE DEF Kinds, TypeOK, WorkerPcs, WorkerQuiet, callbackVars
<1>1. CASE TakeScan
  <2>1. worker' \in [pc: WorkerPcs, scan: Scan \cup {None}]
    BY <1>1 DEF TakeScan
  <2> QED
    BY Zenon, <1>1, <2>1 DEF TakeScan
<1>2. CASE MapScan
  <2>0. worker.scan # None
    BY Zenon, <1>2 DEF MapScan, WorkerInv
  <2>1. worker' \in [pc: WorkerPcs, scan: Scan \cup {None}]
    BY Zenon, <1>2 DEF MapScan
  <2>2. mapped' \in [epoch: 1..MaxEpoch, sequence: 0..MaxSequence, stamp: 0..MaxStamp]
    BY <1>2, <2>0 DEF MapScan, Scan
  <2> QED
    BY Zenon, <1>2, <2>1, <2>2 DEF MapScan
<1>3. CASE PublishWorld
  <2>0. worker.scan # None
    BY Zenon, <1>3 DEF PublishWorld, WorkerInv
  <2>1. worker' \in [pc: WorkerPcs, scan: Scan \cup {None}]
    BY Zenon, <1>3 DEF PublishWorld
  <2>2. world' \in [epoch: 1..MaxEpoch, stamp: 0..MaxStamp]
    BY <1>3, <2>0 DEF PublishWorld, Scan
  <2> QED
    BY Zenon, <1>3, <2>1, <2>2 DEF PublishWorld
<1>4. CASE ProcessThrows
  BY Zenon, <1>4 DEF ProcessThrows
<1>5. CASE CountPublished
  BY Zenon, <1>5 DEF CountPublished
<1>6. CASE FinishScan
  BY Zenon, <1>6 DEF FinishScan
<1>7. CASE WorkerFails
  BY Zenon, <1>7 DEF WorkerFails
<1>8. CASE WorkerStops
  BY Zenon, <1>8 DEF WorkerStops
<1> QED
  BY Zenon, <1>1, <1>2, <1>3, <1>4, <1>5, <1>6, <1>7, <1>8 DEF WorkerStep

LEMMA ClosingKeepsKinds ==
    ASSUME Kinds, CloseIngress \/ ShutdownStep
    PROVE  Kinds'
BY Zenon DEF Kinds, TypeOK, CloseIngress, ShutdownStep, StartShutdown, RequestStop, JoinWorker,
       Closing, callbackVars

----------------------------------------------------------------------------
(* The mutexes and the worker                                              *)

\* A callback enters the ingress alone, so the others do not move while the active
\* epoch changes.
LEMMA CallbacksKeepLocks ==
    ASSUME Kinds, LockInv, NEW c \in Callbacks, CallbackStep(c)
    PROVE  LockInv'
<1>0. None \notin Callbacks /\ callback \in [Callbacks -> Handling]
  BY Zenon, MappingIngressAssumption DEF Kinds
<1>1. CASE EnterIngress(c)
  BY <1>0, <1>1, GotoMoves DEF EnterIngress, LockInv, Pcs
<1>2. CASE OldEpoch(c)
  BY <1>0, <1>2, ReturnIdles DEF OldEpoch, LockInv
<1>3. CASE ResetEpoch(c)
  BY <1>0, <1>3, GotoMoves DEF ResetEpoch, LockInv, Pcs
<1>4. CASE CurrentEpoch(c)
  BY <1>0, <1>4, GotoMoves DEF CurrentEpoch, LockInv, Pcs
<1>5. CASE BeginDrain(c)
  BY <1>0, <1>5, GotoMoves DEF BeginDrain, LockInv, Pcs
<1>6. CASE EndDrain(c)
  BY <1>0, <1>6, GotoMoves DEF EndDrain, LockInv, Pcs
<1>7. CASE Relock(c) /\ callback[c].scan = None
  BY <1>0, <1>7, ReturnIdles DEF Relock, LockInv
<1>8. CASE Relock(c) /\ callback[c].scan # None
  BY <1>0, <1>8, GotoMoves DEF Relock, LockInv, Pcs
<1>9. CASE RejectSequence(c)
  BY <1>0, <1>9, ReturnIdles DEF RejectSequence, LockInv
<1>10. CASE AcceptScan(c)
  BY <1>0, <1>10, GotoMoves DEF AcceptScan, LockInv, Pcs
<1>11. CASE DiscardScan(c) \/ ValidationThrows(c) \/ SubmitScan(c)
  <2>1. /\ callback[c].pc = "accepted" /\ EndCallback(c)
    BY Zenon, <1>11 DEF DiscardScan, ValidationThrows, SubmitScan
  <2> QED
    BY <1>0, <2>1, ReturnIdles DEF EndCallback, LockInv
<1> QED
  BY Zenon, <1>1, <1>2, <1>3, <1>4, <1>5, <1>6, <1>7, <1>8, <1>9, <1>10, <1>11 DEF CallbackStep

LEMMA ArrivalsKeepLocks ==
    ASSUME Kinds, LockInv, NEW c \in Callbacks, ScanArrives(c) \/ EpochAnnounced(c)
    PROVE  LockInv'
<1>0. /\ callback[c].pc = "idle" /\ callback \in [Callbacks -> Handling]
      /\ UNCHANGED <<active_epoch, last_scan, ingress_lock, transition_lock>>
  BY Zenon DEF ScanArrives, EpochAnnounced, Kinds
<1>1. CASE UNCHANGED callback
  BY Zenon, <1>0, <1>1 DEF LockInv
<1>2. CASE \E scan \in Scan :
        callback' = [callback EXCEPT ![c] =
                       [pc |-> "arrived", scan |-> scan, epoch |-> scan.epoch]]
  <2>1. PICK scan \in Scan :
          callback' = [callback EXCEPT ![c] =
                         [pc |-> "arrived", scan |-> scan, epoch |-> scan.epoch]]
    BY Zenon, <1>2
  <2>2. scan.epoch \in 1..MaxEpoch
    BY Zenon DEF Scan
  <2>3. /\ callback'[c].pc = "arrived" /\ callback'[c].scan.epoch = callback'[c].epoch
        /\ \A d \in Callbacks \ {c} : callback'[d] = callback[d]
    BY <1>0, <2>1, <2>2, ArrivalsHandled
  <2> QED
    BY <1>0, <2>3 DEF LockInv
<1>3. CASE \E epoch \in 1..MaxEpoch :
        callback' = [callback EXCEPT ![c] =
                       [pc |-> "arrived", scan |-> None, epoch |-> epoch]]
  <2>1. /\ callback'[c].pc = "arrived" /\ callback'[c].scan = None
        /\ \A d \in Callbacks \ {c} : callback'[d] = callback[d]
    BY Zenon, <1>0, <1>3, ArrivalsHandled
  <2> QED
    BY <1>0, <2>1 DEF LockInv
<1> QED
  BY Zenon, <1>1, <1>2, <1>3 DEF ScanArrives, EpochAnnounced

LEMMA WorkerKeepsWorker ==
    ASSUME Kinds, WorkerInv, WorkerStep
    PROVE  WorkerInv'
<1> USE MappingIngressAssumption DEF Kinds, TypeOK, WorkerPcs, WorkerInv, WorkerStep
<1>1. CASE TakeScan
  BY <1>1 DEF TakeScan
<1>2. CASE MapScan
  BY Zenon, <1>2 DEF MapScan
<1>3. CASE PublishWorld
  BY Zenon, <1>3 DEF PublishWorld
<1>4. CASE ProcessThrows
  BY Zenon, <1>4 DEF ProcessThrows
<1>5. CASE CountPublished
  BY Zenon, <1>5 DEF CountPublished
<1>6. CASE FinishScan \/ WorkerFails \/ WorkerStops
  BY <1>6 DEF FinishScan, WorkerFails, WorkerStops
<1> QED
  BY Zenon, <1>1, <1>2, <1>3, <1>4, <1>5, <1>6

----------------------------------------------------------------------------
(* The drain of a reset                                                    *)

\* The epochs, sequence numbers and stamps that are compared are numbers.
LEMMA ObservationsAreNumbered ==
    ASSUME Kinds
    PROVE  /\ active_epoch \in Nat /\ highest_admitted_key \in Nat /\ last_scan.sequence \in Nat
           /\ \A o \in Observations : o.epoch \in Nat /\ o.sequence \in Nat /\ o.stamp \in Nat
           /\ \A c \in Callbacks :
                /\ callback[c].epoch \in Nat
                /\ callback[c].scan \in Scan \cup {None}
           /\ \A scan \in Scan : scan.epoch \in Nat /\ scan.sequence \in Nat /\ scan.stamp \in Nat
           /\ world.epoch \in Nat /\ world.stamp \in Nat
<1>1. \A scan \in Scan : scan.epoch \in Nat /\ scan.sequence \in Nat /\ scan.stamp \in Nat
  BY DEF Scan
<1>2. mapped.epoch \in Nat /\ mapped.sequence \in Nat /\ mapped.stamp \in Nat
  BY DEF Kinds, TypeOK
<1>3. Held \subseteq Scan
  BY Zenon DEF Kinds, TypeOK, Held
<1>4. /\ active_epoch \in Nat /\ highest_admitted_key \in Nat /\ last_scan.sequence \in Nat
      /\ world.epoch \in Nat /\ world.stamp \in Nat
  BY DEF Kinds, TypeOK
<1>5. \A c \in Callbacks : callback[c].epoch \in Nat /\ callback[c].scan \in Scan \cup {None}
  BY DEF Kinds, Handling
<1> QED
  BY Zenon, <1>1, <1>2, <1>3, <1>4, <1>5 DEF Observations

\* A step that keeps the scans, or empties the READY slot, and begins and ends no drain.
LEMMA DrainUndisturbed ==
    ASSUME DrainInv, ready' \in {ready, None}, UNCHANGED <<active_epoch, worker, mapped, shutdown>>,
           accepting' => accepting,
           \A d \in Callbacks : /\ callback'[d].pc \in {"draining", "barrier"}
                                   <=> callback[d].pc \in {"draining", "barrier"}
                                /\ callback'[d].pc = "barrier"
                                   => callback[d].pc = "barrier" \/ ready' = None
    PROVE  DrainInv'
<1>1. Observations' \subseteq Observations
  BY Zenon DEF Observations, Held
<1>2. ShutdownStarted' = ShutdownStarted
  BY Zenon DEF ShutdownStarted
<1>3. OldScansDrained'
  BY Zenon, <1>2 DEF DrainInv, OldScansDrained
<1> QED
  BY Zenon, <1>1, <1>2, <1>3 DEF DrainInv

LEMMA CallbacksKeepDrain ==
    ASSUME Kinds, LockInv, WorkerInv, DrainInv, NEW c \in Callbacks, CallbackStep(c)
    PROVE  DrainInv'
<1>0. /\ callback \in [Callbacks -> Handling]
      /\ \A d \in Callbacks \ {c} : callback[c].pc \notin {"idle", "arrived"}
           => callback[d].pc \in {"idle", "arrived"}
  BY Zenon, MappingIngressAssumption DEF LockInv, Kinds, Handling, Pcs
<1>1. CASE \/ EnterIngress(c) \/ CurrentEpoch(c) \/ (Relock(c) /\ callback[c].scan # None)
           \/ AcceptScan(c)
  <2>1. UNCHANGED <<active_epoch, workerVars, mapped, shutdown>>
    BY Zenon, <1>1 DEF EnterIngress, CurrentEpoch, Relock, AcceptScan
  <2>2. /\ callback[c].pc \notin {"draining", "barrier"}
        /\ Goto(c, "entered") \/ Goto(c, "locked") \/ Goto(c, "accepted")
    BY Zenon, <1>1 DEF EnterIngress, CurrentEpoch, Relock, AcceptScan
  <2>3. /\ callback'[c].pc \notin {"draining", "barrier"}
        /\ \A d \in Callbacks \ {c} : callback'[d] = callback[d]
    BY Zenon, <1>0, <2>2, GotoMoves DEF Pcs
  <2> QED
    BY Zenon, <2>1, <2>2, <2>3, DrainUndisturbed DEF workerVars
<1>2. CASE \/ OldEpoch(c) \/ (Relock(c) /\ callback[c].scan = None) \/ RejectSequence(c)
           \/ DiscardScan(c) \/ ValidationThrows(c)
  <2>1. /\ UNCHANGED <<active_epoch, ready, worker, mapped, shutdown>>
        /\ accepting' => accepting
    BY <1>2 DEF OldEpoch, Relock, RejectSequence, DiscardScan, ValidationThrows, EndCallback,
                workerVars
  <2>2. callback[c].pc \notin {"draining", "barrier"} /\ Return(c)
    BY Zenon, <1>2 DEF OldEpoch, Relock, RejectSequence, DiscardScan, ValidationThrows, EndCallback
  <2>3. /\ callback'[c].pc = "idle"
        /\ \A d \in Callbacks \ {c} : callback'[d] = callback[d]
    BY Zenon, <1>0, <2>2, ReturnIdles
  <2> QED
    BY Zenon, <2>1, <2>2, <2>3, DrainUndisturbed
<1>3. CASE ResetEpoch(c)
  <2>1. /\ UNCHANGED <<ready, worker, mapped, shutdown, accepting>>
        /\ active_epoch' = callback[c].epoch /\ callback[c].epoch > active_epoch
        /\ callback[c].pc = "entered" /\ Goto(c, "draining")
    BY Zenon, <1>3 DEF ResetEpoch, workerVars
  <2>2. /\ callback'[c].pc = "draining"
        /\ \A d \in Callbacks \ {c} : callback'[d].pc \in {"idle", "arrived"}
    BY Zenon, <1>0, <2>1, GotoMoves DEF Pcs
  <2>3. \A o \in Observations' : o.epoch < active_epoch' /\ o.epoch <= active_epoch'
    <3>1. Observations' = Observations
      BY Zenon, <2>1 DEF Observations, Held
    <3> QED
      BY <2>1, <3>1, ObservationsAreNumbered DEF DrainInv
  <2>4. OldScansDrained'
    BY Zenon, <2>2 DEF OldScansDrained
  <2>5. ShutdownStarted' => ~accepting'
    BY Zenon, <2>1 DEF DrainInv, ShutdownStarted
  <2> QED
    BY Zenon, <2>2, <2>3, <2>4, <2>5 DEF DrainInv
<1>4. CASE BeginDrain(c) /\ ~ShutdownStarted
  <2>1. /\ UNCHANGED <<active_epoch, worker, mapped, shutdown, accepting>> /\ ready' = None
        /\ callback[c].pc = "draining" /\ Goto(c, "barrier")
    BY Zenon, <1>4 DEF BeginDrain
  <2>2. /\ callback'[c].pc = "barrier"
        /\ \A d \in Callbacks \ {c} : callback'[d] = callback[d]
    BY Zenon, <1>0, <2>1, GotoMoves DEF Pcs
  <2> QED
    BY Zenon, <2>1, <2>2, DrainUndisturbed
<1>5. CASE EndDrain(c) \/ (BeginDrain(c) /\ ShutdownStarted)
  <2>1. /\ UNCHANGED <<active_epoch, ready, worker, mapped, shutdown, accepting>>
        /\ callback[c].pc \in {"draining", "barrier"} /\ Goto(c, "drained")
        /\ ShutdownStarted \/ (~in_flight /\ callback[c].pc = "barrier")
    BY Zenon, <1>5 DEF EndDrain, BeginDrain
  <2>2. \A d \in Callbacks : callback'[d].pc \in {"idle", "arrived", "drained"}
    BY <1>0, <2>1, GotoMoves DEF Pcs
  <2>3. ShutdownStarted' = ShutdownStarted
    BY Zenon, <2>1 DEF ShutdownStarted
  <2>4. Observations' = Observations
    BY Zenon, <2>1 DEF Observations, Held
  <2>5. ShutdownStarted \/ (ready' = None /\ worker'.scan = None)
    BY Zenon, <2>1 DEF DrainInv, WorkerInv
  <2>6. OldScansDrained'
    BY <2>3, <2>5 DEF OldScansDrained
  <2> QED
    BY Zenon, <2>1, <2>2, <2>3, <2>4, <2>6 DEF DrainInv
<1>6. CASE SubmitScan(c)
  <2> DEFINE scan == callback[c].scan
  <2>1. /\ UNCHANGED <<active_epoch, worker, mapped, shutdown, accepting>>
        /\ callback[c].pc = "accepted" /\ Return(c) /\ ready' = scan
    BY Zenon, <1>6 DEF SubmitScan, EndCallback
  <2>2. scan # None /\ scan.epoch = active_epoch
    BY Zenon, <2>1 DEF LockInv
  <2>3. \A d \in Callbacks : /\ callback[d].pc \notin {"draining", "barrier"}
                             /\ callback'[d].pc \notin {"draining", "barrier"}
    BY Zenon, <1>0, <2>1, ReturnIdles
  <2>4. ShutdownStarted' = ShutdownStarted
    BY Zenon, <2>1 DEF ShutdownStarted
  <2>5. Observations' \subseteq Observations \cup {scan}
    BY Zenon, <2>1 DEF Observations, Held
  <2> HIDE DEF scan
  <2>6. OldScansDrained'
    BY Zenon, <2>1, <2>2, <2>3, <2>4 DEF DrainInv, OldScansDrained
  <2>7. \A o \in Observations' : o.epoch <= active_epoch'
    BY <2>1, <2>2, <2>5, ObservationsAreNumbered DEF DrainInv
  <2> QED
    BY Zenon, <2>1, <2>3, <2>4, <2>6, <2>7 DEF DrainInv
<1> QED
  BY Zenon, <1>1, <1>2, <1>3, <1>4, <1>5, <1>6 DEF CallbackStep

\* The worker starts only a scan of the active epoch, so it takes none of an old
\* epoch during a drain.
LEMMA WorkerKeepsDrain ==
    ASSUME Kinds, WorkerInv, DrainInv, WorkerStep
    PROVE  DrainInv'
<1> USE ObservationsAreNumbered DEF Observations, Held, DrainInv, OldScansDrained,
        ShutdownStarted, WorkerQuiet, callbackVars
<1>1. CASE TakeScan
  <2>1. \A verdict \in Verdict(ready) : verdict = "valid" => ready.epoch = active_epoch
    BY Zenon DEF Verdict
  <2> QED
    BY <1>1, <2>1 DEF TakeScan
<1>2. CASE MapScan
  <2>1. worker.scan # None
    BY Zenon, <1>2 DEF MapScan, WorkerInv
  <2>2. worker'.scan = worker.scan
    BY Zenon, <1>2 DEF MapScan, Kinds
  <2> QED
    BY Zenon, <1>2, <2>1, <2>2 DEF MapScan
<1>3. CASE PublishWorld \/ ProcessThrows \/ CountPublished
  <2>1. worker'.scan = worker.scan
    BY Zenon, <1>3 DEF PublishWorld, ProcessThrows, CountPublished, Kinds
  <2> QED
    BY <1>3, <2>1 DEF PublishWorld, ProcessThrows, CountPublished
<1>4. CASE FinishScan \/ WorkerFails \/ WorkerStops
  BY <1>4 DEF FinishScan, WorkerFails, WorkerStops
<1> QED
  BY Zenon, <1>1, <1>2, <1>3, <1>4 DEF WorkerStep

----------------------------------------------------------------------------
(* The order in which scans reach the map                                  *)

\* A step that leaves the scans alone, or empties the READY slot, and accepts none.
LEMMA OrderUndisturbed ==
    ASSUME OrderInv, ready' \in {ready, None},
           UNCHANGED <<active_epoch, last_scan, highest_admitted_key, worker, mapped, world>>,
           \A d \in Callbacks : callback'[d].pc = "accepted" => callback'[d] = callback[d]
    PROVE  OrderInv'
<1>1. Observations' \subseteq Observations
  BY Zenon DEF Observations, Held
<1>2. \A o \in Observations' : o.epoch = active_epoch' =>
        /\ o.stamp <= highest_admitted_key' /\ o.sequence <= last_scan'.sequence
        /\ \A d \in Callbacks : callback'[d].pc = "accepted"
             => o.sequence < callback'[d].scan.sequence
  BY Zenon, <1>1 DEF OrderInv
<1>3. ready' # None => ready' = ready
  BY Zenon
<1> QED
  BY Zenon, <1>2, <1>3 DEF OrderInv, Follows

\* A step after which every scan is of an earlier epoch.
LEMMA OrderAfterReset ==
    ASSUME Kinds, OrderInv, UNCHANGED <<ready, worker, mapped, world>>, active_epoch' \in Nat,
           \A o \in Observations : o.epoch < active_epoch'
    PROVE  OrderInv'
<1>1. Observations' = Observations
  BY Zenon DEF Observations, Held
<1>2. \A o \in Observations' : o.epoch # active_epoch'
  BY <1>1, ObservationsAreNumbered
<1> QED
  BY Zenon, <1>2 DEF OrderInv, Follows

LEMMA CallbacksKeepOrder ==
    ASSUME Kinds, LockInv, WorkerInv, DrainInv, OrderInv, NEW c \in Callbacks, CallbackStep(c)
    PROVE  OrderInv'
<1>0. /\ callback \in [Callbacks -> Handling]
      /\ \A d \in Callbacks \ {c} : callback[c].pc \notin {"idle", "arrived"}
           => callback[d].pc \in {"idle", "arrived"}
  BY Zenon, MappingIngressAssumption DEF LockInv, Kinds, Handling, Pcs
<1>1. CASE EnterIngress(c) \/ CurrentEpoch(c) \/ (Relock(c) /\ callback[c].scan # None)
  <2>1. UNCHANGED <<active_epoch, last_scan, workerVars, mapped, world>>
    BY Zenon, <1>1 DEF EnterIngress, CurrentEpoch, Relock
  <2>2. Goto(c, "entered") \/ Goto(c, "locked")
    BY Zenon, <1>1 DEF EnterIngress, CurrentEpoch, Relock
  <2>3. \A d \in Callbacks : callback'[d].pc = "accepted" => callback'[d] = callback[d]
    BY Zenon, <1>0, <2>2, GotoMoves DEF Pcs
  <2> QED
    BY Zenon, <2>1, <2>3, OrderUndisturbed DEF workerVars
<1>2. CASE \/ OldEpoch(c) \/ (Relock(c) /\ callback[c].scan = None) \/ RejectSequence(c)
           \/ DiscardScan(c) \/ ValidationThrows(c)
  <2>1. UNCHANGED <<active_epoch, last_scan, ready, highest_admitted_key, worker, mapped, world>>
    BY Zenon, <1>2 DEF OldEpoch, Relock, RejectSequence, DiscardScan, ValidationThrows, EndCallback,
                workerVars
  <2>2. Return(c)
    BY Zenon, <1>2 DEF OldEpoch, Relock, RejectSequence, DiscardScan, ValidationThrows, EndCallback
  <2>3. \A d \in Callbacks : callback'[d].pc = "accepted" => callback'[d] = callback[d]
    BY Zenon, <1>0, <2>2, ReturnIdles
  <2> QED
    BY Zenon, <2>1, <2>3, OrderUndisturbed
<1>3. CASE ResetEpoch(c)
  <2>1. /\ UNCHANGED <<ready, worker, mapped, world>>
        /\ active_epoch' = callback[c].epoch /\ callback[c].epoch > active_epoch
    BY Zenon, <1>3 DEF ResetEpoch, workerVars
  <2>2. \A o \in Observations : o.epoch < active_epoch'
    BY <2>1, ObservationsAreNumbered DEF DrainInv
  <2> QED
    BY Zenon, <2>1, <2>2, ObservationsAreNumbered, OrderAfterReset
<1>4. CASE BeginDrain(c)
  <2>1. /\ UNCHANGED <<active_epoch, last_scan, highest_admitted_key, worker, mapped, world>>
        /\ ready' \in {ready, None}
    BY Zenon, <1>4 DEF BeginDrain
  <2>2. Goto(c, "drained") \/ Goto(c, "barrier")
    BY Zenon, <1>4 DEF BeginDrain
  <2>3. \A d \in Callbacks : callback'[d].pc = "accepted" => callback'[d] = callback[d]
    BY Zenon, <1>0, <2>2, GotoMoves DEF Pcs
  <2> QED
    BY Zenon, <2>1, <2>3, OrderUndisturbed
<1>5. CASE EndDrain(c)
  <2>1. UNCHANGED <<active_epoch, ready, worker, mapped, world>> /\ callback[c].pc = "barrier"
    BY Zenon, <1>5 DEF EndDrain
  <2>2. \A o \in Observations : o.epoch < active_epoch'
    BY Zenon, <2>1 DEF DrainInv
  <2> QED
    BY Zenon, <2>1, <2>2, ObservationsAreNumbered, OrderAfterReset
<1>6. CASE AcceptScan(c)
  <2>1. /\ UNCHANGED <<active_epoch, workerVars, mapped, world>>
        /\ callback[c].pc = "locked" /\ Goto(c, "accepted")
        /\ last_scan'.sequence = callback[c].scan.sequence
    BY Zenon, <1>6 DEF AcceptScan
  <2>2. callback[c].scan \in Scan /\ callback[c].scan.epoch = last_scan.epoch
    BY Zenon, <2>1, ObservationsAreNumbered DEF LockInv
  <2>3. callback[c].scan.sequence > last_scan.sequence
    <3>1. ~(callback[c].scan.sequence <= last_scan.sequence)
      BY Zenon, <1>6, <2>2 DEF AcceptScan, StaleSequence
    <3>2. callback[c].scan.sequence \in Nat /\ last_scan.sequence \in Nat
      BY Zenon, <2>2, ObservationsAreNumbered
    <3> QED
      BY <3>1, <3>2
  <2>4. \A d \in Callbacks : callback'[d].pc = "accepted"
          => callback'[d].scan.sequence = last_scan'.sequence
    BY Zenon, <1>0, <2>1, GotoMoves DEF Pcs
  <2>5. Observations' = Observations
    BY Zenon, <2>1 DEF Observations, Held, workerVars
  <2>6. \A o \in Observations : o.epoch = active_epoch =>
          o.stamp <= highest_admitted_key /\ o.sequence < last_scan'.sequence
    BY <2>1, <2>2, <2>3, ObservationsAreNumbered DEF OrderInv
  <2>7. \A o \in Observations' : o.epoch = active_epoch' =>
          /\ o.stamp <= highest_admitted_key' /\ o.sequence <= last_scan'.sequence
          /\ \A d \in Callbacks : callback'[d].pc = "accepted"
               => o.sequence < callback'[d].scan.sequence
    BY <2>1, <2>2, <2>4, <2>5, <2>6, ObservationsAreNumbered DEF workerVars
  <2> QED
    BY Zenon, <2>1, <2>7 DEF OrderInv, Follows, workerVars
<1>7. CASE SubmitScan(c)
  <2> DEFINE scan == callback[c].scan
  <2>1. /\ UNCHANGED <<active_epoch, last_scan, worker, mapped, world>>
        /\ callback[c].pc = "accepted" /\ Return(c)
        /\ ready' = scan /\ highest_admitted_key' = scan.stamp
        /\ scan.stamp > highest_admitted_key
    BY Zenon, <1>7 DEF SubmitScan, EndCallback
  <2>2. scan \in Scan /\ scan.epoch = active_epoch /\ scan.sequence = last_scan.sequence
    BY Zenon, <2>1, ObservationsAreNumbered DEF LockInv
  <2>3. \A o \in Observations : o.epoch = active_epoch =>
          o.stamp < scan.stamp /\ o.sequence < scan.sequence
    <3>1. \A o \in Observations : o.epoch = active_epoch =>
            o.stamp <= highest_admitted_key /\ o.sequence < scan.sequence
      BY Zenon, <2>1 DEF OrderInv
    <3>2. /\ scan.stamp \in Nat /\ highest_admitted_key \in Nat
          /\ \A o \in Observations : o.stamp \in Nat
      BY Zenon, <2>2, ObservationsAreNumbered
    <3> QED
      BY <2>1, <3>1, <3>2
  <2>4. \A o \in Observations : Follows(scan, o)
    BY <2>2, <2>3, ObservationsAreNumbered DEF DrainInv, Follows
  <2>5. \A d \in Callbacks : callback'[d].pc # "accepted"
    BY Zenon, <1>0, <2>1, ReturnIdles
  <2>6. Observations' \subseteq Observations \cup {scan}
    BY Zenon, <2>1 DEF Observations, Held
  <2>7. \A o \in Observations \cup {scan} : o.epoch = active_epoch =>
          o.stamp <= scan.stamp /\ o.sequence <= last_scan.sequence
    BY <2>2, <2>3, ObservationsAreNumbered
  <2>8. /\ Follows(scan, mapped)
        /\ worker.scan # None => Follows(scan, worker.scan)
    BY Zenon, <2>4 DEF Observations, Held
  <2> HIDE DEF scan
  <2> QED
    BY Zenon, <2>1, <2>5, <2>6, <2>7, <2>8 DEF OrderInv, Follows
<1> QED
  BY Zenon, <1>1, <1>2, <1>3, <1>4, <1>5, <1>6, <1>7 DEF CallbackStep

LEMMA WorkerKeepsOrder ==
    ASSUME Kinds, WorkerInv, OrderInv, WorkerStep
    PROVE  OrderInv'
<1> USE ObservationsAreNumbered DEF Observations, Held, OrderInv, Follows, WorkerQuiet,
        callbackVars
<1>1. CASE TakeScan
  <2>1. worker.scan = None
    BY Zenon, <1>1 DEF TakeScan, WorkerInv
  <2> QED
    BY <1>1, <2>1 DEF TakeScan
<1>2. CASE MapScan
  <2>1. worker.scan # None
    BY Zenon, <1>2 DEF MapScan, WorkerInv
  <2>2. worker'.scan = worker.scan /\ worker'.pc = "mapped"
    BY Zenon, <1>2 DEF MapScan, Kinds
  <2> QED
    BY <1>2, <2>1, <2>2 DEF MapScan
<1>3. CASE PublishWorld
  <2>1. worker'.scan = worker.scan /\ worker'.pc = "processed" /\ mapped = worker.scan
    BY Zenon, <1>3 DEF PublishWorld, Kinds, WorkerInv
  <2> QED
    BY <1>3, <2>1 DEF PublishWorld
<1>4. CASE ProcessThrows \/ CountPublished
  <2>1. worker'.scan = worker.scan /\ worker'.pc # "processing"
    BY Zenon, <1>4 DEF ProcessThrows, CountPublished, Kinds
  <2> QED
    BY Zenon, <1>4, <2>1 DEF ProcessThrows, CountPublished
<1>5. CASE FinishScan \/ WorkerFails \/ WorkerStops
  BY <1>5 DEF FinishScan, WorkerFails, WorkerStops
<1> QED
  BY Zenon, <1>1, <1>2, <1>3, <1>4, <1>5 DEF WorkerStep

----------------------------------------------------------------------------
(* The invariant                                                           *)

\* An arriving message touches nothing but its own thread's place.
LEMMA ArrivalsKeepRest ==
    ASSUME IngressInv, NEW c \in Callbacks, ScanArrives(c) \/ EpochAnnounced(c)
    PROVE  WorkerInv' /\ DrainInv' /\ OrderInv'
<1>1. UNCHANGED <<active_epoch, last_scan, workerVars, shutdown, mapped, world>>
  BY Zenon DEF ScanArrives, EpochAnnounced
<1>2. \A d \in Callbacks : callback'[d].pc \in {"idle", "arrived"} \/ callback'[d] = callback[d]
  <2>1. callback[c].pc = "idle"
    BY Zenon DEF ScanArrives, EpochAnnounced
  <2>2. CASE UNCHANGED callback
    BY Zenon, <2>2
  <2>3. CASE \E scan \in Scan \cup {None}, epoch \in 1..MaxEpoch :
          callback' = [callback EXCEPT ![c] =
                         [pc |-> "arrived", scan |-> scan, epoch |-> epoch]]
    BY Zenon, <2>3, ArrivalsHandled DEF IngressInv, Kinds
  <2>4. \A scan \in Scan : scan.epoch \in 1..MaxEpoch
    BY Zenon DEF Scan
  <2> QED
    BY Zenon, <2>2, <2>3, <2>4 DEF ScanArrives, EpochAnnounced
<1>3. \A d \in Callbacks : callback[d].pc \in {"draining", "barrier"}
                          => callback'[d].pc = callback[d].pc
  <2>1. callback[c].pc = "idle"
    BY Zenon DEF ScanArrives, EpochAnnounced
  <2>2. \A d \in Callbacks \ {c} : callback'[d] = callback[d]
    BY Zenon DEF ScanArrives, EpochAnnounced, IngressInv, Kinds
  <2> QED
    BY Zenon, <2>1, <2>2
<1>4. WorkerInv'
  BY Zenon, <1>1 DEF IngressInv, WorkerInv, workerVars
<1>5. DrainInv'
  BY Zenon, <1>1, <1>2, <1>3 DEF IngressInv, DrainInv, OldScansDrained, Observations, Held,
                          ShutdownStarted, workerVars
<1>6. OrderInv'
  <2>1. \A d \in Callbacks : callback'[d].pc = "accepted" => callback'[d] = callback[d]
    BY Zenon, <1>2
  <2>2. UNCHANGED <<active_epoch, last_scan, highest_admitted_key, worker, ready, mapped, world>>
    BY Zenon, <1>1 DEF workerVars
  <2> QED
    BY Zenon, <2>1, <2>2, OrderUndisturbed DEF IngressInv
<1> QED
  BY Zenon, <1>4, <1>5, <1>6

\* Neither do the destructor's steps, which only close the worker's door.
LEMMA ClosingKeepsRest ==
    ASSUME IngressInv, CloseIngress \/ ShutdownStep
    PROVE  LockInv' /\ WorkerInv' /\ DrainInv' /\ OrderInv'
<1>1. /\ UNCHANGED <<callbackVars, epoch_ready, transition_lock, mapped, world, ready, in_flight,
                     highest_admitted_key, worker>>
      /\ accepting' => accepting
      /\ ShutdownStarted => ShutdownStarted'
      /\ ShutdownStarted' => ~accepting'
  BY DEF CloseIngress, ShutdownStep, StartShutdown, RequestStop, JoinWorker, Closing,
         IngressInv, DrainInv, ShutdownStarted, Kinds, TypeOK
<1>2. LockInv' /\ WorkerInv'
  BY Zenon, <1>1 DEF IngressInv, LockInv, WorkerInv, callbackVars
<1>3. DrainInv'
  BY Zenon, <1>1 DEF IngressInv, DrainInv, OldScansDrained, Observations, Held, callbackVars
<1>4. OrderInv'
  BY Zenon, <1>1 DEF IngressInv, OrderInv, Follows, Observations, Held, callbackVars
<1> QED
  BY Zenon, <1>2, <1>3, <1>4

LEMMA InitiallyInOrder == Init => IngressInv
<1> SUFFICES ASSUME Init PROVE IngressInv
  BY Zenon
<1> USE MappingIngressAssumption DEF Init
<1>1. callback \in [Callbacks -> Handling] /\ \A c \in Callbacks : callback[c] = Idle
  BY DEF Idle, Handling, Pcs
<1>2. Kinds
  <2>1. /\ active_epoch \in 1..MaxEpoch /\ messages \in 0..MaxMessages
        /\ highest_admitted_key \in 0..MaxStamp
        /\ last_scan \in [epoch: 1..MaxEpoch, sequence: 0..MaxSequence]
        /\ mapped \in [epoch: 1..MaxEpoch, sequence: 0..MaxSequence, stamp: 0..MaxStamp]
        /\ world \in [epoch: 1..MaxEpoch, stamp: 0..MaxStamp]
    OBVIOUS
  <2>2. worker \in [pc: WorkerPcs, scan: Scan \cup {None}]
    BY Zenon DEF WorkerPcs
  <2>3. \A c \in Callbacks : callback[c] \in Handling
    BY Zenon, <1>1
  <2> QED
    BY Zenon, <1>1, <2>1, <2>2, <2>3 DEF Kinds, TypeOK, Handling, Pcs
<1>3. LockInv
  BY Zenon, <1>1 DEF LockInv, Idle
<1>4. WorkerInv
  BY Zenon DEF WorkerInv
<1>5. DrainInv
  BY <1>1 DEF DrainInv, OldScansDrained, Observations, Held, ShutdownStarted, Idle
<1>6. OrderInv
  BY <1>1 DEF OrderInv, Observations, Held, Idle
<1> QED
  BY Zenon, <1>2, <1>3, <1>4, <1>5, <1>6 DEF IngressInv

LEMMA StepsKeepIngress == IngressInv /\ [Next]_vars => IngressInv'
<1> SUFFICES ASSUME IngressInv, [Next]_vars PROVE IngressInv'
  BY Zenon
<1> USE DEF IngressInv
<1>1. CASE (\E c \in Scanners : ScanArrives(c)) \/ \E c \in Announcers : EpochAnnounced(c)
  BY Zenon, <1>1, ArrivalsKeepKinds, ArrivalsKeepLocks, ArrivalsKeepRest DEF Callbacks
<1>2. ASSUME NEW c \in Callbacks, CallbackStep(c) PROVE IngressInv'
  <2>1. UNCHANGED <<in_flight, worker, mapped>>
    BY Zenon, <1>2 DEF CallbackStep, EnterIngress, OldEpoch, ResetEpoch, CurrentEpoch, BeginDrain,
                EndDrain, Relock, RejectSequence, AcceptScan, DiscardScan, ValidationThrows,
                SubmitScan, EndCallback, workerVars
  <2>2. WorkerInv'
    BY Zenon, <2>1 DEF WorkerInv
  <2> QED
    BY Zenon, <1>2, <2>2, CallbacksKeepKinds, CallbacksKeepLocks, CallbacksKeepDrain, CallbacksKeepOrder
<1>3. CASE WorkerStep
  <2>1. LockInv'
    BY Zenon, <1>3 DEF WorkerStep, TakeScan, MapScan, PublishWorld, ProcessThrows, CountPublished,
                FinishScan, WorkerFails, WorkerStops, WorkerQuiet, callbackVars, LockInv
  <2> QED
    BY Zenon, <1>3, <2>1, WorkerKeepsKinds, WorkerKeepsWorker, WorkerKeepsDrain, WorkerKeepsOrder
<1>4. CASE CloseIngress \/ ShutdownStep
  BY Zenon, <1>4, ClosingKeepsKinds, ClosingKeepsRest
<1>5. CASE UNCHANGED vars
  <2>1. Kinds' /\ LockInv' /\ WorkerInv'
    BY Zenon, <1>5 DEF vars, callbackVars, workerVars, Kinds, TypeOK, LockInv, WorkerInv
  <2>2. DrainInv' /\ OrderInv'
    BY Zenon, <1>5 DEF vars, callbackVars, workerVars, DrainInv, OldScansDrained, ShutdownStarted,
                OrderInv, Follows, Observations, Held
  <2> QED
    BY Zenon, <2>1, <2>2
<1> QED
  BY Zenon, <1>1, <1>2, <1>3, <1>4, <1>5 DEF Next

\* The mutexes, the drain and the order of the scans are as described in every
\* reachable state.
THEOREM IngressInvHolds == Spec => []IngressInv
BY InitiallyInOrder, StepsKeepIngress, PTL DEF Spec

\* The members of the node and of MappingWorker keep their types.
THEOREM TypeCorrect == Spec => []TypeOK
<1>1. IngressInv => TypeOK
  BY Zenon DEF IngressInv, Kinds
<1> QED
  BY <1>1, IngressInvHolds, PTL

\* localization_epoch_ready_ is up only on a world of the active epoch, however a
\* publication and an epoch's reset interleave.
THEOREM ReadinessHolds == Spec => []ReadyMeansCurrentWorld
<1>1. Init => ReadyMeansCurrentWorld
  BY DEF Init, ReadyMeansCurrentWorld
<1>2. ReadyMeansCurrentWorld /\ [Next]_vars => ReadyMeansCurrentWorld'
  <2> SUFFICES ASSUME ReadyMeansCurrentWorld, [Next]_vars PROVE ReadyMeansCurrentWorld'
    BY Zenon
  <2> USE DEF ReadyMeansCurrentWorld, workerVars, callbackVars
  <2>1. CASE (\E c \in Scanners : ScanArrives(c)) \/ \E c \in Announcers : EpochAnnounced(c)
    BY Zenon, <2>1 DEF ScanArrives, EpochAnnounced
  <2>2. ASSUME NEW c \in Callbacks, CallbackStep(c) PROVE ReadyMeansCurrentWorld'
    BY Zenon, <2>2 DEF CallbackStep, EnterIngress, OldEpoch, ResetEpoch, CurrentEpoch, BeginDrain,
                EndDrain, Relock, RejectSequence, AcceptScan, DiscardScan, ValidationThrows,
                SubmitScan, EndCallback
  <2>3. CASE WorkerStep
    <3>1. CASE PublishWorld
      <4>1. UNCHANGED active_epoch
        BY Zenon, <3>1 DEF PublishWorld, WorkerQuiet
      <4>2. CASE UNCHANGED <<world, epoch_ready>>
        BY Zenon, <4>1, <4>2
      <4>3. CASE /\ worker.scan.epoch = active_epoch
                 /\ world' = [epoch |-> worker.scan.epoch, stamp |-> worker.scan.stamp]
        <5>1. world'.epoch = worker.scan.epoch
          BY Zenon, <4>3
        <5> QED
          BY Zenon, <4>1, <4>3, <5>1
      <4> QED
        BY Zenon, <3>1, <4>2, <4>3 DEF PublishWorld
    <3>2. CASE WorkerStep /\ ~PublishWorld
      BY Zenon, <3>2 DEF WorkerStep, TakeScan, MapScan, ProcessThrows, CountPublished, FinishScan,
                  WorkerFails, WorkerStops, WorkerQuiet
    <3> QED
      BY Zenon, <2>3, <3>1, <3>2
  <2>4. CASE CloseIngress \/ ShutdownStep
    BY Zenon, <2>4 DEF CloseIngress, ShutdownStep, StartShutdown, RequestStop, JoinWorker, Closing
  <2>5. CASE UNCHANGED vars
    BY Zenon, <2>5 DEF vars
  <2> QED
    BY Zenon, <2>1, <2>2, <2>3, <2>4, <2>5 DEF Next
<1> QED
  BY <1>1, <1>2, PTL DEF Spec

\* MappingWorker::reset is a barrier for the scans of the old epoch.
THEOREM OldScansDrainedHolds == Spec => []OldScansDrained
<1>1. IngressInv => OldScansDrained
  BY Zenon DEF IngressInv, DrainInv
<1> QED
  BY <1>1, IngressInvHolds, PTL

\* Neither MappingActor::validateObservation nor WorldSnapshotStore refuses a scan for
\* its order: what may arrive late, twice or across a reset was filtered before.
THEOREM OrderNeverStops == Spec => []OrderNeverStopsMapping
<1>1. IngressInv => OrderNeverStopsMapping
  <2> SUFFICES ASSUME IngressInv PROVE OrderNeverStopsMapping
    BY Zenon
  <2>1. worker.pc = "processing" => MapAccepts(worker.scan)
    BY Zenon DEF IngressInv, OrderInv, Follows, MapAccepts
  <2>2. worker.pc = "mapped" => StoreAccepts(worker.scan)
    BY Zenon, ObservationsAreNumbered DEF IngressInv, WorkerInv, OrderInv, StoreAccepts, Observations
  <2> QED
    BY Zenon, <2>1, <2>2 DEF OrderNeverStopsMapping
<1> QED
  BY <1>1, IngressInvHolds, PTL

----------------------------------------------------------------------------
(* The accounting of the inbox                                             *)

Counters ==
    {"received", "rejected_before_inbox", "accepted_to_inbox", "replaced_waiting",
     "discarded_waiting", "ready_submitted", "waiting", "replaced_ready", "discarded_ready",
     "discarded_shutdown_ready", "ready", "mapping_started", "mapping_published",
     "mapping_failed", "in_flight", "violation_count"}

\* A record of counters, as the function from their names that it is.
Accounts == [Counters -> Nat]

\* The counters balance, and count w scans waiting, r queued and f in flight.
Balanced(s, w, r, f) ==
    /\ s \in Accounts /\ AllInvariantsHold(s)
    /\ s.waiting = w /\ s.ready = r /\ s.in_flight = f

----------------------------------------------------------------------------
(* The operations of ObservationAccounting.  Each moves a count of one from*)
(* one counter of a balance to another.                                    *)

LEMMA CountersAreNumbers ==
    ASSUME NEW s \in Accounts
    PROVE  /\ s.received \in Nat /\ s.rejected_before_inbox \in Nat
           /\ s.accepted_to_inbox \in Nat /\ s.replaced_waiting \in Nat
           /\ s.discarded_waiting \in Nat /\ s.ready_submitted \in Nat
           /\ s.waiting \in Nat /\ s.replaced_ready \in Nat
           /\ s.discarded_ready \in Nat /\ s.discarded_shutdown_ready \in Nat
           /\ s.ready \in Nat /\ s.mapping_started \in Nat
           /\ s.mapping_published \in Nat /\ s.mapping_failed \in Nat
           /\ s.in_flight \in Nat /\ s.violation_count \in Nat
BY Zenon DEF Accounts, Counters

LEMMA NothingCounted == Balanced(NoObservations, 0, 0, 0)
<1>1. NoObservations \in Accounts
  BY DEF NoObservations, Accounts, Counters
<1> QED
  BY <1>1 DEF Balanced, NoObservations, AllInvariantsHold

LEMMA RejectionBalances ==
    ASSUME NEW s, NEW w, NEW r, NEW f, Balanced(s, w, r, f)
    PROVE  Balanced(RejectedBeforeInbox(s), w, r, f)
<1> DEFINE t == [s EXCEPT !.received = s.received + 1, !.rejected_before_inbox = s.rejected_before_inbox + 1]
<1>1. s \in Accounts /\ RejectedBeforeInbox(s) = t
  BY Zenon DEF Balanced, RejectedBeforeInbox
<1>2. s.received + 1 \in Nat /\ s.rejected_before_inbox + 1 \in Nat
  BY <1>1, CountersAreNumbers DEF Balanced
<1>3. t \in Accounts
  BY Zenon, <1>1, <1>2 DEF Accounts
<1>4. /\ t.received = s.received + 1
      /\ t.rejected_before_inbox = s.rejected_before_inbox + 1
      /\ \A x \in Counters \ {"received", "rejected_before_inbox"} : t[x] = s[x]
  BY Zenon, <1>1 DEF Accounts, Counters
<1> HIDE DEF t
<1> QED
  BY <1>1, <1>3, <1>4, CountersAreNumbers DEF Balanced, AllInvariantsHold, Counters

LEMMA AcceptanceBalances ==
    ASSUME NEW s, NEW r, NEW f, Balanced(s, 0, r, f)
    PROVE  Balanced(AcceptedToInbox(s), 1, r, f)
<1> DEFINE t == [s EXCEPT !.received = s.received + 1, !.accepted_to_inbox = s.accepted_to_inbox + 1, !.waiting = 1]
<1>1. s \in Accounts /\ AcceptedToInbox(s) = t
  BY Zenon DEF Balanced, AcceptedToInbox
<1>2. s.received + 1 \in Nat /\ s.accepted_to_inbox + 1 \in Nat
  BY <1>1, CountersAreNumbers DEF Balanced
<1>3. t \in Accounts
  BY Zenon, <1>1, <1>2 DEF Accounts
<1>4. /\ t.received = s.received + 1
      /\ t.accepted_to_inbox = s.accepted_to_inbox + 1
      /\ t.waiting = 1
      /\ \A x \in Counters \ {"received", "accepted_to_inbox", "waiting"} : t[x] = s[x]
  BY Zenon, <1>1 DEF Accounts, Counters
<1> HIDE DEF t
<1> QED
  BY <1>1, <1>3, <1>4, CountersAreNumbers DEF Balanced, AllInvariantsHold, Counters

LEMMA DiscardBalances ==
    ASSUME NEW s, NEW r, NEW f, Balanced(s, 1, r, f)
    PROVE  Balanced(DiscardedWaiting(s), 0, r, f)
<1> DEFINE t == [s EXCEPT !.waiting = 0, !.discarded_waiting = s.discarded_waiting + 1]
<1>1. s \in Accounts /\ DiscardedWaiting(s) = t
  BY DEF Balanced, DiscardedWaiting
<1>2. s.discarded_waiting + 1 \in Nat
  BY <1>1, CountersAreNumbers DEF Balanced
<1>3. t \in Accounts
  BY Zenon, <1>1, <1>2 DEF Accounts
<1>4. /\ t.waiting = 0
      /\ t.discarded_waiting = s.discarded_waiting + 1
      /\ \A x \in Counters \ {"waiting", "discarded_waiting"} : t[x] = s[x]
  BY Zenon, <1>1 DEF Accounts, Counters
<1> HIDE DEF t
<1> QED
  BY <1>1, <1>3, <1>4, CountersAreNumbers DEF Balanced, AllInvariantsHold, Counters

LEMMA SubmissionBalances ==
    ASSUME NEW s, NEW f, NEW replaced \in BOOLEAN,
           Balanced(s, 1, IF replaced THEN 1 ELSE 0, f)
    PROVE  Balanced(WaitingSubmitted(s, replaced), 0, 1, f)
<1>0. s \in Accounts /\ s.waiting = 1 /\ s.ready = (IF replaced THEN 1 ELSE 0)
  BY Zenon DEF Balanced
<1>1. s.ready_submitted + 1 \in Nat /\ s.replaced_ready + 1 \in Nat
  BY <1>0, CountersAreNumbers
<1>2. CASE replaced
  <2> DEFINE t == [s EXCEPT !.waiting = 0, !.ready_submitted = s.ready_submitted + 1, !.replaced_ready = s.replaced_ready + 1]
  <2>0. s.ready # 0
    BY <1>0, <1>2
  <2>1. ~(replaced # (s.ready # 0))
    BY <1>2, <2>0, Zenon
  <2>2. WaitingSubmitted(s, replaced) = t
    BY Zenon, <1>0, <1>2, <2>1 DEF WaitingSubmitted
  <2>3. t \in Accounts
    BY Zenon, <1>0, <1>1 DEF Accounts
  <2>4. /\ t.waiting = 0
        /\ t.ready_submitted = s.ready_submitted + 1
        /\ t.replaced_ready = s.replaced_ready + 1
        /\ \A x \in Counters \ {"waiting", "ready_submitted", "replaced_ready"} : t[x] = s[x]
    BY Zenon, <1>0 DEF Accounts, Counters
  <2> HIDE DEF t
  <2>5. Balanced(t, 0, 1, f)
    BY <1>0, <1>2, <2>3, <2>4, CountersAreNumbers DEF Balanced, AllInvariantsHold, Counters
  <2> QED
    BY Zenon, <2>2, <2>5
<1>3. CASE ~replaced
  <2> DEFINE t == [s EXCEPT !.waiting = 0, !.ready_submitted = s.ready_submitted + 1, !.ready = 1]
  <2>1. ~(replaced # (s.ready # 0))
    BY Zenon, <1>0, <1>3
  <2>2. WaitingSubmitted(s, replaced) = t
    BY <1>0, <1>3, <2>1 DEF WaitingSubmitted
  <2>3. t \in Accounts
    BY Zenon, <1>0, <1>1 DEF Accounts
  <2>4. /\ t.waiting = 0
        /\ t.ready_submitted = s.ready_submitted + 1
        /\ t.ready = 1
        /\ \A x \in Counters \ {"waiting", "ready_submitted", "ready"} : t[x] = s[x]
    BY Zenon, <1>0 DEF Accounts, Counters
  <2> HIDE DEF t
  <2>5. Balanced(t, 0, 1, f)
    BY <1>0, <1>3, <2>3, <2>4, CountersAreNumbers DEF Balanced, AllInvariantsHold, Counters
  <2> QED
    BY Zenon, <2>2, <2>5
<1> QED
  BY Zenon, <1>2, <1>3

LEMMA ReadyDiscardBalances ==
    ASSUME NEW s, NEW w, NEW f, Balanced(s, w, 1, f)
    PROVE  Balanced(DiscardedReady(s), w, 0, f)
<1> DEFINE t == [s EXCEPT !.ready = 0, !.discarded_ready = s.discarded_ready + 1]
<1>1. s \in Accounts /\ DiscardedReady(s) = t
  BY DEF Balanced, DiscardedReady
<1>2. s.discarded_ready + 1 \in Nat
  BY <1>1, CountersAreNumbers DEF Balanced
<1>3. t \in Accounts
  BY Zenon, <1>1, <1>2 DEF Accounts
<1>4. /\ t.ready = 0
      /\ t.discarded_ready = s.discarded_ready + 1
      /\ \A x \in Counters \ {"ready", "discarded_ready"} : t[x] = s[x]
  BY Zenon, <1>1 DEF Accounts, Counters
<1> HIDE DEF t
<1> QED
  BY <1>1, <1>3, <1>4, CountersAreNumbers DEF Balanced, AllInvariantsHold, Counters

LEMMA ShutdownDiscardBalances ==
    ASSUME NEW s, NEW w, NEW f, Balanced(s, w, 1, f)
    PROVE  Balanced(DiscardedShutdownReady(s), w, 0, f)
<1> DEFINE t == [s EXCEPT !.ready = 0, !.discarded_shutdown_ready = s.discarded_shutdown_ready + 1]
<1>1. s \in Accounts /\ DiscardedShutdownReady(s) = t
  BY DEF Balanced, DiscardedShutdownReady
<1>2. s.discarded_shutdown_ready + 1 \in Nat
  BY <1>1, CountersAreNumbers DEF Balanced
<1>3. t \in Accounts
  BY Zenon, <1>1, <1>2 DEF Accounts
<1>4. /\ t.ready = 0
      /\ t.discarded_shutdown_ready = s.discarded_shutdown_ready + 1
      /\ \A x \in Counters \ {"ready", "discarded_shutdown_ready"} : t[x] = s[x]
  BY Zenon, <1>1 DEF Accounts, Counters
<1> HIDE DEF t
<1> QED
  BY <1>1, <1>3, <1>4, CountersAreNumbers DEF Balanced, AllInvariantsHold, Counters

LEMMA StartBalances ==
    ASSUME NEW s, NEW w, Balanced(s, w, 1, 0)
    PROVE  Balanced(MappingStarted(s), w, 0, 1)
<1> DEFINE t == [s EXCEPT !.ready = 0, !.mapping_started = s.mapping_started + 1, !.in_flight = s.in_flight + 1]
<1>1. s \in Accounts /\ MappingStarted(s) = t
  BY DEF Balanced, MappingStarted
<1>2. s.mapping_started + 1 \in Nat /\ s.in_flight + 1 \in Nat
  BY <1>1, CountersAreNumbers DEF Balanced
<1>3. t \in Accounts
  BY Zenon, <1>1, <1>2 DEF Accounts
<1>4. /\ t.ready = 0
      /\ t.mapping_started = s.mapping_started + 1
      /\ t.in_flight = s.in_flight + 1
      /\ \A x \in Counters \ {"ready", "mapping_started", "in_flight"} : t[x] = s[x]
  BY Zenon, <1>1 DEF Accounts, Counters
<1> HIDE DEF t
<1> QED
  BY <1>1, <1>3, <1>4, CountersAreNumbers DEF Balanced, AllInvariantsHold, Counters

LEMMA PublicationBalances ==
    ASSUME NEW s, NEW w, NEW r, Balanced(s, w, r, 1)
    PROVE  Balanced(MappingPublished(s), w, r, 0)
<1> DEFINE t == [s EXCEPT !.in_flight = s.in_flight - 1, !.mapping_published = s.mapping_published + 1]
<1>1. s \in Accounts /\ MappingPublished(s) = t
  BY DEF Balanced, MappingPublished
<1>2. s.in_flight - 1 \in Nat /\ s.mapping_published + 1 \in Nat
  BY <1>1, CountersAreNumbers DEF Balanced
<1>3. t \in Accounts
  BY Zenon, <1>1, <1>2 DEF Accounts
<1>4. /\ t.in_flight = s.in_flight - 1
      /\ t.mapping_published = s.mapping_published + 1
      /\ \A x \in Counters \ {"in_flight", "mapping_published"} : t[x] = s[x]
  BY Zenon, <1>1 DEF Accounts, Counters
<1> HIDE DEF t
<1> QED
  BY <1>1, <1>3, <1>4, CountersAreNumbers DEF Balanced, AllInvariantsHold, Counters

LEMMA FailureBalances ==
    ASSUME NEW s, NEW w, NEW r, Balanced(s, w, r, 1)
    PROVE  Balanced(MappingFailed(s), w, r, 0)
<1> DEFINE t == [s EXCEPT !.in_flight = s.in_flight - 1, !.mapping_failed = s.mapping_failed + 1]
<1>1. s \in Accounts /\ MappingFailed(s) = t
  BY DEF Balanced, MappingFailed
<1>2. s.in_flight - 1 \in Nat /\ s.mapping_failed + 1 \in Nat
  BY <1>1, CountersAreNumbers DEF Balanced
<1>3. t \in Accounts
  BY Zenon, <1>1, <1>2 DEF Accounts
<1>4. /\ t.in_flight = s.in_flight - 1
      /\ t.mapping_failed = s.mapping_failed + 1
      /\ \A x \in Counters \ {"in_flight", "mapping_failed"} : t[x] = s[x]
  BY Zenon, <1>1 DEF Accounts, Counters
<1> HIDE DEF t
<1> QED
  BY <1>1, <1>3, <1>4, CountersAreNumbers DEF Balanced, AllInvariantsHold, Counters

----------------------------------------------------------------------------
(* The accounting of the inbox                                             *)

Waiting == IF \E c \in Callbacks : callback[c].pc = "accepted" THEN 1 ELSE 0
Queued == IF ready = None THEN 0 ELSE 1
InFlight == IF worker.pc \in {"processing", "mapped", "processed"} THEN 1 ELSE 0

\* The counters balance and tell what the callbacks, the slot and the worker hold.
AccountInv == Balanced(accounting, Waiting, Queued, InFlight)

\* A step of one callback while it is in the ingress: no other has an accepted scan.
LEMMA OnlyOneAccepted ==
    ASSUME IngressInv, NEW c \in Callbacks, callback[c].pc \notin {"idle", "arrived"}
    PROVE  \A d \in Callbacks \ {c} : callback[d].pc # "accepted"
BY Zenon DEF IngressInv, LockInv

LEMMA CallbacksKeepAccount ==
    ASSUME IngressInv, AccountInv, NEW c \in Callbacks, CallbackStep(c)
    PROVE  AccountInv'
<1>0. callback \in [Callbacks -> Handling] /\ None \notin Scan
  BY Zenon, MappingIngressAssumption DEF IngressInv, Kinds
<1>1. worker' = worker /\ InFlight' = InFlight
  BY Zenon DEF CallbackStep, EnterIngress, OldEpoch, ResetEpoch, CurrentEpoch, BeginDrain,
         EndDrain, Relock, RejectSequence, AcceptScan, DiscardScan, ValidationThrows,
         SubmitScan, EndCallback, workerVars, InFlight
<1>2. CASE EnterIngress(c) \/ ResetEpoch(c) \/ CurrentEpoch(c) \/ EndDrain(c) \/ Relock(c)
  <2>1. UNCHANGED <<accounting, ready>> /\ callback[c].pc # "accepted" /\ callback'[c].pc # "accepted"
    BY Zenon, <1>0, <1>2, GotoMoves, ReturnIdles
       DEF EnterIngress, ResetEpoch, CurrentEpoch, EndDrain, Relock, Pcs, workerVars
  <2>2. \A d \in Callbacks \ {c} : callback'[d] = callback[d]
    BY Zenon, <1>0, <1>2, GotoMoves, ReturnIdles
       DEF EnterIngress, ResetEpoch, CurrentEpoch, EndDrain, Relock, Pcs
  <2>3. Waiting' = Waiting /\ Queued' = Queued
    BY Zenon, <2>1, <2>2 DEF Waiting, Queued
  <2> QED
    BY Zenon, <1>1, <2>1, <2>3 DEF AccountInv
<1>3. CASE OldEpoch(c) \/ RejectSequence(c)
  <2>1. /\ ready' = ready /\ callback[c].pc # "accepted" /\ callback'[c].pc # "accepted"
        /\ \A d \in Callbacks \ {c} : callback'[d] = callback[d]
        /\ accounting' = accounting \/ accounting' = RejectedBeforeInbox(accounting)
    BY Zenon, <1>0, <1>3, ReturnIdles DEF OldEpoch, RejectSequence, workerVars
  <2>2. Waiting' = Waiting /\ Queued' = Queued
    BY Zenon, <2>1 DEF Waiting, Queued
  <2> QED
    BY Zenon, <1>1, <2>1, <2>2, RejectionBalances DEF AccountInv
<1>4. CASE BeginDrain(c)
  <2>1. /\ callback[c].pc # "accepted" /\ callback'[c].pc # "accepted"
        /\ \A d \in Callbacks \ {c} : callback'[d] = callback[d]
    BY Zenon, <1>0, <1>4, GotoMoves DEF BeginDrain, Pcs
  <2>2. Waiting' = Waiting
    BY Zenon, <2>1 DEF Waiting
  <2>3. CASE UNCHANGED <<ready, accounting>>
    BY Zenon, <1>1, <2>2, <2>3 DEF AccountInv, Queued
  <2>4. CASE ready # None /\ ready' = None /\ accounting' = DiscardedReady(accounting)
    <3>1. Queued = 1 /\ Queued' = 0
      BY Zenon, <2>4 DEF Queued
    <3> QED
      BY Zenon, <1>1, <2>2, <2>4, <3>1, ReadyDiscardBalances DEF AccountInv
  <2> QED
    BY Zenon, <1>4, <2>3, <2>4 DEF BeginDrain
<1>5. CASE AcceptScan(c)
  <2>1. /\ ready' = ready /\ accounting' = AcceptedToInbox(accounting)
        /\ callback[c].pc = "locked" /\ callback'[c].pc = "accepted"
    BY Zenon, <1>0, <1>5, GotoMoves DEF AcceptScan, Pcs, workerVars
  <2>2. Waiting = 0 /\ Waiting' = 1 /\ Queued' = Queued
    BY Zenon, <2>1, OnlyOneAccepted DEF Waiting, Queued
  <2> QED
    BY Zenon, <1>1, <2>1, <2>2, AcceptanceBalances DEF AccountInv
<1>6. CASE DiscardScan(c) \/ ValidationThrows(c) \/ SubmitScan(c)
  <2>1. /\ callback[c].pc = "accepted" /\ callback'[c].pc = "idle"
        /\ \A d \in Callbacks \ {c} : callback'[d] = callback[d]
    BY Zenon, <1>0, <1>6, ReturnIdles DEF DiscardScan, ValidationThrows, SubmitScan, EndCallback
  <2>2. Waiting = 1 /\ Waiting' = 0
    BY Zenon, <2>1, OnlyOneAccepted DEF Waiting
  <2>3. CASE DiscardScan(c) \/ ValidationThrows(c)
    <3>1. ready' = ready /\ accounting' = DiscardedWaiting(accounting)
      BY Zenon, <2>3 DEF DiscardScan, ValidationThrows, workerVars
    <3>2. Queued' = Queued
      BY Zenon, <3>1 DEF Queued
    <3> QED
      BY Zenon, <1>1, <2>2, <3>1, <3>2, DiscardBalances DEF AccountInv
  <2>4. CASE SubmitScan(c)
    <3>1. ready' # None /\ accounting' = WaitingSubmitted(accounting, ready # None)
      BY Zenon, <2>4 DEF SubmitScan, IngressInv, LockInv
    <3>2. Queued' = 1 /\ Queued = (IF ready # None THEN 1 ELSE 0)
      BY Zenon, <3>1 DEF Queued
    <3>3. Balanced(accounting, 1, IF ready # None THEN 1 ELSE 0, InFlight)
      BY Zenon, <2>2, <3>2 DEF AccountInv
    <3>4. (ready # None) \in BOOLEAN
      BY Zenon
    <3>5. Balanced(WaitingSubmitted(accounting, ready # None), 0, 1, InFlight)
      BY Zenon, <3>3, <3>4, SubmissionBalances
    <3> QED
      BY Zenon, <1>1, <2>2, <3>1, <3>2, <3>5 DEF AccountInv
  <2> QED
    BY Zenon, <1>6, <2>3, <2>4
<1> QED
  BY Zenon, <1>2, <1>3, <1>4, <1>5, <1>6 DEF CallbackStep

LEMMA WorkerKeepsAccount ==
    ASSUME IngressInv, AccountInv, WorkerStep
    PROVE  AccountInv'
<1>0. callback' = callback /\ Waiting' = Waiting
  BY Zenon DEF WorkerStep, TakeScan, MapScan, PublishWorld, ProcessThrows, CountPublished, FinishScan,
         WorkerFails, WorkerStops, WorkerQuiet, callbackVars, Waiting
<1>1. CASE TakeScan
  <2>1. Queued = 1 /\ Queued' = 0 /\ InFlight = 0
    BY Zenon, <1>1 DEF TakeScan, Queued, InFlight
  <2>2. CASE accounting' = MappingStarted(accounting) /\ worker' = [pc |-> "processing", scan |-> ready]
    <3>1. InFlight' = 1
      BY Zenon, <2>2 DEF InFlight
    <3> QED
      BY Zenon, <1>0, <2>1, <2>2, <3>1, StartBalances DEF AccountInv
  <2>3. CASE accounting' = DiscardedReady(accounting)
             /\ (worker' = worker \/ worker' = [pc |-> "exited", scan |-> None])
    <3>1. InFlight' = 0
      BY <2>1, <2>3 DEF InFlight
    <3> QED
      BY Zenon, <1>0, <2>1, <2>3, <3>1, ReadyDiscardBalances DEF AccountInv
  <2> QED
    BY Zenon, <1>1, <2>2, <2>3 DEF TakeScan
<1>2. CASE MapScan \/ PublishWorld
  <2>1. UNCHANGED <<ready, accounting>> /\ InFlight' = InFlight
    BY Zenon, <1>2 DEF MapScan, PublishWorld, InFlight, IngressInv, Kinds
  <2> QED
    BY Zenon, <1>0, <2>1 DEF AccountInv, Queued
<1>3. CASE ProcessThrows \/ CountPublished
  <2>1. /\ ready' = ready /\ InFlight = 1 /\ InFlight' = 0
        /\ \/ accounting' = MappingFailed(accounting)
           \/ accounting' = MappingPublished(accounting)
    BY Zenon, <1>3 DEF ProcessThrows, CountPublished, InFlight, IngressInv, Kinds
  <2>2. Queued' = Queued
    BY Zenon, <2>1 DEF Queued
  <2> QED
    BY Zenon, <1>0, <2>1, <2>2, PublicationBalances, FailureBalances DEF AccountInv
<1>4. CASE FinishScan
  <2>1. UNCHANGED <<ready, accounting>> /\ InFlight' = InFlight
    BY Zenon, <1>4 DEF FinishScan, InFlight
  <2> QED
    BY Zenon, <1>0, <2>1 DEF AccountInv, Queued
<1>5. CASE WorkerFails \/ WorkerStops
  <2>1. /\ InFlight = 0 /\ InFlight' = 0 /\ ready' = None
        /\ accounting' = IF ready = None THEN accounting ELSE DiscardedShutdownReady(accounting)
    BY <1>5 DEF WorkerFails, WorkerStops, InFlight
  <2>2. Queued' = 0 /\ Queued = (IF ready = None THEN 0 ELSE 1)
    BY Zenon, <2>1 DEF Queued
  <2> QED
    BY Zenon, <1>0, <2>1, <2>2, ShutdownDiscardBalances DEF AccountInv
<1> QED
  BY Zenon, <1>1, <1>2, <1>3, <1>4, <1>5 DEF WorkerStep

LEMMA ArrivalsKeepAccount ==
    ASSUME IngressInv, AccountInv, NEW c \in Callbacks, ScanArrives(c) \/ EpochAnnounced(c)
    PROVE  AccountInv'
<1>1. /\ UNCHANGED <<ready, worker>>
      /\ accounting' = accounting \/ accounting' = RejectedBeforeInbox(accounting)
      /\ callback[c].pc = "idle"
  BY Zenon DEF ScanArrives, EpochAnnounced, workerVars
<1>2. /\ callback'[c].pc # "accepted"
      /\ \A d \in Callbacks \ {c} : callback'[d] = callback[d]
  BY <1>1 DEF ScanArrives, EpochAnnounced, IngressInv, Kinds
<1>3. Waiting' = Waiting /\ Queued' = Queued /\ InFlight' = InFlight
  BY <1>1, <1>2 DEF Waiting, Queued, InFlight
<1> QED
  BY Zenon, <1>1, <1>3, RejectionBalances DEF AccountInv

\* The counters balance in every reachable state.
THEOREM AccountInvHolds == Spec => []AccountInv
<1>1. Init => AccountInv
  <2> SUFFICES ASSUME Init PROVE AccountInv
    BY Zenon
  <2>1. Waiting = 0 /\ Queued = 0 /\ InFlight = 0
    BY Zenon DEF Init, Idle, Waiting, Queued, InFlight
  <2> QED
    BY Zenon, <2>1, NothingCounted DEF Init, AccountInv
<1>2. IngressInv /\ AccountInv /\ [Next]_vars => AccountInv'
  <2> SUFFICES ASSUME IngressInv, AccountInv, [Next]_vars PROVE AccountInv'
    BY Zenon
  <2>1. CASE (\E c \in Scanners : ScanArrives(c)) \/ \E c \in Announcers : EpochAnnounced(c)
    BY Zenon, <2>1, ArrivalsKeepAccount DEF Callbacks
  <2>2. CASE \E c \in Callbacks : CallbackStep(c)
    BY Zenon, <2>2, CallbacksKeepAccount
  <2>3. CASE WorkerStep
    BY Zenon, <2>3, WorkerKeepsAccount
  <2>4. CASE CloseIngress \/ ShutdownStep
    BY Zenon, <2>4 DEF CloseIngress, ShutdownStep, StartShutdown, RequestStop, JoinWorker, Closing,
                callbackVars, AccountInv, Waiting, Queued, InFlight
  <2>5. CASE UNCHANGED vars
    BY Zenon, <2>5 DEF vars, callbackVars, workerVars, AccountInv, Waiting, Queued, InFlight
  <2> QED
    BY Zenon, <2>1, <2>2, <2>3, <2>4, <2>5 DEF Next
<1> QED
  BY <1>1, <1>2, IngressInvHolds, PTL DEF Spec

\* "Every replacement and shutdown disposition is terminally accounted": the balances
\* of ObservationAccounting hold, no operation found its counter empty, and each slot's
\* counter tells what the slot holds.
THEOREM EveryScanAccountedHolds == Spec => []EveryScanAccounted
<1>1. IngressInv /\ AccountInv => EveryScanAccounted
  <2> SUFFICES ASSUME IngressInv, AccountInv PROVE EveryScanAccounted
    BY Zenon
  <2> DEFINE Accepted == {c \in Callbacks : callback[c].pc = "accepted"}
  <2>1. Cardinality(Accepted) = Waiting
    <3>1. CASE Accepted = {}
      BY Zenon, <3>1, FS_EmptySet DEF Waiting
    <3>2. CASE Accepted # {}
      <4>1. PICK c \in Callbacks : callback[c].pc = "accepted"
        BY Zenon, <3>2
      <4>2. Accepted = {c}
        BY Zenon, <4>1, OnlyOneAccepted
      <4>3. Cardinality({c}) = 1
        BY Zenon, FS_Singleton
      <4> QED
        BY Zenon, <4>1, <4>2, <4>3 DEF Waiting
    <3> QED
      BY Zenon, <3>1, <3>2
  <2> QED
    BY Zenon, <2>1 DEF AccountInv, Balanced, EveryScanAccounted, Queued, InFlight
<1> QED
  BY <1>1, IngressInvHolds, AccountInvHolds, PTL
=============================================================================
