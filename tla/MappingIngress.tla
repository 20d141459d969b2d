--------------------------- MODULE MappingIngress ---------------------------
(***************************************************************************)
(* From a sensor callback to a published world: the callbacks that announce*)
(* localization epochs and bring scans (onRegisteredScan,                  *)
(* onEstimatorHealth, onPropagatedOdometry), the latest-only MappingWorker *)
(* with its reset barrier, the publication under the localization mutex,   *)
(* and the destructor's shutdown.                                          *)
(*                                                                         *)
(* Each action is one critical section of MappingWorker::mutex_ or of      *)
(* localization_transition_mutex_.                                         *)
(***************************************************************************)
EXTENDS Integers, FiniteSets, ObservationAccounting

CONSTANTS
    None,
    Scanners,       \* threads that may run onRegisteredScan
    Announcers,     \* threads that may run onEstimatorHealth or onPropagatedOdometry
    MaxEpoch, MaxSequence, MaxStamp, MaxMessages   \* bounds

Callbacks == Scanners \cup Announcers
Scan == [epoch: 1..MaxEpoch, sequence: 1..MaxSequence, stamp: 1..MaxStamp]

ASSUME MappingIngressAssumption ==
    /\ None \notin Callbacks \cup Scan
    /\ {MaxEpoch, MaxSequence, MaxStamp, MaxMessages} \subseteq Nat \ {0}

VARIABLES
    active_epoch,     \* active_localization_epoch_
    epoch_ready,      \* localization_epoch_ready_
    last_scan,        \* last_registered_scan_epoch_, last_registered_scan_sequence_
    ingress_lock,     \* holder of localization_epoch_ingress_mutex_
    transition_lock,  \* holder of localization_transition_mutex_
    callback,         \* per thread: the message it handles
    messages,         \* how many messages have arrived
    ready, in_flight, resetting, accepting, fatal, highest_admitted_key,   \* MappingWorker
    worker,           \* its thread
    shutdown,         \* the destructor's progress
    accounting,
    mapped,           \* MappingActor: the last observation the map holds
    world             \* epoch and stamp of the published world

callbackVars == <<active_epoch, last_scan, ingress_lock, callback, messages>>
workerVars == <<ready, in_flight, resetting, accepting, fatal, highest_admitted_key, worker>>
vars == <<callbackVars, workerVars, epoch_ready, transition_lock, shutdown, accounting, mapped,
          world>>

Idle == [pc |-> "idle", scan |-> None, epoch |-> 0]

\* The node starts in epoch 1 on the actor's empty initial snapshot.
Init ==
    /\ active_epoch = 1 /\ epoch_ready = TRUE
    /\ last_scan = [epoch |-> 1, sequence |-> 0]
    /\ ingress_lock = None /\ transition_lock = None
    /\ callback = [c \in Callbacks |-> Idle] /\ messages = 0
    /\ ready = None /\ in_flight = FALSE /\ resetting = FALSE
    /\ accepting = TRUE /\ fatal = FALSE /\ highest_admitted_key = 0
    /\ worker = [pc |-> "waiting", scan |-> None]
    /\ shutdown = "running"
    /\ accounting = NoObservations
    /\ mapped = [epoch |-> 1, sequence |-> 0, stamp |-> 0]
    /\ world = [epoch |-> 1, stamp |-> 0]

----------------------------------------------------------------------------
(* The callbacks                                                           *)

Goto(c, pc) == callback' = [callback EXCEPT ![c].pc = pc]
Return(c) == callback' = [callback EXCEPT ![c] = Idle]

\* A message arrives, in any order of epochs and sequence numbers; a scan with a
\* broken contract, or after the destructor closed the ingress, is rejected.
ScanArrives(c) ==
    /\ callback[c].pc = "idle" /\ messages < MaxMessages
    /\ messages' = messages + 1
    /\ \/ \E scan \in Scan :
            /\ shutdown = "running"
            /\ callback' = [callback EXCEPT ![c] =
                 [pc |-> "arrived", scan |-> scan, epoch |-> scan.epoch]]
            /\ UNCHANGED accounting
       \/ /\ accounting' = RejectedBeforeInbox(accounting)
          /\ UNCHANGED callback
    /\ UNCHANGED <<active_epoch, last_scan, ingress_lock, workerVars, epoch_ready,
                   transition_lock, shutdown, mapped, world>>

EpochAnnounced(c) ==
    /\ callback[c].pc = "idle" /\ messages < MaxMessages
    /\ messages' = messages + 1
    /\ \E epoch \in 1..MaxEpoch :
         callback' = [callback EXCEPT ![c] = [pc |-> "arrived", scan |-> None, epoch |-> epoch]]
    /\ UNCHANGED <<active_epoch, last_scan, ingress_lock, workerVars, epoch_ready,
                   transition_lock, shutdown, accounting, mapped, world>>

\* The ingress mutex serialises whole callbacks.
EnterIngress(c) ==
    /\ callback[c].pc = "arrived" /\ ingress_lock = None
    /\ ingress_lock' = c
    /\ Goto(c, "entered")
    /\ UNCHANGED <<active_epoch, last_scan, messages, workerVars, epoch_ready,
                   transition_lock, shutdown, accounting, mapped, world>>

\* An old epoch: the scan is rejected, an announcement ignored.
OldEpoch(c) ==
    /\ callback[c].pc = "entered" /\ transition_lock = None
    /\ \/ callback[c].epoch < active_epoch
       \/ callback[c].epoch = active_epoch /\ callback[c].scan = None
    /\ accounting' = IF callback[c].scan = None THEN accounting
                                                 ELSE RejectedBeforeInbox(accounting)
    /\ ingress_lock' = None
    /\ Return(c)
    /\ UNCHANGED <<active_epoch, last_scan, messages, workerVars, epoch_ready,
                   transition_lock, shutdown, mapped, world>>

\* Mutant of ResetEpoch: the drain keeps the localization mutex.
ResetEpochHoldingLock(c) ==
    /\ callback[c].pc = "entered" /\ transition_lock = None
    /\ callback[c].epoch > active_epoch
    /\ active_epoch' = callback[c].epoch
    /\ epoch_ready' = FALSE
    /\ last_scan' = [epoch |-> callback[c].epoch, sequence |-> 0]
    /\ transition_lock' = c
    /\ Goto(c, "draining")
    /\ UNCHANGED <<ingress_lock, messages, workerVars, shutdown, accounting, mapped, world>>

\* resetForLocalizationEpochLocked publishes the new epoch and the unready state,
\* and drainMappingForLocalizationReset then gives the localization mutex back.
ResetEpoch(c) ==
    /\ callback[c].pc = "entered" /\ transition_lock = None
    /\ callback[c].epoch > active_epoch
    /\ active_epoch' = callback[c].epoch
    /\ epoch_ready' = FALSE
    /\ last_scan' = [epoch |-> callback[c].epoch, sequence |-> 0]
    /\ Goto(c, "draining")
    /\ UNCHANGED <<ingress_lock, transition_lock, messages, workerVars, shutdown,
                   accounting, mapped, world>>

ShutdownStarted == shutdown \in {"started", "stopping", "joined"}

\* MappingWorker::reset, up to its wait.
BeginDrain(c) ==
    /\ callback[c].pc = "draining"
    /\ IF ShutdownStarted
         THEN Goto(c, "drained") /\ UNCHANGED <<resetting, ready, accounting>>
         ELSE /\ resetting' = TRUE
              /\ ready' = None
              /\ accounting' = IF ready = None THEN accounting ELSE DiscardedReady(accounting)
              /\ Goto(c, "barrier")
    /\ UNCHANGED <<active_epoch, last_scan, ingress_lock, messages, in_flight, accepting,
                   fatal, highest_admitted_key, worker, epoch_ready, transition_lock,
                   shutdown, mapped, world>>

\* Mutant of EndDrain: the barrier does not wait for the scan in flight.
EndDrainAtOnce(c) ==
    /\ callback[c].pc = "barrier"
    /\ highest_admitted_key' = 0 /\ resetting' = FALSE
    /\ Goto(c, "drained")
    /\ UNCHANGED <<active_epoch, last_scan, ingress_lock, messages, ready, in_flight,
                   accepting, fatal, worker, epoch_ready, transition_lock, shutdown,
                   accounting, mapped, world>>

\* The wait ends when the scan in flight is done.
EndDrain(c) ==
    /\ callback[c].pc = "barrier" /\ ~in_flight
    /\ highest_admitted_key' = 0 /\ resetting' = FALSE
    /\ Goto(c, "drained")
    /\ UNCHANGED <<active_epoch, last_scan, ingress_lock, messages, ready, in_flight,
                   accepting, fatal, worker, epoch_ready, transition_lock, shutdown,
                   accounting, mapped, world>>

\* The callback takes the localization mutex back.  An announcement is then done.
Relock(c) ==
    /\ callback[c].pc = "drained" /\ transition_lock = None
    /\ IF callback[c].scan = None
         THEN Return(c) /\ ingress_lock' = None /\ transition_lock' = None
         ELSE Goto(c, "locked") /\ transition_lock' = c /\ UNCHANGED ingress_lock
    /\ UNCHANGED <<active_epoch, last_scan, messages, workerVars, epoch_ready, shutdown,
                   accounting, mapped, world>>

\* A scan of the current epoch needs no reset.
CurrentEpoch(c) ==
    /\ callback[c].pc = "entered" /\ transition_lock = None
    /\ callback[c].scan # None /\ callback[c].epoch = active_epoch
    /\ transition_lock' = c
    /\ Goto(c, "locked")
    /\ UNCHANGED <<active_epoch, last_scan, ingress_lock, messages, workerVars, epoch_ready,
                   shutdown, accounting, mapped, world>>

\* A repeated or reordered sequence number of this epoch is rejected.
StaleSequence(scan) ==
    last_scan.epoch = scan.epoch /\ scan.sequence <= last_scan.sequence

RejectSequence(c) ==
    /\ callback[c].pc = "locked" /\ StaleSequence(callback[c].scan)
    /\ accounting' = RejectedBeforeInbox(accounting)
    /\ ingress_lock' = None /\ transition_lock' = None
    /\ Return(c)
    /\ UNCHANGED <<active_epoch, last_scan, messages, workerVars, epoch_ready, shutdown, mapped, world>>

AcceptScan(c) ==
    /\ callback[c].pc = "locked" /\ ~StaleSequence(callback[c].scan)
    /\ last_scan' = [epoch |-> callback[c].epoch, sequence |-> callback[c].scan.sequence]
    /\ accounting' = AcceptedToInbox(accounting)
    /\ Goto(c, "accepted")
    /\ UNCHANGED <<active_epoch, ingress_lock, messages, workerVars, epoch_ready,
                   transition_lock, shutdown, mapped, world>>

----------------------------------------------------------------------------
(* MappingWorker                                                           *)

\* validate_mapping: the epoch is checked, freshness and geometry are the
\* environment's, and the class also handles a validator that throws.
Verdict(scan) ==
    IF scan.epoch = active_epoch THEN {"valid", "invalid", "throws"} ELSE {"invalid"}

EndCallback(c) ==
    /\ ingress_lock' = None /\ transition_lock' = None
    /\ Return(c)
    /\ UNCHANGED <<active_epoch, last_scan, messages, epoch_ready, shutdown, mapped, world>>

\* Mutant of DiscardScan: an early return forgets the accounting.
DiscardScanUncounted(c) ==
    /\ callback[c].pc = "accepted"
    /\ \/ ~accepting \/ fatal \/ resetting
       \/ "invalid" \in Verdict(callback[c].scan)
       \/ callback[c].scan.stamp <= highest_admitted_key
    /\ EndCallback(c) /\ UNCHANGED <<workerVars, accounting>>

\* submitFromWaiting discards the scan: closed, in a barrier, invalid, or not
\* newer than the scans admitted before it.
DiscardScan(c) ==
    /\ callback[c].pc = "accepted"
    /\ \/ ~accepting \/ fatal \/ resetting
       \/ "invalid" \in Verdict(callback[c].scan)
       \/ callback[c].scan.stamp <= highest_admitted_key
    /\ accounting' = DiscardedWaiting(accounting)
    /\ EndCallback(c) /\ UNCHANGED workerVars

ValidationThrows(c) ==
    /\ callback[c].pc = "accepted" /\ accepting /\ ~fatal /\ ~resetting
    /\ "throws" \in Verdict(callback[c].scan)
    /\ fatal' = TRUE /\ accepting' = FALSE
    /\ accounting' = DiscardedWaiting(accounting)
    /\ EndCallback(c)
    /\ UNCHANGED <<ready, in_flight, resetting, highest_admitted_key, worker>>

\* Mutant of SubmitScan: a scan is admitted during a reset, whatever its stamp.
SubmitScanUnordered(c) ==
    /\ callback[c].pc = "accepted" /\ accepting /\ ~fatal
    /\ "valid" \in Verdict(callback[c].scan)
    /\ highest_admitted_key' = callback[c].scan.stamp
    /\ accounting' = WaitingSubmitted(accounting, ready # None)
    /\ ready' = callback[c].scan
    /\ EndCallback(c)
    /\ UNCHANGED <<in_flight, resetting, accepting, fatal, worker>>

\* Mutant of SubmitScan: the next scan's key is recorded.
SubmitScanNextKey(c) ==
    /\ callback[c].pc = "accepted" /\ accepting /\ ~fatal /\ ~resetting
    /\ "valid" \in Verdict(callback[c].scan)
    /\ callback[c].scan.stamp > highest_admitted_key
    /\ highest_admitted_key' = callback[c].scan.stamp + 1
    /\ accounting' = WaitingSubmitted(accounting, ready # None)
    /\ ready' = callback[c].scan
    /\ EndCallback(c)
    /\ UNCHANGED <<in_flight, resetting, accepting, fatal, worker>>

\* submitFromWaiting replaces the scan in the READY slot.
SubmitScan(c) ==
    /\ callback[c].pc = "accepted" /\ accepting /\ ~fatal /\ ~resetting
    /\ "valid" \in Verdict(callback[c].scan)
    /\ callback[c].scan.stamp > highest_admitted_key
    /\ highest_admitted_key' = callback[c].scan.stamp
    /\ accounting' = WaitingSubmitted(accounting, ready # None)
    /\ ready' = callback[c].scan
    /\ EndCallback(c)
    /\ UNCHANGED <<in_flight, resetting, accepting, fatal, worker>>

WorkerQuiet == UNCHANGED <<callbackVars, resetting, highest_admitted_key, transition_lock,
                           shutdown>>
StopRequested == shutdown \in {"stopping", "joined"}

\* run(): the scan is validated again, for it may have aged in the slot.
TakeScan ==
    /\ worker.pc = "waiting" /\ ready # None /\ ~StopRequested
    /\ ready' = None
    /\ \E verdict \in Verdict(ready) :
         \/ /\ verdict = "valid"
            /\ accounting' = MappingStarted(accounting)
            /\ in_flight' = TRUE
            /\ worker' = [pc |-> "processing", scan |-> ready]
            /\ UNCHANGED <<accepting, fatal>>
         \/ /\ verdict = "invalid"
            /\ accounting' = DiscardedReady(accounting)
            /\ UNCHANGED <<in_flight, worker, accepting, fatal>>
         \/ /\ verdict = "throws"
            /\ accounting' = DiscardedReady(accounting)
            /\ worker' = [pc |-> "exited", scan |-> None]
            /\ fatal' = TRUE /\ accepting' = FALSE
            /\ UNCHANGED in_flight
    /\ UNCHANGED <<epoch_ready, mapped, world>> /\ WorkerQuiet

\* MappingActor::validateObservation: the map takes scans of one epoch in order.
MapAccepts(scan) ==
    \/ scan.epoch > mapped.epoch
    \/ /\ scan.epoch = mapped.epoch
       /\ scan.stamp > mapped.stamp /\ scan.sequence > mapped.sequence

\* MappingActor::process; a newer epoch starts a new map.
MapScan ==
    /\ worker.pc = "processing" /\ MapAccepts(worker.scan)
    /\ mapped' = worker.scan
    /\ worker' = [worker EXCEPT !.pc = "mapped"]
    /\ UNCHANGED <<ready, in_flight, accepting, fatal, accounting, epoch_ready, world>>
    /\ WorkerQuiet

\* WorldSnapshotStore::strictlyAdvances; the actor counts the revisions of an epoch.
StoreAccepts(scan) ==
    \/ scan.epoch > world.epoch
    \/ scan.epoch = world.epoch /\ scan.stamp >= world.stamp

\* Mutant of PublishWorld: the epoch is not compared again at the publication.
PublishWorldUnchecked ==
    /\ worker.pc = "mapped" /\ transition_lock = None /\ StoreAccepts(worker.scan)
    /\ world' = [epoch |-> worker.scan.epoch, stamp |-> worker.scan.stamp]
    /\ epoch_ready' = TRUE
    /\ worker' = [worker EXCEPT !.pc = "processed"]
    /\ UNCHANGED <<ready, in_flight, accepting, fatal, accounting, mapped>> /\ WorkerQuiet

\* The publication under the localization mutex.  A scan of an older epoch is
\* superseded; one that exports no snapshot, or whose publication another
\* timeline superseded, publishes nothing.
PublishWorld ==
    /\ worker.pc = "mapped" /\ transition_lock = None
    /\ \/ /\ worker.scan.epoch = active_epoch /\ StoreAccepts(worker.scan)
          /\ world' = [epoch |-> worker.scan.epoch, stamp |-> worker.scan.stamp]
          /\ epoch_ready' = TRUE
       \/ UNCHANGED <<world, epoch_ready>>
    /\ worker' = [worker EXCEPT !.pc = "processed"]
    /\ UNCHANGED <<ready, in_flight, accepting, fatal, accounting, mapped>> /\ WorkerQuiet

\* The scan cannot be decoded or mapped, its publication was rejected, or a
\* report after the publication threw.
ProcessThrows ==
    /\ worker.pc \in {"processing", "mapped", "processed"}
    /\ accounting' = MappingFailed(accounting)
    /\ worker' = [worker EXCEPT !.pc = "failed"]
    /\ UNCHANGED <<ready, in_flight, accepting, fatal, epoch_ready, mapped, world>> /\ WorkerQuiet

CountPublished ==
    /\ worker.pc = "processed"
    /\ accounting' = MappingPublished(accounting)
    /\ worker' = [worker EXCEPT !.pc = "published"]
    /\ UNCHANGED <<ready, in_flight, accepting, fatal, epoch_ready, mapped, world>> /\ WorkerQuiet

\* published_handler_ returned.
FinishScan ==
    /\ worker.pc = "published"
    /\ in_flight' = FALSE
    /\ worker' = [pc |-> "waiting", scan |-> None]
    /\ UNCHANGED <<ready, accepting, fatal, accounting, epoch_ready, mapped, world>> /\ WorkerQuiet

\* Mapping failed, or published_handler_ threw: the worker exits.
WorkerFails ==
    /\ worker.pc \in {"failed", "published"}
    /\ fatal' = TRUE /\ accepting' = FALSE
    /\ ready' = None
    /\ accounting' = IF ready = None THEN accounting ELSE DiscardedShutdownReady(accounting)
    /\ in_flight' = FALSE
    /\ worker' = [pc |-> "exited", scan |-> None]
    /\ UNCHANGED <<epoch_ready, mapped, world>> /\ WorkerQuiet

\* Mutant of WorkerStops: the discarded scan is not counted.
WorkerStopsUncounted ==
    /\ worker.pc = "waiting" /\ StopRequested
    /\ ready' = None
    /\ worker' = [pc |-> "exited", scan |-> None]
    /\ UNCHANGED <<accounting, in_flight, accepting, fatal, epoch_ready, mapped, world>> /\ WorkerQuiet

\* Mutant of WorkerStops: the wait ends only for a scan, not for the stop token.
WorkerStopsOnScan ==
    /\ worker.pc = "waiting" /\ StopRequested /\ ready # None
    /\ ready' = None
    /\ accounting' = DiscardedShutdownReady(accounting)
    /\ worker' = [pc |-> "exited", scan |-> None]
    /\ UNCHANGED <<in_flight, accepting, fatal, epoch_ready, mapped, world>> /\ WorkerQuiet

\* run(): a stop request wins over a queued scan.
WorkerStops ==
    /\ worker.pc = "waiting" /\ StopRequested
    /\ ready' = None
    /\ accounting' = IF ready = None THEN accounting ELSE DiscardedShutdownReady(accounting)
    /\ worker' = [pc |-> "exited", scan |-> None]
    /\ UNCHANGED <<in_flight, accepting, fatal, epoch_ready, mapped, world>> /\ WorkerQuiet


----------------------------------------------------------------------------
(* ~NavigationRuntimeNode, and MappingWorker::shutdown.                     *)

Closing(from, to) ==
    /\ shutdown = from /\ shutdown' = to
    /\ UNCHANGED <<callbackVars, epoch_ready, transition_lock, accounting, mapped, world,
                   ready, in_flight, resetting, fatal, highest_admitted_key, worker>>

CloseIngress == Closing("running", "closed") /\ UNCHANGED accepting
StartShutdown == Closing("closed", "started") /\ accepting' = FALSE
RequestStop == Closing("started", "stopping") /\ UNCHANGED accepting
JoinWorker == worker.pc = "exited" /\ Closing("stopping", "joined") /\ UNCHANGED accepting

----------------------------------------------------------------------------

CallbackStep(c) ==
    \/ EnterIngress(c) \/ OldEpoch(c) \/ ResetEpoch(c) \/ CurrentEpoch(c)
    \/ BeginDrain(c) \/ EndDrain(c) \/ Relock(c)
    \/ RejectSequence(c) \/ AcceptScan(c)
    \/ DiscardScan(c) \/ ValidationThrows(c) \/ SubmitScan(c)

WorkerStep ==
    \/ TakeScan \/ MapScan \/ PublishWorld \/ ProcessThrows \/ CountPublished
    \/ FinishScan \/ WorkerFails \/ WorkerStops

ShutdownStep == StartShutdown \/ RequestStop \/ JoinWorker

Next ==
    \/ \E c \in Scanners : ScanArrives(c)
    \/ \E c \in Announcers : EpochAnnounced(c)
    \/ \E c \in Callbacks : CallbackStep(c)
    \/ WorkerStep
    \/ CloseIngress
    \/ ShutdownStep

\* Threads that have work run: the executor's, the worker's, and the
\* destructor's once it was called.  No message need arrive and the node need
\* not be destroyed.
Fairness ==
    /\ \A c \in Callbacks : WF_vars(CallbackStep(c))
    /\ WF_vars(WorkerStep)
    /\ WF_vars(ShutdownStep)

Spec == Init /\ [][Next]_vars
FairSpec == Spec /\ Fairness

----------------------------------------------------------------------------
(* Properties                                                              *)

\* The variables of the callbacks, of MappingWorker and of its accounting have
\* their types.
TypeOK ==
    /\ active_epoch \in 1..MaxEpoch
    /\ epoch_ready \in BOOLEAN
    /\ last_scan \in [epoch: 1..MaxEpoch, sequence: 0..MaxSequence]
    /\ {ingress_lock, transition_lock} \subseteq Callbacks \cup {None}
    /\ \A c \in Callbacks :
         /\ callback[c].pc \in {"idle", "arrived", "entered", "draining", "barrier",
                                "drained", "locked", "accepted"}
         /\ callback[c].scan \in Scan \cup {None}
         /\ callback[c].epoch \in 0..MaxEpoch
    /\ messages \in 0..MaxMessages
    /\ ready \in Scan \cup {None}
    /\ {in_flight, resetting, accepting, fatal} \subseteq BOOLEAN
    /\ highest_admitted_key \in 0..MaxStamp
    /\ worker.pc \in {"waiting", "processing", "mapped", "processed", "published", "failed",
                      "exited"}
    /\ worker.scan \in Scan \cup {None}
    /\ shutdown \in {"running", "closed", "started", "stopping", "joined"}
    /\ mapped \in [epoch: 1..MaxEpoch, sequence: 0..MaxSequence, stamp: 0..MaxStamp]
    /\ world \in [epoch: 1..MaxEpoch, stamp: 0..MaxStamp]

\* "Every replacement and shutdown disposition is terminally accounted": whatever
\* the callbacks, the worker, a reset and the shutdown interleave, the counters
\* balance, no operation found its counter empty (violation_count), and each
\* counter of a slot tells what the slot holds.
EveryScanAccounted ==
    /\ AllInvariantsHold(accounting)
    /\ accounting.waiting = Cardinality({c \in Callbacks : callback[c].pc = "accepted"})
    /\ accounting.ready = (IF ready = None THEN 0 ELSE 1)
    /\ accounting.in_flight = (IF worker.pc \in {"processing", "mapped", "processed"} THEN 1
                                                                      ELSE 0)

\* localization_epoch_ready_ lets planning and commands run only on a world of
\* the active epoch: a mapping callback of the old epoch that finishes during the
\* drain neither publishes its world nor reopens readiness.
ReadyMeansCurrentWorld == epoch_ready => world.epoch = active_epoch

\* MappingWorker::reset is a barrier: outside a drain, and before the shutdown
\* cuts drains short, the scan queued or in process is of the active epoch.
OldScansDrained ==
    (/\ ~ShutdownStarted
     /\ \A c \in Callbacks : callback[c].pc \notin {"draining", "barrier"})
      => \A scan \in {ready, worker.scan} : scan = None \/ scan.epoch = active_epoch

\* The order in which callbacks may deliver scans never reaches the map: whatever
\* arrives late, twice or across a reset is filtered before it, so neither the
\* actor's order check nor the store's, each of which throws and stops the whole
\* process through the fatal handler, ever fires.
OrderNeverStopsMapping ==
    /\ worker.pc = "processing" => MapAccepts(worker.scan)
    /\ worker.pc = "mapped" => StoreAccepts(worker.scan)

\* A reset never waits for ever: its drain ends, although the scan it waits for
\* needs the localization mutex to publish, and although the worker may fail or
\* be shut down meanwhile.
ResetsComplete ==
    \A c \in Callbacks : callback[c].pc = "draining" ~> callback[c].pc = "idle"

\* Shutdown joins the worker whatever it and the callbacks were doing.
ShutdownCompletes == shutdown = "closed" ~> shutdown = "joined"

\* The mapping lifecycle settles: once no message arrives any more, no scan stays
\* waiting, queued or in flight.
InboxSettles ==
    <>[](accounting.waiting = 0 /\ accounting.ready = 0 /\ accounting.in_flight = 0)
=============================================================================
