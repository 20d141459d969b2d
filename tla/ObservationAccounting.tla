------------------------ MODULE ObservationAccounting ------------------------
(***************************************************************************)
(* ObservationAccounting: the lifecycle counters of the mapping inbox, one *)
(* record whose operations are serialised by the class's mutex.  The       *)
(* compatibility totals (pending, replaced_pending, discarded_pending) are *)
(* left out: nothing reads them but the report.                            *)
(***************************************************************************)
EXTENDS Naturals

NoObservations ==
    [received |-> 0, rejected_before_inbox |-> 0, accepted_to_inbox |-> 0,
     replaced_waiting |-> 0, discarded_waiting |-> 0, ready_submitted |-> 0, waiting |-> 0,
     replaced_ready |-> 0, discarded_ready |-> 0, discarded_shutdown_ready |-> 0, ready |-> 0,
     mapping_started |-> 0, mapping_published |-> 0, mapping_failed |-> 0, in_flight |-> 0,
     violation_count |-> 0]

Violation(s) == [s EXCEPT !.violation_count = @ + 1]

RejectedBeforeInbox(s) ==
    [s EXCEPT !.received = @ + 1, !.rejected_before_inbox = @ + 1]

AcceptedToInbox(s) ==
    LET counted == [s EXCEPT !.received = @ + 1, !.accepted_to_inbox = @ + 1]
    IN  IF s.waiting # 0 THEN [counted EXCEPT !.replaced_waiting = @ + 1]
                         ELSE [counted EXCEPT !.waiting = 1]

\* discardedPending and discardedNonmonotonicWaiting, which differ in a
\* diagnostic counter.
DiscardedWaiting(s) ==
    IF s.waiting = 0 THEN Violation(s)
    ELSE [s EXCEPT !.waiting = 0, !.discarded_waiting = @ + 1]

WaitingSubmitted(s, replaced) ==
    LET moved == [s EXCEPT !.waiting = 0, !.ready_submitted = @ + 1]
    IN  IF s.waiting = 0 THEN Violation(s)
        ELSE IF replaced # (s.ready # 0) THEN Violation(moved)
        ELSE IF replaced THEN [moved EXCEPT !.replaced_ready = @ + 1]
        ELSE [moved EXCEPT !.ready = 1]

DiscardedReady(s) ==
    IF s.ready = 0 THEN Violation(s)
    ELSE [s EXCEPT !.ready = 0, !.discarded_ready = @ + 1]

DiscardedShutdownReady(s) ==
    IF s.ready = 0 THEN Violation(s)
    ELSE [s EXCEPT !.ready = 0, !.discarded_shutdown_ready = @ + 1]

MappingStarted(s) ==
    IF s.ready = 0 THEN Violation(s)
    ELSE [s EXCEPT !.ready = 0, !.mapping_started = @ + 1, !.in_flight = @ + 1]

MappingPublished(s) ==
    IF s.in_flight = 0 THEN Violation(s)
    ELSE [s EXCEPT !.in_flight = @ - 1, !.mapping_published = @ + 1]

MappingFailed(s) ==
    IF s.in_flight = 0 THEN Violation(s)
    ELSE [s EXCEPT !.in_flight = @ - 1, !.mapping_failed = @ + 1]

AllInvariantsHold(s) ==
    /\ s.received = s.rejected_before_inbox + s.accepted_to_inbox
    /\ s.accepted_to_inbox =
         s.replaced_waiting + s.discarded_waiting + s.ready_submitted + s.waiting
    /\ s.ready_submitted = s.replaced_ready + s.discarded_ready
         + s.discarded_shutdown_ready + s.mapping_started + s.ready
    /\ s.mapping_started = s.mapping_published + s.mapping_failed + s.in_flight
    /\ s.violation_count = 0
=============================================================================
