---------------------------- MODULE MCExternalMode ----------------------------
(***************************************************************************)
(* Values of ExternalMode's constants for TLC.                             *)
(***************************************************************************)
EXTENDS ExternalMode

MCKinds == {[status |-> "READY", role |-> "MAIN"],
            [status |-> "COMPLETED", role |-> "MAIN"],
            [status |-> "BRAKING", role |-> "EMERGENCY"],
            [status |-> "REJECTED", role |-> "MAIN"]}

\* One command to track and one that completes.
MCLivenessKinds == {[status |-> "READY", role |-> "MAIN"],
                    [status |-> "COMPLETED", role |-> "MAIN"]}

=============================================================================
