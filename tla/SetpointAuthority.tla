--------------------------- MODULE SetpointAuthority ---------------------------
(***************************************************************************)
(* What NavigationMode promises PX4: who decides the setpoints.            *)
(*                                                                         *)
(* An activation starts without a command, executes commands of its own    *)
(* and of the current localization frame only, and once it has given up    *)
(* its authority never executes another.                                   *)
(***************************************************************************)
EXTENDS Naturals

CONSTANTS None, MaxActivation

VARIABLES
    authority,    \* "px4", or the activation's: "acquiring", "tracking", "released"
    activation,
    frame,        \* the localization epoch
    owner         \* of the command executed: its activation and frame

authorityVars == <<authority, activation, frame, owner>>

AuthorityInit ==
    /\ authority = "px4" /\ activation = 0 /\ frame = 0 /\ owner = None

\* A new activation has an id of its own; without one left, it starts released.
Grant ==
    /\ authority = "px4"
    /\ \/ activation < MaxActivation /\ activation' = activation + 1 /\ authority' = "acquiring"
       \/ activation = MaxActivation /\ activation' = activation /\ authority' = "released"
    /\ UNCHANGED <<frame, owner>>

Accept ==
    /\ authority \in {"acquiring", "tracking"}
    /\ authority' = "tracking"
    /\ owner' = [activation |-> activation, frame |-> frame]
    /\ UNCHANGED <<activation, frame>>

\* Another frame, also one that was left before, leaves no command to execute.
NewFrame ==
    /\ frame' \in Nat \ {0, frame}
    /\ authority' = IF authority = "tracking" THEN "acquiring" ELSE authority
    /\ owner' = None
    /\ UNCHANGED activation

Release ==
    /\ authority \in {"acquiring", "tracking"}
    /\ authority' = "released" /\ owner' = None
    /\ UNCHANGED <<activation, frame>>

Revoke ==
    /\ authority # "px4"
    /\ authority' = "px4" /\ owner' = None
    /\ UNCHANGED <<activation, frame>>

AuthorityNext == Grant \/ Accept \/ NewFrame \/ Release \/ Revoke

AuthoritySpec == AuthorityInit /\ [][AuthorityNext]_authorityVars

=============================================================================
