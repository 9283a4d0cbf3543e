------------------------------ MODULE Timelock ------------------------------
(***************************************************************************)
(* What every governed change of these contracts promises: it is announced,*)
(* stands announced and unaltered for the whole delay, and only then takes *)
(* effect, as announced.  Announcing again, the same value or another,     *)
(* starts the delay over.  The council rotations, treasury rotations, code *)
(* upgrades and publications of the contracts implement it.                *)
(***************************************************************************)
EXTENDS Naturals

CONSTANTS
    Values,         \* what may be announced
    None            \* nothing is announced

VARIABLES
    now,
    delay,          \* fixed from the start
    announced,      \* a value, or None
    since,          \* when it was announced
    released        \* the value that took effect last

lockVars == <<now, delay, announced, since, released>>

LockInit == announced = None

Announce ==
    /\ announced' \in Values
    /\ since' = now
    /\ UNCHANGED <<now, delay, released>>

Withdraw ==
    /\ announced' = None
    /\ UNCHANGED <<now, delay, released>>

(* The announcement is used up, or stays for as long as it stands.         *)
Release ==
    /\ announced # None
    /\ now >= since + delay
    /\ released' = announced
    /\ \/ announced' = None
       \/ UNCHANGED <<announced, since>>
    /\ UNCHANGED <<now, delay>>

Wait ==
    /\ now' > now
    /\ UNCHANGED <<delay, announced, since, released>>

LockNext == Announce \/ Withdraw \/ Release \/ Wait

LockSpec == LockInit /\ [][LockNext]_lockVars

=============================================================================
