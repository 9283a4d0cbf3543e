------------------------------ MODULE Clock ------------------------------
(* Block time, shared by every component: a bounded natural number. *)
EXTENDS Integers

CONSTANTS
    Genesis,        \* the first instant
    MaxTime         \* bound: the last instant

ASSUME ClockAssumption == Genesis \in Nat /\ MaxTime \in Nat /\ Genesis <= MaxTime

VARIABLE now        \* env::block_timestamp()

advance == now < MaxTime /\ now' = now + 1

=============================================================================
