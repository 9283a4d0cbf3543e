--------------------------- MODULE ClockHistory ---------------------------
(***************************************************************************)
(* The registry's clock observed over time: when it was last paused and    *)
(* suspended, and since when without a break.                              *)
(***************************************************************************)
EXTENDS RegistryClock

CONSTANT Expiries       \* the name expiries the properties range over

ASSUME ExpiriesAssumption == Expiries \subseteq Nat

VARIABLES
    lastPaused,         \* the last instant the registry was paused at, or -1
    pausedSince         \* the first instant of the pause now in force, or -1

historyVars == <<now, paused, pausedUntil, unpausedAt, tlaSuspended, suspendedUntil,
                 tlaExpires, lastPaused, pausedSince>>

Observe ==
    /\ lastPaused' = IF effective_paused' THEN now' ELSE lastPaused
    /\ pausedSince' = IF ~effective_paused' THEN -1
                      ELSE IF pausedSince = -1 THEN now' ELSE pausedSince

HistoryInit == ClockInit /\ lastPaused = -1 /\ pausedSince = -1
HistoryNext == ClockNext /\ Observe
HistorySpec == HistoryInit /\ [][HistoryNext]_historyVars

-----------------------------------------------------------------------------

(* Every field of the registry's clock stays in its type.                  *)
ClockTypeOK ==
    /\ now \in Genesis..MaxTime
    /\ paused \in BOOLEAN /\ tlaSuspended \in BOOLEAN
    /\ {pausedUntil, unpausedAt, suspendedUntil, tlaExpires} \subseteq Nat
    /\ {lastPaused, pausedSince} \subseteq Nat \cup {-1}

(* time_lifecycle and reclaim_floor_ns: nothing, neither a name nor the    *)
(* TLA, becomes reclaimable while the registry is paused, nor before a     *)
(* full grace period has passed since it last was, however pauses are      *)
(* opened, extended, lifted, or left to lapse.                             *)
FreshGrace ==
    \A expires \in Expiries \cup {tlaExpires} :
        time_lifecycle(expires) = "Reclaimable" =>
            /\ now >= expires + Grace
            /\ lastPaused # -1 => now >= lastPaused + Grace

-----------------------------------------------------------------------------
(* Statements of the repository's tests and documents that the code does   *)
(* not keep.                                                               *)

(* contracts/tla-registry/src/tests.rs: "an admin must not be able to hold *)
(* a pause open indefinitely".                                             *)
NoStandingPause == pausedSince # -1 => now < pausedSince + MaxHold

(* README, on a pause: "a holder can always renew": a name its lifecycle   *)
(* calls active or in grace can be renewed.                                *)
AlwaysRenewable ==
    \A expires \in Expiries :
        effective_sub_lifecycle(expires, NoRetraction) # "Reclaimable" =>
            sub_renewable(expires, NoRetraction)

(* tests.rs: "a suspension must not block a namespace indefinitely": a TLA *)
(* whose suspension has run out, and which has not lapsed, can be renewed. *)
SuspensionEnds ==
    /\ now >= suspendedUntil
    /\ ~effective_paused
    /\ now < tlaExpires + Grace
    => tla_renewable

=============================================================================
