-------------------------- MODULE RegistryClock --------------------------
(***************************************************************************)
(* The registry's view of time: pausing, suspending a TLA, and the         *)
(* lifecycle of a TLA and of a name under it (lib.rs, types.rs,            *)
(* lifecycle.rs of contracts/tla-registry).  The TLA has been activated.   *)
(***************************************************************************)
EXTENDS Clock

CONSTANTS
    Grace,          \* grace_period_ns
    RetractNotice,  \* fee_config.retraction_notice_ns
    MaxHold,        \* MAX_AUTHORITY_HOLD_NS: the longest pause and suspension
    TlaTerm,        \* ONE_YEAR_NS: what a TLA renewal adds
    TlaEnds,        \* what the TLA's first expiry may be
    MaxTlaEnd       \* bound: the latest TLA expiry

ASSUME RegistryClockAssumption ==
    /\ {Grace, RetractNotice, MaxHold, TlaTerm, MaxTlaEnd} \subseteq Nat \ {0}
    /\ TlaEnds \subseteq Nat \ {0}

VARIABLES
    paused, pausedUntil, unpausedAt,        \* the registry's pause
    tlaSuspended, suspendedUntil,           \* TlaStatus::Suspended and until when
    tlaExpires                              \* the TLA's expires_at

pauseVars == <<paused, pausedUntil, unpausedAt>>
tlaVars == <<tlaSuspended, suspendedUntil, tlaExpires>>

Never == MaxTime + 1        \* u64::MAX as a time: later than any instant
NoRetraction == -1          \* retraction_at = None

later(a, b) == IF a >= b THEN a ELSE b

effective_paused == paused /\ now < pausedUntil

(* Variant: a pause that lapsed by itself is forgotten.                    *)
reclaim_floor_of_unpause == IF effective_paused THEN Never ELSE unpausedAt + Grace

reclaim_floor ==
    IF effective_paused
    THEN Never
    ELSE (IF paused THEN pausedUntil ELSE unpausedAt) + Grace

reclaimable_at(from) == later(from + Grace, reclaim_floor)

time_lifecycle(expires) ==
    CASE now < expires -> "Active"
      [] now >= expires /\ now < reclaimable_at(expires) -> "Grace"
      [] OTHER -> "Reclaimable"

tla_lifecycle ==
    IF tlaSuspended /\ now < suspendedUntil THEN "Suspended" ELSE time_lifecycle(tlaExpires)

accepting_rentals == now < tlaExpires /\ (tlaSuspended => now >= suspendedUntil)

effective_sub_lifecycle(expires, retraction) ==
    IF \/ tla_lifecycle = "Reclaimable"
       \/ /\ retraction # NoRetraction
          /\ now >= later(retraction + RetractNotice, reclaim_floor)
    THEN "Reclaimable"
    ELSE time_lifecycle(expires)

(* What renew_sub_account and renew_tla require of the clock.              *)
sub_renewable(expires, retraction) ==
    /\ now < expires + Grace
    /\ retraction = NoRetraction
    /\ tla_lifecycle # "Reclaimable"

tla_renewable ==
    /\ ~effective_paused
    /\ ~tlaSuspended
    /\ now < tlaExpires + Grace

-----------------------------------------------------------------------------

pause ==
    /\ paused' = TRUE
    /\ pausedUntil' = now + MaxHold
    /\ UNCHANGED <<now, unpausedAt, tlaVars>>

unpause ==
    /\ paused' = FALSE
    /\ pausedUntil' = 0
    /\ unpausedAt' = now
    /\ UNCHANGED <<now, tlaVars>>

suspend_tla ==
    /\ tlaSuspended' = TRUE
    /\ suspendedUntil' = now + MaxHold
    /\ UNCHANGED <<now, tlaExpires, pauseVars>>

unsuspend_tla ==
    /\ tlaSuspended
    /\ tlaSuspended' = FALSE
    /\ suspendedUntil' = 0
    /\ UNCHANGED <<now, tlaExpires, pauseVars>>

renew_tla ==
    /\ tla_renewable
    /\ later(now, tlaExpires) + TlaTerm <= MaxTlaEnd
    /\ tlaExpires' = later(now, tlaExpires) + TlaTerm
    /\ UNCHANGED <<now, tlaSuspended, suspendedUntil, pauseVars>>

ClockInit ==
    /\ now = Genesis
    /\ paused = FALSE
    /\ pausedUntil = 0
    /\ unpausedAt = 0
    /\ tlaSuspended = FALSE
    /\ suspendedUntil = 0
    /\ tlaExpires \in TlaEnds

ClockNext ==
    \/ pause
    \/ unpause
    \/ suspend_tla
    \/ unsuspend_tla
    \/ renew_tla
    \/ advance /\ UNCHANGED <<pauseVars, tlaVars>>

=============================================================================
