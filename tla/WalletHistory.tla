-------------------------- MODULE WalletHistory --------------------------
(***************************************************************************)
(* What the wallet did, remembered beside what it is: the instants at      *)
(* which the authority held it frozen, the last time its lease was cut     *)
(* short, and the last rotation.  The history only observes; it restricts  *)
(* no step of TenantWallet.                                                *)
(***************************************************************************)
EXTENDS TenantWallet

VARIABLES
    frozenAt,       \* the instants at which the authority's freeze was in force
    cutAt,          \* when the lease was last shortened, or -1
    left            \* the last rotation: the owner it left, when, and whether it was a revert

historyVars == <<frozenAt, cutAt, left>>

HistoryInit ==
    /\ frozenAt = {}
    /\ cutAt = -1
    /\ left = [from |-> NoOne, at |-> 0, revert |-> FALSE]

(* The step is a revert; nobody's request is needed for one. *)
Reverts == \E to \in Accounts : hos_transfer_ownership(to, "Revert", NoOne)

Observe ==
    /\ frozenAt' = frozenAt \cup (IF effective_frozen' = "AuthorityFrozen" THEN {now'} ELSE {})
    /\ cutAt' = IF lease' < lease THEN now ELSE cutAt
    /\ left' = IF rotationSeq' # rotationSeq
               THEN [from |-> owner, at |-> now, revert |-> Reverts]
               ELSE left

HInit == WalletInit /\ HistoryInit
HNext == Next /\ Observe
HSpec == HInit /\ [][HNext]_<<vars, historyVars>>

-----------------------------------------------------------------------------

(* hos-wallet hos_freeze, README "Freezing runs in both directions": an    *)
(* authority freeze lapses after the hold, and the cooldown keeps it from  *)
(* being renewed into a standing hold.  Of any two instants at which the   *)
(* account was frozen by the authority, they are less than the hold apart  *)
(* (the same freeze) or more than the cooldown apart, whatever was thawed  *)
(* early, transferred, parked or frozen by the owner in between.           *)
NoStandingHold ==
    \A i, j \in frozenAt : i <= j => j - i < Hold \/ j - i > Cooldown

(* hos-wallet hos_retract_lease against hos_set_lease and hos_re_rent: a   *)
(* lease that was cut short at some instant has not ended before the       *)
(* notice has run from that instant, however often it was extended and cut *)
(* again.                                                                  *)
CutServesNotice == cutAt # -1 /\ lease_expired => now >= cutAt + Notice

(* hos-common RotationCause::Revert, "Undoes the rotation immediately      *)
(* preceding it, and nothing else": a revert hands the name to the owner   *)
(* the last rotation took it from, within the window, and never twice in a *)
(* row.                                                                    *)
RevertUndoesLast ==
    [][Reverts => /\ owner' = left.from
                  /\ ~left.revert
                  /\ now < left.at + RevertWindow]_<<vars, historyVars>>

=============================================================================
