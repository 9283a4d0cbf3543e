---------------------------- MODULE Rotation ----------------------------
(***************************************************************************)
(* Why a name changes hands, and what each cause asks of the wallet and    *)
(* does to it: crates/hos-common, RotationCause.  Shared by the wallet,    *)
(* the extension and the registry.                                         *)
(***************************************************************************)

RotationCause ==
    {"Sale", "Transfer", "Deposit", "ReRent", "Reclaim", "Recovery", "Revert"}

parks(cause) == cause = "Reclaim"

repoints_payout(cause) == cause \notin {"Deposit", "ReRent"}

sweeps(cause) == cause \notin {"Recovery", "Revert"}

needs_holder(cause) == cause \in {"Sale", "Transfer", "Deposit"}

needs_expiry(cause) == cause \in {"ReRent", "Reclaim"}

=============================================================================
