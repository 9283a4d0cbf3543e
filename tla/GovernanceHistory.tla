------------------------- MODULE GovernanceHistory -------------------------
(***************************************************************************)
(* Governance with what an outsider records: the code last handed to       *)
(* deploy_and_migrate, and what a consumer of the registrar read and keeps *)
(* with the epoch it read.                                                 *)
(***************************************************************************)
EXTENDS Governance

VARIABLES
    ordered,        \* the code the last upgrade call sent
    cached          \* a consumer's copy of the registrar's configuration

observedVars == <<governanceVars, ordered, cached>>

Configuration == [epoch |-> epoch, code |-> code, minBalance |-> minBalance]

ObservedInit ==
    /\ GovernanceInit
    /\ ordered = None
    /\ cached = Configuration

(* The consumer may read the registrar before any step.                    *)
Observe ==
    /\ ordered' = IF \E p \in sent' \ sent : p.kind = "deploy"
                  THEN (CHOOSE p \in sent' \ sent : p.kind = "deploy").what
                  ELSE ordered
    /\ cached' \in IF scenario.contract = "registrar" THEN {cached, Configuration} ELSE {cached}

ObservedSpec == ObservedInit /\ [][GovernanceNext /\ Observe]_observedVars

-----------------------------------------------------------------------------

Treasury == INSTANCE Timelock
    WITH Values <- Accounts, delay <- Delay, announced <- heir.what, since <- heir.at,
         released <- treasury

Code == INSTANCE Timelock
    WITH Values <- Hashes, delay <- UpgradeDelay, announced <- upgrade.what, since <- upgrade.at,
         released <- ordered

(* The owner of mpc-recovery changes without a delay: there the council    *)
(* the timelock is about does not exist.                                   *)
Ruled == scenario.contract # "recovery"

Council == INSTANCE Timelock
    WITH Values <- Accounts, delay <- Delay,
         announced <- IF Ruled THEN successor.what ELSE None,
         since <- IF Ruled THEN successor.at ELSE 0,
         released <- IF Ruled THEN council ELSE None

(* commit_council_rotation, commit_treasury_rotation and upgrade implement *)
(* the timelock: who governs a contract, who it pays and what it runs      *)
(* change only as announced, after the announcement stood unaltered for    *)
(* the contract's whole delay, across replacements, cancellations, failed  *)
(* migrations and rotations of the council in between.                     *)
ChangesAreTimelocked == Council!LockSpec /\ Treasury!LockSpec /\ Code!LockSpec

(* registrar config_epoch.  docs/sharded-nft-items.md: "a consumer caching *)
(* T3 MUST record config_epoch alongside the proof and MUST re-validate    *)
(* when it differs": while it does not differ, the code and the settings   *)
(* the consumer cached are the ones in force.                              *)
CachedProofHolds ==
    scenario.contract = "registrar" /\ cached.epoch = epoch =>
        cached.code = code /\ cached.minBalance = minBalance

=============================================================================
