-------------------------- MODULE DeployerHistory --------------------------
(***************************************************************************)
(* ImplDeployer with what an outsider records of it: the code last sent    *)
(* out for publication, and the code the deployer was last told to become. *)
(***************************************************************************)
EXTENDS ImplDeployer

VARIABLES
    shipped,        \* the code of the last gd_deploy
    ordered         \* the code of the last upgrade_self

historyVars == <<deployerVars, shipped, ordered>>

(* What this step sends out, read off the receipts themselves.             *)
Sent == {d \in deploys' \ deploys : d.stage = "sent"}
Told == migrations' \ migrations

Observe ==
    /\ shipped' = IF Sent = {} THEN shipped ELSE (CHOOSE d \in Sent : TRUE).code
    /\ ordered' = IF Told = {} THEN ordered ELSE (CHOOSE m \in Told : TRUE).code

HistoryInit ==
    /\ DeployerInit
    /\ shipped = None
    /\ ordered = None

HistoryNext == DeployerNext /\ Observe
HistorySpec == HistoryInit /\ [][HistoryNext]_historyVars

-----------------------------------------------------------------------------

Impl == INSTANCE Timelock
    WITH Values <- Hashes, delay <- Delay, announced <- approved.what, since <- approved.at,
         released <- shipped

Code == INSTANCE Timelock
    WITH Values <- Hashes, delay <- Delay, announced <- upgrade.what, since <- upgrade.at,
         released <- ordered

Council == INSTANCE Timelock
    WITH Values <- Councils, delay <- CouncilDelay, announced <- successor.what,
         since <- successor.at, released <- council

(* gd_deploy, upgrade_self and commit_council_rotation implement the       *)
(* timelock: what is published, what the deployer becomes and who governs  *)
(* it were announced and stood unaltered for the whole delay.  README:     *)
(* "the only way to change the account is a governed upgrade that waits    *)
(* out the delay".                                                         *)
DelaysAreServed == Impl!LockSpec /\ Code!LockSpec /\ Council!LockSpec

=============================================================================
