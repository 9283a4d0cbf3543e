--------------------------- MODULE ImplDeployer ---------------------------
(***************************************************************************)
(* Publishing the wallet implementation: contracts/wallet-impl-deployer.   *)
(* The council approves a code hash, anyone publishes it once the approval *)
(* is old enough, and every wallet runs what was published last.  The      *)
(* deployer's own code and its council change by the same kind of delayed  *)
(* approval.  Its account holds no access key (gd_delete_key).             *)
(*                                                                         *)
(* gd_deploy, the publication and gd_on_deployed are three receipts, and   *)
(* so are upgrade_self and migrate two.                                    *)
(***************************************************************************)
EXTENDS Clock, FiniteSets

CONSTANTS
    Hashes,         \* code of wallet implementations and of deployers, and its hashes
    Councils,       \* accounts that may be the council
    FirstCouncil,   \* the council the contract starts with
    None,           \* None, where the code has an Option
    Delay,          \* approval_delay_ns
    CouncilDelay,   \* DEFAULT_APPROVAL_DELAY_NS, which a rotation serves
    LockTtl,        \* DEPLOY_LOCK_TTL_NS
    MaxLag          \* bound: instants a publication or a migration takes

(* The delay is 48 hours and the lock 10 minutes; a publication is taken   *)
(* to answer before the lock lapses.                                       *)
ASSUME DeployerAssumption ==
    /\ FirstCouncil \in Councils
    /\ None \notin Hashes \cup Councils
    /\ {Delay, CouncilDelay, LockTtl, MaxLag} \subseteq Nat
    /\ MaxLag < LockTtl /\ MaxLag < Delay

VARIABLES
    council,
    current,            \* current_hash
    approved,           \* approved_hash and approved_at
    lockedUntil,        \* deploy_locked_until
    upgrade,            \* approved_upgrade_hash and approved_upgrade_at
    successor,          \* pending_council and pending_council_at
    published,          \* the global contract the wallets follow
    deploys,            \* the publications in flight
    migrations          \* the upgrades in flight

implVars == <<current, approved, lockedUntil>>
upgradeVars == <<upgrade, migrations>>
councilVars == <<council, successor>>
networkVars == <<published, deploys>>
deployerVars == <<now, council, current, approved, lockedUntil, upgrade, successor, published,
                  deploys, migrations>>

Publication == [code : Hashes, hash : Hashes, born : Nat, stage : {"sent", "done", "failed"}]
NoApproval == [what |-> None, at |-> 0]
Approval(what) == [what |-> what, at |-> now]
Stood(approval, delay) == approval # NoApproval /\ now >= approval.at + delay

-----------------------------------------------------------------------------
(* The implementation *)

gd_approve(caller, hash) ==
    /\ caller = council
    /\ approved' = Approval(hash)
    /\ UNCHANGED <<now, current, lockedUntil, upgradeVars, councilVars, networkVars>>

(* Variant: the code is not compared with the approval.                    *)
gd_deploy_unhashed(code) ==
    /\ now >= lockedUntil
    /\ Stood(approved, Delay)
    /\ lockedUntil' = now + LockTtl
    /\ deploys' = deploys \cup {[code |-> code, hash |-> approved.what, born |-> now,
                                 stage |-> "sent"]}
    /\ UNCHANGED <<now, current, approved, upgradeVars, councilVars, published>>

(* The callback is handed the approved hash, the network the code.         *)
gd_deploy(code) ==
    /\ now >= lockedUntil
    /\ approved.what = code
    /\ Stood(approved, Delay)
    /\ lockedUntil' = now + LockTtl
    /\ deploys' = deploys \cup {[code |-> code, hash |-> approved.what, born |-> now,
                                 stage |-> "sent"]}
    /\ UNCHANGED <<now, current, approved, upgradeVars, councilVars, published>>

(* The network publishes the code, or the receipt fails.                   *)
deploy_global_contract(d, done) ==
    /\ d \in deploys
    /\ d.stage = "sent"
    /\ deploys' = (deploys \ {d}) \cup {[d EXCEPT !.stage = IF done THEN "done" ELSE "failed"]}
    /\ published' = IF done THEN d.code ELSE published
    /\ UNCHANGED <<now, implVars, upgradeVars, councilVars>>

(* Variant: a failed publication is recorded.                              *)
gd_on_deployed_anyway(d) ==
    /\ d \in deploys
    /\ d.stage # "sent"
    /\ deploys' = deploys \ {d}
    /\ lockedUntil' = 0
    /\ current' = d.hash
    /\ approved' = NoApproval
    /\ UNCHANGED <<now, upgradeVars, councilVars, published>>

gd_on_deployed(d) ==
    /\ d \in deploys
    /\ d.stage # "sent"
    /\ deploys' = deploys \ {d}
    /\ lockedUntil' = 0
    /\ IF d.stage = "done"
       THEN current' = d.hash /\ approved' = NoApproval
       ELSE UNCHANGED <<current, approved>>
    /\ UNCHANGED <<now, upgradeVars, councilVars, published>>

-----------------------------------------------------------------------------
(* The deployer's own code *)

approve_self_upgrade(caller, hash) ==
    /\ caller = council
    /\ upgrade' = Approval(hash)
    /\ UNCHANGED <<now, implVars, migrations, councilVars, networkVars>>

upgrade_self(caller, code) ==
    /\ caller = council
    /\ upgrade.what = code
    /\ Stood(upgrade, Delay)
    /\ upgrade' = NoApproval
    /\ migrations' = migrations \cup {[code |-> code, born |-> now]}
    /\ UNCHANGED <<now, implVars, councilVars, networkVars>>

(* Variant: an approval survives the code it was granted against.          *)
migrate_keeping_approval(m, done) ==
    /\ m \in migrations
    /\ migrations' = migrations \ {m}
    /\ lockedUntil' = IF done THEN 0 ELSE lockedUntil
    /\ UNCHANGED <<now, current, approved, upgrade, councilVars, networkVars>>

(* deploy_and_migrate: the new code migrates the state, or both fail.      *)
migrate(m, done) ==
    /\ m \in migrations
    /\ migrations' = migrations \ {m}
    /\ IF done
       THEN approved' = NoApproval /\ lockedUntil' = 0
       ELSE UNCHANGED <<approved, lockedUntil>>
    /\ UNCHANGED <<now, current, upgrade, councilVars, networkVars>>

-----------------------------------------------------------------------------
(* The council *)

approve_council_rotation(caller, next) ==
    /\ caller = council
    /\ next # council
    /\ successor' = Approval(next)
    /\ UNCHANGED <<now, implVars, upgradeVars, council, networkVars>>

cancel_council_rotation(caller) ==
    /\ caller = council
    /\ successor # NoApproval
    /\ successor' = NoApproval
    /\ UNCHANGED <<now, implVars, upgradeVars, council, networkVars>>

commit_council_rotation(caller) ==
    /\ successor.what = caller
    /\ Stood(successor, CouncilDelay)
    /\ council' = caller
    /\ successor' = NoApproval
    /\ UNCHANGED <<now, implVars, upgradeVars, networkVars>>

-----------------------------------------------------------------------------

Tick ==
    /\ advance
    /\ \A d \in deploys : now < d.born + MaxLag
    /\ \A m \in migrations : now < m.born + MaxLag
    /\ UNCHANGED <<implVars, upgradeVars, councilVars, networkVars>>

DeployerInit ==
    /\ now = Genesis
    /\ council = FirstCouncil
    /\ current = None
    /\ approved = NoApproval
    /\ lockedUntil = 0
    /\ upgrade = NoApproval
    /\ successor = NoApproval
    /\ published = None
    /\ deploys = {}
    /\ migrations = {}

CouncilCall ==
    \E caller \in Councils :
        \/ \E hash \in Hashes :
            \/ gd_approve(caller, hash)
            \/ approve_self_upgrade(caller, hash)
            \/ upgrade_self(caller, hash)
        \/ \E next \in Councils : approve_council_rotation(caller, next)
        \/ cancel_council_rotation(caller)
        \/ commit_council_rotation(caller)

Receipt ==
    \/ \E d \in deploys :
        \/ \E done \in BOOLEAN : deploy_global_contract(d, done)
        \/ gd_on_deployed(d)
    \/ \E m \in migrations, done \in BOOLEAN : migrate(m, done)

DeployerNext ==
    \/ CouncilCall
    \/ \E code \in Hashes : gd_deploy(code)
    \/ Receipt
    \/ Tick

DeployerSpec == DeployerInit /\ [][DeployerNext]_deployerVars

-----------------------------------------------------------------------------
(* Properties *)

(* gd_on_deployed against the network: with no publication in flight the   *)
(* hash the contract reports is the one every wallet runs, whatever was    *)
(* approved, replaced, migrated or failed meanwhile.                       *)
CurrentIsPublished == deploys = {} => current = published

(* README: "Only one deploy runs at a time", though an upgrade of the      *)
(* deployer opens the lock under a publication in flight.                  *)
OneDeploy == \A d, e \in deploys : d = e

(* The inductive strengthening of the two: a publication in flight is      *)
(* young, it is covered by the lock or by an approval no older than itself *)
(* (what an upgrade under it leaves), it carries the code that was         *)
(* approved, and its outcome is on its way to current.                     *)
InFlight(d) ==
    /\ d.born <= now /\ now <= d.born + MaxLag
    /\ \/ lockedUntil = d.born + LockTtl
       \/ approved = NoApproval
       \/ approved.at >= d.born
    /\ d.code = d.hash
    /\ IF d.stage = "done" THEN published = d.hash ELSE current = published

DeployInv ==
    /\ now \in Nat /\ lockedUntil \in Nat
    /\ approved \in [what : Hashes, at : Nat] \cup {NoApproval}
    /\ deploys \subseteq Publication
    /\ CurrentIsPublished
    /\ OneDeploy
    /\ \A d \in deploys : InFlight(d)

=============================================================================
