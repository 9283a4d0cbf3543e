----------------------------- MODULE Governance -----------------------------
(***************************************************************************)
(* How the registry, the extension, the registrar and the recovery         *)
(* contract are governed: rotating the council and the treasury, replacing *)
(* the code, giving up the account's key (seal), and the sets and settings *)
(* the council keeps.  The four contracts share no governance state, so a  *)
(* behaviour is that of one of them.                                       *)
(*                                                                         *)
(* An upgrade is two receipts: the call uses the approval up and sends     *)
(* deploy_and_migrate, which installs the code and migrates the state, or  *)
(* does neither.  seal is two as well.                                     *)
(***************************************************************************)
EXTENDS Clock, FiniteSets

CONSTANTS
    Accounts,           \* accounts that hold a role, or are proposed for one
    Self,               \* the contract's own account
    First,              \* the account the contract starts with in every role
    Hashes,             \* code hashes
    Keys,               \* the access keys the account starts with
    Tokens,
    None,               \* None, where the code has an Option
    Delay,              \* UPGRADE_DELAY_NS, 48 hours
    RecoveryDelay,      \* UPGRADE_DELAY_NS of mpc-recovery, 72 hours
    MaxSet,             \* MAX_AUTHORITY_SET, MAX_ADMINS and MAX_VENUES
    MaxAllowlist,       \* MAX_ALLOWLIST_SIZE
    MaxSweepable,       \* MAX_SWEEPABLE_SIZE
    Balances,           \* values set_min_balance is given
    FirstBalance,       \* the min_balance the registrar starts with
    MaxEpoch,           \* bound: configuration changes of a behaviour
    MaxLag,             \* bound: instants an upgrade or a seal takes
    Scenarios           \* the contract, and the affairs it attends to

ASSUME GovernanceAssumption ==
    /\ First \in Accounts /\ Self \in Accounts /\ First # Self
    /\ None \notin Accounts \cup Hashes /\ Keys # {}
    /\ {Delay, RecoveryDelay, MaxSet, MaxAllowlist, MaxSweepable, MaxEpoch, MaxLag} \subseteq Nat
    /\ MaxLag < Delay /\ Delay <= RecoveryDelay

VARIABLES
    scenario,
    council,            \* council, or the owner of mpc-recovery
    successor,          \* pending_council, or pending_owner, and its time
    treasury,
    heir,               \* pending_treasury and pending_treasury_at
    upgrade,            \* approved_code_hash and approved_at
    code,               \* the code the account runs
    proven,             \* upgrade_proven
    sent,               \* upgrades and seals whose promise has not run
    keys,               \* the account's access keys
    epoch,              \* config_epoch
    minBalance,         \* min_balance
    roster,             \* the accounts in each role
    allowlist,          \* ft_allowlist
    sweepable           \* sweepable_tokens

rotationVars == <<council, successor, treasury, heir>>
codeVars == <<upgrade, code, proven, sent, keys>>
settingVars == <<epoch, minBalance, roster, allowlist, sweepable>>
governanceVars == <<now, scenario, rotationVars, codeVars, settingVars>>

Roles == {"admin", "payment", "recovery", "venue"}
Of(contract, affair) == scenario.contract = contract /\ affair \in scenario.affairs
UpgradeDelay == IF scenario.contract = "recovery" THEN RecoveryDelay ELSE Delay

NoApproval == [what |-> None, at |-> 0]
Approval(what) == [what |-> what, at |-> now]
Stood(approval, delay) == approval # NoApproval /\ now >= approval.at + delay

-----------------------------------------------------------------------------
(* The steps the contracts share *)

ProposeCouncil(caller, next) ==
    /\ caller = council
    /\ next \notin {council, Self}
    /\ successor' = Approval(next)
    /\ UNCHANGED <<now, scenario, council, treasury, heir, codeVars, settingVars>>

DropCouncil(caller) ==
    /\ caller = council
    /\ successor # NoApproval
    /\ successor' = NoApproval
    /\ UNCHANGED <<now, scenario, council, treasury, heir, codeVars, settingVars>>

SeatCouncil ==
    /\ council' = successor.what
    /\ successor' = NoApproval
    /\ UNCHANGED <<now, scenario, treasury, heir, codeVars, settingVars>>

ProposeTreasury(caller, next) ==
    /\ caller = council
    /\ next \notin {treasury, Self}
    /\ heir' = Approval(next)
    /\ UNCHANGED <<now, scenario, council, successor, treasury, codeVars, settingVars>>

DropTreasury(caller) ==
    /\ caller = council
    /\ heir # NoApproval
    /\ heir' = NoApproval
    /\ UNCHANGED <<now, scenario, council, successor, treasury, codeVars, settingVars>>

SeatTreasury(caller) ==
    /\ heir.what = caller
    /\ Stood(heir, Delay)
    /\ treasury' = caller
    /\ heir' = NoApproval
    /\ UNCHANGED <<now, scenario, council, successor, codeVars, settingVars>>

ApproveCode(caller, hash) ==
    /\ caller = council
    /\ upgrade' = Approval(hash)
    /\ UNCHANGED <<now, scenario, rotationVars, code, proven, sent, keys, settingVars>>

(* Variant: the delay of the other contracts.                              *)
UseApprovalEarly(hash) ==
    /\ upgrade.what = hash
    /\ Stood(upgrade, Delay)
    /\ upgrade' = NoApproval
    /\ sent' = sent \cup {[kind |-> "deploy", what |-> hash, at |-> now]}
    /\ UNCHANGED <<now, scenario, rotationVars, code, proven, keys, settingVars>>

UseApproval(hash) ==
    /\ upgrade.what = hash
    /\ Stood(upgrade, UpgradeDelay)
    /\ upgrade' = NoApproval
    /\ sent' = sent \cup {[kind |-> "deploy", what |-> hash, at |-> now]}
    /\ UNCHANGED <<now, scenario, rotationVars, code, proven, keys, settingVars>>

(* deploy_and_migrate: one receipt, so both happen or neither does.        *)
Migrate(p, done, epochAfter) ==
    /\ p \in sent
    /\ p.kind = "deploy"
    /\ sent' = sent \ {p}
    /\ IF done
       THEN code' = p.what /\ proven' = TRUE /\ epoch' = epochAfter
       ELSE UNCHANGED <<code, proven, epoch>>
    /\ UNCHANGED <<now, scenario, rotationVars, upgrade, keys, minBalance, roster, allowlist,
                   sweepable>>

(* Variant: a seal before any upgrade went through.                        *)
AskSealUnproven(caller, key) ==
    /\ caller = council
    /\ sent' = sent \cup {[kind |-> "seal", what |-> key, at |-> now]}
    /\ UNCHANGED <<now, scenario, rotationVars, upgrade, code, proven, keys, settingVars>>

AskSeal(caller, key) ==
    /\ caller = council
    /\ proven
    /\ sent' = sent \cup {[kind |-> "seal", what |-> key, at |-> now]}
    /\ UNCHANGED <<now, scenario, rotationVars, upgrade, code, proven, keys, settingVars>>

Admit(caller, role, account) ==
    /\ caller = council
    /\ Cardinality(roster[role]) < MaxSet
    /\ roster' = [roster EXCEPT ![role] = @ \cup {account}]
    /\ UNCHANGED <<now, scenario, rotationVars, codeVars, epoch, minBalance, allowlist, sweepable>>

Dismiss(caller, role, account) ==
    /\ caller = council
    /\ roster' = [roster EXCEPT ![role] = @ \ {account}]
    /\ UNCHANGED <<now, scenario, rotationVars, codeVars, epoch, minBalance, allowlist, sweepable>>

DismissAdmin(caller, account) ==
    /\ Cardinality(roster["admin"]) > 1
    /\ Dismiss(caller, "admin", account)

-----------------------------------------------------------------------------
(* tla-registry *)

registry_approve_council_rotation(caller, next) ==
    Of("registry", "council") /\ ProposeCouncil(caller, next)
registry_cancel_council_rotation(caller) == Of("registry", "council") /\ DropCouncil(caller)
registry_commit_council_rotation(caller) ==
    /\ Of("registry", "council")
    /\ successor.what = caller /\ Stood(successor, Delay)
    /\ SeatCouncil

registry_approve_treasury_rotation(caller, next) ==
    Of("registry", "treasury") /\ ProposeTreasury(caller, next)
registry_cancel_treasury_rotation(caller) == Of("registry", "treasury") /\ DropTreasury(caller)
registry_commit_treasury_rotation(caller) == Of("registry", "treasury") /\ SeatTreasury(caller)

registry_approve_upgrade(caller, hash) == Of("registry", "code") /\ ApproveCode(caller, hash)
registry_upgrade(caller, hash) == Of("registry", "code") /\ caller = council /\ UseApproval(hash)
registry_migrate(p, done) == Of("registry", "code") /\ Migrate(p, done, epoch)
registry_seal(caller, key) == Of("registry", "code") /\ AskSeal(caller, key)

registry_add_admin(caller, account) == Of("registry", "roster") /\ Admit(caller, "admin", account)
registry_remove_admin(caller, account) == Of("registry", "roster") /\ DismissAdmin(caller, account)
add_payment_authority(caller, account) ==
    Of("registry", "roster") /\ Admit(caller, "payment", account)
remove_payment_authority(caller, account) ==
    Of("registry", "roster") /\ Dismiss(caller, "payment", account)
add_recovery_authority(caller, account) ==
    Of("registry", "roster") /\ Admit(caller, "recovery", account)
remove_recovery_authority(caller, account) ==
    Of("registry", "roster") /\ Dismiss(caller, "recovery", account)
add_venue(caller, account) ==
    Of("registry", "roster") /\ account # Self /\ Admit(caller, "venue", account)
remove_venue(caller, account) == Of("registry", "roster") /\ Dismiss(caller, "venue", account)

TokenStep ==
    /\ Of("registry", "tokens")
    /\ UNCHANGED <<now, scenario, rotationVars, codeVars, epoch, minBalance, roster>>

(* Adding a token pays for it in two sets, of different sizes.             *)
add_ft_allowlist(caller, token) ==
    /\ TokenStep /\ caller = council
    /\ token \notin allowlist
    /\ Cardinality(allowlist) < MaxAllowlist
    /\ token \in sweepable \/ Cardinality(sweepable) < MaxSweepable
    /\ allowlist' = allowlist \cup {token}
    /\ sweepable' = sweepable \cup {token}

remove_ft_allowlist(caller, token) ==
    /\ TokenStep /\ caller \in roster["admin"]
    /\ allowlist' = allowlist \ {token}
    /\ UNCHANGED sweepable

(* Variant: a token in use is removed.                                     *)
remove_sweepable_in_use(caller, token) ==
    /\ TokenStep /\ caller = council
    /\ sweepable' = sweepable \ {token}
    /\ UNCHANGED allowlist

remove_sweepable_token(caller, token) ==
    /\ TokenStep /\ caller = council
    /\ token \notin allowlist
    /\ sweepable' = sweepable \ {token}
    /\ UNCHANGED allowlist

-----------------------------------------------------------------------------
(* hos-extension: an admin carries out the upgrade the council approved *)

extension_approve_council_rotation(caller, next) ==
    Of("extension", "council") /\ ProposeCouncil(caller, next)
extension_cancel_council_rotation(caller) == Of("extension", "council") /\ DropCouncil(caller)
extension_commit_council_rotation(caller) ==
    /\ Of("extension", "council")
    /\ successor.what = caller /\ Stood(successor, Delay)
    /\ SeatCouncil

extension_approve_treasury_rotation(caller, next) ==
    Of("extension", "treasury") /\ ProposeTreasury(caller, next)
extension_cancel_treasury_rotation(caller) == Of("extension", "treasury") /\ DropTreasury(caller)
extension_commit_treasury_rotation(caller) == Of("extension", "treasury") /\ SeatTreasury(caller)

extension_approve_upgrade(caller, hash) == Of("extension", "code") /\ ApproveCode(caller, hash)
extension_upgrade(caller, hash) ==
    Of("extension", "code") /\ caller \in roster["admin"] /\ UseApproval(hash)
extension_migrate(p, done) == Of("extension", "code") /\ Migrate(p, done, epoch)
extension_seal(caller, key) == Of("extension", "code") /\ AskSeal(caller, key)

extension_add_admin(caller, account) ==
    Of("extension", "roster") /\ Admit(caller, "admin", account)
extension_remove_admin(caller, account) ==
    Of("extension", "roster") /\ DismissAdmin(caller, account)

-----------------------------------------------------------------------------
(* registrar: config_epoch tells a consumer that what it cached may be old *)

registrar_approve_council_rotation(caller, next) ==
    Of("registrar", "council") /\ ProposeCouncil(caller, next)
registrar_cancel_council_rotation(caller) == Of("registrar", "council") /\ DropCouncil(caller)
registrar_commit_council_rotation(caller) ==
    /\ Of("registrar", "council")
    /\ successor.what = caller /\ Stood(successor, Delay)
    /\ SeatCouncil

registrar_approve_upgrade(caller, hash) == Of("registrar", "code") /\ ApproveCode(caller, hash)
registrar_upgrade_self(caller, hash) ==
    Of("registrar", "code") /\ caller = council /\ UseApproval(hash)
(* Variant: only a change of the settings moves the epoch.                 *)
registrar_migrate_silently(p, done) ==
    Of("registrar", "code") /\ Migrate(p, done, epoch)
registrar_migrate(p, done) == Of("registrar", "code") /\ Migrate(p, done, epoch + 1)
registrar_seal(caller, key) == Of("registrar", "code") /\ AskSeal(caller, key)

set_min_balance(caller, balance) ==
    /\ Of("registrar", "settings")
    /\ caller = council
    /\ epoch < MaxEpoch
    /\ epoch' = epoch + 1
    /\ minBalance' = balance
    /\ UNCHANGED <<now, scenario, rotationVars, codeVars, roster, allowlist, sweepable>>

-----------------------------------------------------------------------------
(* mpc-recovery: either owner ends the rotation, with no delay *)

approve_owner_rotation(caller, next) == Of("recovery", "council") /\ ProposeCouncil(caller, next)
cancel_owner_rotation(caller) == Of("recovery", "council") /\ DropCouncil(caller)
commit_owner_rotation(caller) ==
    /\ Of("recovery", "council")
    /\ successor # NoApproval
    /\ caller \in {successor.what, council}
    /\ SeatCouncil

recovery_approve_upgrade(caller, hash) == Of("recovery", "code") /\ ApproveCode(caller, hash)
recovery_upgrade(caller, hash) == Of("recovery", "code") /\ caller = council /\ UseApproval(hash)
recovery_migrate(p, done) == Of("recovery", "code") /\ Migrate(p, done, epoch)
recovery_seal(caller, key) == Of("recovery", "code") /\ AskSeal(caller, key)

-----------------------------------------------------------------------------

(* The network deletes the key the seal names, if the account has it.      *)
delete_key(p) ==
    /\ p.kind = "seal"
    /\ sent' = sent \ {p}
    /\ keys' = keys \ {p.what}
    /\ UNCHANGED <<now, scenario, rotationVars, upgrade, code, proven, settingVars>>

Tick ==
    /\ advance
    /\ \A p \in sent : now < p.at + MaxLag
    /\ UNCHANGED <<scenario, rotationVars, codeVars, settingVars>>

GovernanceInit ==
    /\ now = Genesis
    /\ scenario \in Scenarios
    /\ council = First /\ successor = NoApproval
    /\ treasury = First /\ heir = NoApproval
    /\ upgrade = NoApproval /\ code = None /\ proven = FALSE /\ sent = {}
    /\ keys = Keys
    /\ epoch = 0 /\ minBalance = FirstBalance
    /\ roster = [role \in Roles |-> IF role = "admin" THEN {First} ELSE {}]
    /\ allowlist = {} /\ sweepable = {}

CouncilAffairs(caller) ==
    \/ \E next \in Accounts :
        \/ registry_approve_council_rotation(caller, next)
        \/ extension_approve_council_rotation(caller, next)
        \/ registrar_approve_council_rotation(caller, next)
        \/ approve_owner_rotation(caller, next)
    \/ registry_cancel_council_rotation(caller) \/ registry_commit_council_rotation(caller)
    \/ extension_cancel_council_rotation(caller) \/ extension_commit_council_rotation(caller)
    \/ registrar_cancel_council_rotation(caller) \/ registrar_commit_council_rotation(caller)
    \/ cancel_owner_rotation(caller) \/ commit_owner_rotation(caller)

TreasuryAffairs(caller) ==
    \/ \E next \in Accounts :
        \/ registry_approve_treasury_rotation(caller, next)
        \/ extension_approve_treasury_rotation(caller, next)
    \/ registry_cancel_treasury_rotation(caller) \/ registry_commit_treasury_rotation(caller)
    \/ extension_cancel_treasury_rotation(caller) \/ extension_commit_treasury_rotation(caller)

CodeAffairs(caller) ==
    \/ \E hash \in Hashes :
        \/ registry_approve_upgrade(caller, hash) \/ registry_upgrade(caller, hash)
        \/ extension_approve_upgrade(caller, hash) \/ extension_upgrade(caller, hash)
        \/ registrar_approve_upgrade(caller, hash) \/ registrar_upgrade_self(caller, hash)
        \/ recovery_approve_upgrade(caller, hash) \/ recovery_upgrade(caller, hash)
    \/ \E key \in Keys :
        \/ registry_seal(caller, key)
        \/ extension_seal(caller, key)
        \/ registrar_seal(caller, key)
        \/ recovery_seal(caller, key)

Settings(caller) ==
    \/ \E account \in Accounts :
        \/ registry_add_admin(caller, account) \/ registry_remove_admin(caller, account)
        \/ extension_add_admin(caller, account) \/ extension_remove_admin(caller, account)
        \/ add_payment_authority(caller, account) \/ remove_payment_authority(caller, account)
        \/ add_recovery_authority(caller, account) \/ remove_recovery_authority(caller, account)
        \/ add_venue(caller, account) \/ remove_venue(caller, account)
    \/ \E token \in Tokens :
        \/ add_ft_allowlist(caller, token)
        \/ remove_ft_allowlist(caller, token)
        \/ remove_sweepable_token(caller, token)
    \/ \E balance \in Balances : set_min_balance(caller, balance)

Receipt ==
    \E p \in sent :
        \/ \E done \in BOOLEAN :
            \/ registry_migrate(p, done)
            \/ extension_migrate(p, done)
            \/ registrar_migrate(p, done)
            \/ recovery_migrate(p, done)
        \/ delete_key(p)

GovernanceNext ==
    \/ \E caller \in Accounts \ {Self} :
        CouncilAffairs(caller) \/ TreasuryAffairs(caller) \/ CodeAffairs(caller) \/ Settings(caller)
    \/ Receipt
    \/ Tick

GovernanceSpec == GovernanceInit /\ [][GovernanceNext]_governanceVars

-----------------------------------------------------------------------------
(* Properties *)

(* Whatever rotations, upgrades and seals are under way, someone outside   *)
(* the contract governs it and receives what it pays, an admin remains,    *)
(* and once no access key is left the upgrade path has been used with      *)
(* success.  tla-registry lib.rs: "council must not be the registry, which *)
(* ends with no keys".                                                     *)
StaysGovernable ==
    /\ Self \notin {council, treasury}
    /\ roster["admin"] # {}
    /\ keys = {} => proven

(* add_ft_allowlist, remove_ft_allowlist and remove_sweepable_token: a     *)
(* token rent may be paid in can be swept out of a reclaimed name, however *)
(* the two sets fill up and drain.                                         *)
AllowlistSweepable == allowlist \subseteq sweepable

=============================================================================
