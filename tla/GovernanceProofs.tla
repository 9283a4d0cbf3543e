-------------------------- MODULE GovernanceProofs --------------------------
(***************************************************************************)
(* The governance of the contracts for any accounts, hashes, tokens, keys  *)
(* and delays: proofs about Governance and GovernanceHistory.              *)
(***************************************************************************)
EXTENDS GovernanceHistory, FiniteSetTheorems, TLAPS

Outsiders == Accounts \ {Self}
Approvals(S) == {NoApproval} \cup [what : S, at : Nat]

(* What a call does, whichever contract it is a call of.                   *)
CouncilChange ==
    \/ \E caller \in Outsiders, next \in Accounts : ProposeCouncil(caller, next)
    \/ \E caller \in Outsiders : DropCouncil(caller)
    \/ /\ SeatCouncil
       /\ successor # NoApproval
       /\ Ruled => Stood(successor, Delay)

TreasuryChange ==
    \/ \E caller \in Outsiders, next \in Accounts : ProposeTreasury(caller, next)
    \/ \E caller \in Outsiders : DropTreasury(caller)
    \/ \E caller \in Outsiders : SeatTreasury(caller)

CodeChange ==
    \/ \E caller \in Outsiders, hash \in Hashes : ApproveCode(caller, hash)
    \/ \E hash \in Hashes : UseApproval(hash)
    \/ \E caller \in Outsiders, key \in Keys : AskSeal(caller, key)

SettingChange ==
    \/ \E caller \in Outsiders, role \in Roles, account \in Accounts : Admit(caller, role, account)
    \/ \E caller \in Outsiders, account \in Accounts : DismissAdmin(caller, account)
    \/ \E caller \in Outsiders, role \in Roles \ {"admin"}, account \in Accounts :
            Dismiss(caller, role, account)
    \/ \E caller \in Outsiders, token \in Tokens :
            \/ add_ft_allowlist(caller, token)
            \/ remove_ft_allowlist(caller, token)
            \/ remove_sweepable_token(caller, token)
    \/ \E caller \in Outsiders, balance \in Balances : set_min_balance(caller, balance)

MigrateChange ==
    \E p \in sent, done \in BOOLEAN, after \in {epoch, epoch + 1} :
        /\ Migrate(p, done, after)
        /\ scenario.contract = "registrar" => after = epoch + 1

KeyChange == \E p \in sent : delete_key(p)

(* Every call of every contract is one of these changes.                   *)
LEMMA Changes ==
    GovernanceNext =>
        CouncilChange \/ TreasuryChange \/ CodeChange \/ SettingChange
            \/ MigrateChange \/ KeyChange \/ Tick
<1> SUFFICES ASSUME GovernanceNext
             PROVE  CouncilChange \/ TreasuryChange \/ CodeChange \/ SettingChange
                        \/ MigrateChange \/ KeyChange \/ Tick
  OBVIOUS
<1>1. ASSUME NEW caller \in Accounts \ {Self}, CouncilAffairs(caller)
      PROVE  CouncilChange
  BY <1>1 DEF CouncilAffairs, CouncilChange, Outsiders, Ruled, Of, Stood,
       registry_approve_council_rotation, registry_cancel_council_rotation,
       registry_commit_council_rotation, extension_approve_council_rotation,
       extension_cancel_council_rotation, extension_commit_council_rotation,
       registrar_approve_council_rotation, registrar_cancel_council_rotation,
       registrar_commit_council_rotation, approve_owner_rotation, cancel_owner_rotation,
       commit_owner_rotation
<1>2. ASSUME NEW caller \in Accounts \ {Self}, TreasuryAffairs(caller)
      PROVE  TreasuryChange
  BY <1>2 DEF TreasuryAffairs, TreasuryChange, Outsiders,
       registry_approve_treasury_rotation, registry_cancel_treasury_rotation,
       registry_commit_treasury_rotation, extension_approve_treasury_rotation,
       extension_cancel_treasury_rotation, extension_commit_treasury_rotation
<1>3. ASSUME NEW caller \in Accounts \ {Self}, CodeAffairs(caller)
      PROVE  CodeChange
  BY <1>3 DEF CodeAffairs, CodeChange, Outsiders,
       registry_approve_upgrade, registry_upgrade, extension_approve_upgrade, extension_upgrade,
       registrar_approve_upgrade, registrar_upgrade_self, recovery_approve_upgrade,
       recovery_upgrade, registry_seal, extension_seal, registrar_seal, recovery_seal
<1>4. ASSUME NEW caller \in Accounts \ {Self}, Settings(caller)
      PROVE  SettingChange
  <2>1. {"admin", "payment", "recovery", "venue"} = Roles
    BY DEF Roles
  <2>2. ASSUME NEW account \in Accounts,
               \/ registry_add_admin(caller, account) \/ extension_add_admin(caller, account)
               \/ add_payment_authority(caller, account) \/ add_recovery_authority(caller, account)
               \/ add_venue(caller, account)
        PROVE  SettingChange
    BY <2>1, <2>2 DEF SettingChange, Outsiders, registry_add_admin, extension_add_admin,
         add_payment_authority, add_recovery_authority, add_venue
  <2>3. ASSUME NEW account \in Accounts,
               registry_remove_admin(caller, account) \/ extension_remove_admin(caller, account)
        PROVE  SettingChange
    BY <2>3 DEF SettingChange, Outsiders, registry_remove_admin, extension_remove_admin
  <2>4. ASSUME NEW account \in Accounts,
               \/ remove_payment_authority(caller, account)
               \/ remove_recovery_authority(caller, account)
               \/ remove_venue(caller, account)
        PROVE  SettingChange
    <3>1. PICK role \in Roles \ {"admin"} : Dismiss(caller, role, account)
      BY <2>1, <2>4 DEF remove_payment_authority, remove_recovery_authority, remove_venue
    <3> QED BY <3>1 DEF SettingChange, Outsiders
  <2>5. ASSUME NEW token \in Tokens,
               \/ add_ft_allowlist(caller, token)
               \/ remove_ft_allowlist(caller, token)
               \/ remove_sweepable_token(caller, token)
        PROVE  SettingChange
    BY <2>5 DEF SettingChange, Outsiders
  <2>6. ASSUME NEW balance \in Balances, set_min_balance(caller, balance)
        PROVE  SettingChange
    BY <2>6 DEF SettingChange, Outsiders
  <2> QED BY <1>4, <2>2, <2>3, <2>4, <2>5, <2>6 DEF Settings
<1>5. ASSUME NEW p \in sent, NEW done \in BOOLEAN,
             \/ registry_migrate(p, done) \/ extension_migrate(p, done)
             \/ registrar_migrate(p, done) \/ recovery_migrate(p, done)
      PROVE  MigrateChange
  BY <1>5 DEF MigrateChange, Of, registry_migrate, extension_migrate, registrar_migrate,
       recovery_migrate
<1> QED BY <1>1, <1>2, <1>3, <1>4, <1>5 DEF GovernanceNext, Receipt, KeyChange

-----------------------------------------------------------------------------

(* Roles are held and proposed outside the contract, and a seal was only   *)
(* ever asked for after an upgrade went through.                           *)
GovInv ==
    /\ now \in Nat
    /\ council \in Outsiders /\ successor \in Approvals(Outsiders)
    /\ treasury \in Outsiders /\ heir \in Approvals(Outsiders)
    /\ upgrade \in Approvals(Hashes)
    /\ roster \in [Roles -> SUBSET Accounts] /\ roster["admin"] # {}
    /\ proven \in BOOLEAN
    /\ (\E p \in sent : p.kind = "seal") => proven
    /\ keys = {} => proven
    /\ allowlist \subseteq sweepable

(* It holds at the start.                                                  *)
LEMMA GovInit == GovernanceInit => GovInv
<1> SUFFICES ASSUME GovernanceInit PROVE GovInv
  OBVIOUS
<1>1. roster \in [Roles -> SUBSET Accounts] /\ roster["admin"] # {}
  BY GovernanceAssumption DEF GovernanceInit, Roles
<1> QED BY <1>1, ClockAssumption, GovernanceAssumption
       DEF GovernanceInit, GovInv, Outsiders, Approvals

(* Removing one of two or more leaves someone.                             *)
LEMMA OneLeft ==
    ASSUME NEW S, NEW a, Cardinality(S) > 1
    PROVE  S \ {a} # {}
<1> SUFFICES ASSUME S \ {a} = {} PROVE FALSE
  OBVIOUS
<1>1. S = {} \/ S = {a}
  OBVIOUS
<1>2. Cardinality({}) = 0 /\ Cardinality({a}) = 1
  BY FS_EmptySet, FS_Singleton
<1> QED BY <1>1, <1>2

(* Rotations keep it.                                                      *)
LEMMA GovRotation ==
    ASSUME GovInv, CouncilChange \/ TreasuryChange
    PROVE  GovInv'
<1> USE DEF GovInv, codeVars, settingVars, rotationVars
<1>1. ASSUME NEW caller \in Outsiders, NEW next \in Accounts, ProposeCouncil(caller, next)
      PROVE  GovInv'
  BY <1>1 DEF ProposeCouncil, Approval, Approvals, Outsiders
<1>2. ASSUME NEW caller \in Outsiders, DropCouncil(caller)
      PROVE  GovInv'
  BY <1>2 DEF DropCouncil, Approvals
<1>3. ASSUME SeatCouncil, successor # NoApproval
      PROVE  GovInv'
  BY <1>3 DEF SeatCouncil, Approvals
<1>4. ASSUME NEW caller \in Outsiders, NEW next \in Accounts, ProposeTreasury(caller, next)
      PROVE  GovInv'
  BY <1>4 DEF ProposeTreasury, Approval, Approvals, Outsiders
<1>5. ASSUME NEW caller \in Outsiders, DropTreasury(caller)
      PROVE  GovInv'
  BY <1>5 DEF DropTreasury, Approvals
<1>6. ASSUME NEW caller \in Outsiders, SeatTreasury(caller)
      PROVE  GovInv'
  BY <1>6 DEF SeatTreasury, Approvals
<1> QED BY <1>1, <1>2, <1>3, <1>4, <1>5, <1>6 DEF CouncilChange, TreasuryChange

(* Upgrades, seals and what comes of them keep it.                         *)
LEMMA GovCode ==
    ASSUME GovInv, CodeChange \/ MigrateChange \/ KeyChange
    PROVE  GovInv'
<1> USE DEF GovInv, settingVars, rotationVars
<1>1. ASSUME NEW caller \in Outsiders, NEW hash \in Hashes, ApproveCode(caller, hash)
      PROVE  GovInv'
  BY <1>1 DEF ApproveCode, Approval, Approvals
<1>2. ASSUME NEW hash \in Hashes, UseApproval(hash)
      PROVE  GovInv'
  BY <1>2 DEF UseApproval, Approvals
<1>3. ASSUME NEW caller \in Outsiders, NEW key \in Keys, AskSeal(caller, key)
      PROVE  GovInv'
  BY <1>3 DEF AskSeal
<1>4. ASSUME NEW p \in sent, NEW done \in BOOLEAN, NEW after, Migrate(p, done, after)
      PROVE  GovInv'
  <2>1. proven' \in BOOLEAN /\ (proven => proven')
    BY <1>4 DEF Migrate
  <2>2. /\ sent' \subseteq sent
        /\ UNCHANGED <<now, scenario, rotationVars, upgrade, keys, minBalance, roster, allowlist,
                       sweepable>>
    BY <1>4 DEF Migrate
  <2> QED BY <2>1, <2>2
<1>5. ASSUME NEW p \in sent, delete_key(p)
      PROVE  GovInv'
  BY <1>5 DEF delete_key
<1> QED BY <1>1, <1>2, <1>3, <1>4, <1>5 DEF CodeChange, MigrateChange, KeyChange

(* The sets and the settings keep it.                                      *)
LEMMA GovSetting ==
    ASSUME GovInv, SettingChange
    PROVE  GovInv'
<1> USE DEF GovInv, codeVars, rotationVars
<1>1. ASSUME NEW caller \in Outsiders, NEW role \in Roles, NEW account \in Accounts,
             Admit(caller, role, account)
      PROVE  GovInv'
  BY <1>1 DEF Admit
<1>2. ASSUME NEW caller \in Outsiders, NEW account \in Accounts, DismissAdmin(caller, account)
      PROVE  GovInv'
  <2>1. roster["admin"] \ {account} # {}
    BY <1>2, OneLeft DEF DismissAdmin
  <2>2. "admin" \in Roles
    BY DEF Roles
  <2> QED BY <1>2, <2>1, <2>2 DEF DismissAdmin, Dismiss
<1>3. ASSUME NEW caller \in Outsiders, NEW role \in Roles \ {"admin"}, NEW account \in Accounts,
             Dismiss(caller, role, account)
      PROVE  GovInv'
  BY <1>3 DEF Dismiss
<1>4. ASSUME NEW caller \in Outsiders, NEW token \in Tokens,
             \/ add_ft_allowlist(caller, token)
             \/ remove_ft_allowlist(caller, token)
             \/ remove_sweepable_token(caller, token)
      PROVE  GovInv'
  <2>1. UNCHANGED <<now, scenario, rotationVars, codeVars, epoch, minBalance, roster>>
    BY <1>4 DEF add_ft_allowlist, remove_ft_allowlist, remove_sweepable_token, TokenStep
  <2>2. (allowlist \subseteq sweepable)'
    BY <1>4 DEF add_ft_allowlist, remove_ft_allowlist, remove_sweepable_token
  <2> QED BY <2>1, <2>2
<1>5. ASSUME NEW caller \in Outsiders, NEW balance \in Balances, set_min_balance(caller, balance)
      PROVE  GovInv'
  BY <1>5 DEF set_min_balance
<1> QED BY <1>1, <1>2, <1>3, <1>4, <1>5 DEF SettingChange

(* Every step keeps the invariant.                                         *)
LEMMA GovStep == GovInv /\ [GovernanceNext]_governanceVars => GovInv'
<1> SUFFICES ASSUME GovInv, [GovernanceNext]_governanceVars PROVE GovInv'
  OBVIOUS
<1>1. CASE UNCHANGED governanceVars
  BY <1>1 DEF GovInv, governanceVars, rotationVars, codeVars, settingVars
<1>2. CASE Tick
  BY <1>2, ClockAssumption DEF Tick, advance, GovInv, rotationVars, codeVars, settingVars
<1> QED BY <1>1, <1>2, Changes, GovRotation, GovCode, GovSetting

(* StaysGovernable: approve_council_rotation and the others refuse the     *)
(* contract itself, remove_admin keeps one, seal waits for upgrade_proven; *)
(* together a contract is never left without anyone to govern it.          *)
THEOREM AlwaysGovernable == GovernanceSpec => []StaysGovernable
<1>1. GovInv => StaysGovernable
  BY DEF GovInv, StaysGovernable, Outsiders
<1> QED BY <1>1, GovInit, GovStep, PTL DEF GovernanceSpec

(* AllowlistSweepable: whatever the sizes of the two sets.                 *)
THEOREM AlwaysSweepable == GovernanceSpec => []AllowlistSweepable
<1>1. GovInv => AllowlistSweepable
  BY DEF GovInv, AllowlistSweepable
<1> QED BY <1>1, GovInit, GovStep, PTL DEF GovernanceSpec

-----------------------------------------------------------------------------

ObservedNext == GovernanceNext /\ Observe

(* An approval that stands names something.                                *)
LEMMA ApprovalNames ==
    ASSUME NEW S, None \notin S, NEW a \in Approvals(S), a # NoApproval
    PROVE  a.what \in S /\ a.what # None /\ a.at \in Nat
BY DEF Approvals

(* The council is announced by approve_council_rotation and seated by      *)
(* commit_council_rotation, which uses the announcement up.                *)
LEMMA CouncilLock ==
    ASSUME GovInv, [ObservedNext]_observedVars
    PROVE  [Council!LockNext]_(Council!lockVars)
<1> USE DEF Council!lockVars, Council!LockNext, Ruled
<1>1. CASE UNCHANGED <<now, scenario, council, successor>>
  BY <1>1
<1>2. CASE CouncilChange
  <2>1. CASE \E caller \in Outsiders, next \in Accounts : ProposeCouncil(caller, next)
    BY <2>1 DEF ProposeCouncil, Approval, Council!Announce
  <2>2. CASE \E caller \in Outsiders : DropCouncil(caller)
    BY <2>2 DEF DropCouncil, NoApproval, Council!Withdraw
  <2>3. CASE SeatCouncil /\ successor # NoApproval /\ (Ruled => Stood(successor, Delay))
    <3>1. successor.what # None
      BY <2>3, ApprovalNames, GovernanceAssumption DEF GovInv, Outsiders
    <3>2. now' = now /\ scenario' = scenario /\ council' = successor.what /\ successor'.what = None
          /\ successor'.at = 0
      BY <2>3 DEF SeatCouncil, NoApproval
    <3> QED BY <2>3, <3>1, <3>2 DEF Stood, Council!Release
  <2> QED BY <1>2, <2>1, <2>2, <2>3 DEF CouncilChange
<1>3. CASE Tick
  BY <1>3 DEF Tick, advance, rotationVars, Council!Wait, GovInv
<1>4. CASE TreasuryChange \/ CodeChange \/ MigrateChange \/ KeyChange
  BY <1>1, <1>4 DEF TreasuryChange, CodeChange, MigrateChange, KeyChange, ProposeTreasury,
       DropTreasury, SeatTreasury, ApproveCode, UseApproval, AskSeal, Migrate, delete_key,
       rotationVars
<1>5. CASE SettingChange
  BY <1>1, <1>5 DEF SettingChange, Admit, DismissAdmin, Dismiss, add_ft_allowlist,
       remove_ft_allowlist, remove_sweepable_token, TokenStep, set_min_balance, rotationVars
<1> QED BY <1>1, <1>2, <1>3, <1>4, <1>5, Changes
       DEF ObservedNext, observedVars, governanceVars, rotationVars

(* The treasury likewise.                                                  *)
LEMMA TreasuryLock ==
    ASSUME GovInv, [ObservedNext]_observedVars
    PROVE  [Treasury!LockNext]_(Treasury!lockVars)
<1> USE DEF Treasury!lockVars, Treasury!LockNext
<1>1. CASE UNCHANGED <<now, treasury, heir>>
  BY <1>1
<1>2. CASE TreasuryChange
  <2>1. CASE \E caller \in Outsiders, next \in Accounts : ProposeTreasury(caller, next)
    BY <2>1 DEF ProposeTreasury, Approval, Treasury!Announce
  <2>2. CASE \E caller \in Outsiders : DropTreasury(caller)
    BY <2>2 DEF DropTreasury, NoApproval, Treasury!Withdraw
  <2>3. CASE \E caller \in Outsiders : SeatTreasury(caller)
    <3>1. PICK caller \in Outsiders : SeatTreasury(caller)
      BY <2>3
    <3>2. heir.what # None
      BY <3>1, GovernanceAssumption DEF SeatTreasury, Outsiders
    <3>3. now' = now /\ treasury' = heir.what /\ heir'.what = None
      BY <3>1 DEF SeatTreasury, NoApproval
    <3>4. now >= heir.at + Delay
      BY <3>1 DEF SeatTreasury, Stood
    <3> QED BY <3>2, <3>3, <3>4 DEF Treasury!Release
  <2> QED BY <1>2, <2>1, <2>2, <2>3 DEF TreasuryChange
<1>3. CASE Tick
  BY <1>3 DEF Tick, advance, rotationVars, Treasury!Wait, GovInv
<1>4. CASE CouncilChange \/ CodeChange \/ MigrateChange \/ KeyChange
  BY <1>1, <1>4 DEF CouncilChange, CodeChange, MigrateChange, KeyChange, ProposeCouncil,
       DropCouncil, SeatCouncil, ApproveCode, UseApproval, AskSeal, Migrate, delete_key,
       rotationVars
<1>5. CASE SettingChange
  BY <1>1, <1>5 DEF SettingChange, Admit, DismissAdmin, Dismiss, add_ft_allowlist,
       remove_ft_allowlist, remove_sweepable_token, TokenStep, set_min_balance, rotationVars
<1> QED BY <1>1, <1>2, <1>3, <1>4, <1>5, Changes
       DEF ObservedNext, observedVars, governanceVars, rotationVars

(* The code is announced by approve_upgrade; the upgrade that sends it     *)
(* uses the approval up, whatever becomes of the migration.                *)
LEMMA CodeLock ==
    ASSUME GovInv, [ObservedNext]_observedVars
    PROVE  [Code!LockNext]_(Code!lockVars)
<1> USE DEF Code!lockVars, Code!LockNext, UpgradeDelay
<1>1. CASE UNCHANGED <<now, scenario, upgrade, ordered>>
  BY <1>1
<1>2. CASE UNCHANGED observedVars
  BY <1>1, <1>2 DEF observedVars, governanceVars, codeVars
<1> SUFFICES ASSUME ObservedNext PROVE [Code!LockNext]_(Code!lockVars)
  BY <1>2
<1>3. ordered' = IF \E p \in sent' \ sent : p.kind = "deploy"
                 THEN (CHOOSE p \in sent' \ sent : p.kind = "deploy").what
                 ELSE ordered
  BY DEF ObservedNext, Observe
<1>4. ASSUME \A p \in sent' \ sent : p.kind # "deploy", UNCHANGED <<now, scenario, upgrade>>
      PROVE  [Code!LockNext]_(Code!lockVars)
  BY <1>1, <1>3, <1>4
<1>5. CASE CodeChange
  <2>1. ASSUME NEW caller \in Outsiders, NEW hash \in Hashes, ApproveCode(caller, hash)
        PROVE  [Code!LockNext]_(Code!lockVars)
    <3>1. ordered' = ordered
      BY <1>3, <2>1 DEF ApproveCode
    <3> QED BY <2>1, <3>1 DEF ApproveCode, Approval, Code!Announce
  <2>2. ASSUME NEW hash \in Hashes, UseApproval(hash)
        PROVE  [Code!LockNext]_(Code!lockVars)
    <3> DEFINE new == [kind |-> "deploy", what |-> hash, at |-> now]
    <3>1. sent' = sent \cup {new} /\ upgrade.what = hash /\ upgrade' = NoApproval
          /\ now' = now /\ scenario' = scenario /\ Stood(upgrade, UpgradeDelay)
      BY <2>2 DEF UseApproval
    <3>2. new.kind = "deploy" /\ new.what = hash
      OBVIOUS
    <3> HIDE DEF new
    <3>3. ordered' \in {ordered, upgrade.what}
      <4>1. CASE new \in sent
        BY <1>3, <3>1, <4>1
      <4>2. CASE new \notin sent
        <5>1. sent' \ sent = {new}
          BY <3>1, <4>2
        <5>2. (CHOOSE p \in sent' \ sent : p.kind = "deploy") = new
          BY <3>2, <5>1
        <5> QED BY <1>3, <3>1, <3>2, <5>1, <5>2
      <4> QED BY <4>1, <4>2
    <3>4. upgrade.what # None /\ now >= upgrade.at + UpgradeDelay
      BY <3>1, GovernanceAssumption DEF Stood
    <3> QED BY <3>1, <3>3, <3>4 DEF NoApproval, Code!Release, Code!Withdraw
  <2>3. ASSUME NEW caller \in Outsiders, NEW key \in Keys, AskSeal(caller, key)
        PROVE  [Code!LockNext]_(Code!lockVars)
    BY <1>4, <2>3 DEF AskSeal
  <2> QED BY <1>5, <2>1, <2>2, <2>3 DEF CodeChange
<1>6. CASE Tick
  <2>1. ordered' = ordered
    BY <1>3, <1>6 DEF Tick, codeVars
  <2> QED BY <1>6, <2>1 DEF Tick, advance, codeVars, Code!Wait, GovInv
<1>7. CASE MigrateChange \/ KeyChange
  BY <1>4, <1>7 DEF MigrateChange, KeyChange, Migrate, delete_key
<1>8. CASE CouncilChange \/ TreasuryChange
  BY <1>4, <1>8 DEF CouncilChange, TreasuryChange, ProposeCouncil, DropCouncil, SeatCouncil,
       ProposeTreasury, DropTreasury, SeatTreasury, codeVars
<1>9. CASE SettingChange
  BY <1>4, <1>9 DEF SettingChange, Admit, DismissAdmin, Dismiss, add_ft_allowlist,
       remove_ft_allowlist, remove_sweepable_token, TokenStep, set_min_balance, codeVars
<1> QED BY <1>5, <1>6, <1>7, <1>8, <1>9, Changes DEF ObservedNext

(* ChangesAreTimelocked: each contract implements the timelock for its     *)
(* council, its treasury and its code, whatever the delays.                *)
THEOREM AlwaysTimelocked == ObservedSpec => ChangesAreTimelocked
<1>1. ObservedInit => /\ GovInv
                      /\ Council!LockInit /\ Treasury!LockInit /\ Code!LockInit
  BY GovInit DEF ObservedInit, GovernanceInit, NoApproval,
       Council!LockInit, Treasury!LockInit, Code!LockInit
<1>2. [ObservedNext]_observedVars => [GovernanceNext]_governanceVars
  BY DEF ObservedNext, observedVars
<1> QED BY <1>1, <1>2, GovStep, CouncilLock, TreasuryLock, CodeLock, PTL
       DEF ObservedSpec, ObservedNext, ChangesAreTimelocked,
           Council!LockSpec, Treasury!LockSpec, Code!LockSpec

-----------------------------------------------------------------------------

(* The epoch never goes back, and a copy read under an older one says so.  *)
CacheInv ==
    /\ epoch \in Nat /\ cached.epoch \in Nat /\ cached.epoch <= epoch
    /\ CachedProofHolds

(* What the registrar serves changes only with its epoch.                  *)
LEMMA EpochMoves ==
    ASSUME epoch \in Nat, scenario.contract = "registrar", [GovernanceNext]_governanceVars
    PROVE  \/ epoch' = epoch + 1
           \/ UNCHANGED <<epoch, code, minBalance>>
<1>1. CASE UNCHANGED governanceVars
  BY <1>1 DEF governanceVars, codeVars, settingVars
<1>2. CASE CouncilChange \/ TreasuryChange
  BY <1>2 DEF CouncilChange, TreasuryChange, ProposeCouncil, DropCouncil, SeatCouncil,
       ProposeTreasury, DropTreasury, SeatTreasury, codeVars, settingVars
<1>3. CASE CodeChange \/ KeyChange \/ Tick
  BY <1>3 DEF CodeChange, KeyChange, ApproveCode, UseApproval, AskSeal, delete_key, Tick,
       codeVars, settingVars
<1>4. CASE MigrateChange
  BY <1>4 DEF MigrateChange, Migrate
<1>5. CASE SettingChange
  BY <1>5 DEF SettingChange, Admit, DismissAdmin, Dismiss, add_ft_allowlist,
       remove_ft_allowlist, remove_sweepable_token, TokenStep, set_min_balance, codeVars
<1> QED BY <1>1, <1>2, <1>3, <1>4, <1>5, Changes

(* Elsewhere the epoch stands still.                                       *)
LEMMA EpochStays ==
    ASSUME epoch \in Nat, [GovernanceNext]_governanceVars
    PROVE  epoch' \in {epoch, epoch + 1} /\ scenario' = scenario
<1>1. CASE UNCHANGED governanceVars
  BY <1>1 DEF governanceVars, settingVars
<1>2. CASE CouncilChange \/ TreasuryChange
  BY <1>2 DEF CouncilChange, TreasuryChange, ProposeCouncil, DropCouncil, SeatCouncil,
       ProposeTreasury, DropTreasury, SeatTreasury, settingVars
<1>3. CASE CodeChange \/ KeyChange \/ Tick
  BY <1>3 DEF CodeChange, KeyChange, ApproveCode, UseApproval, AskSeal, delete_key, Tick,
       settingVars
<1>4. CASE MigrateChange
  BY <1>4 DEF MigrateChange, Migrate
<1>5. CASE SettingChange
  BY <1>5 DEF SettingChange, Admit, DismissAdmin, Dismiss, add_ft_allowlist,
       remove_ft_allowlist, remove_sweepable_token, TokenStep, set_min_balance
<1> QED BY <1>1, <1>2, <1>3, <1>4, <1>5, Changes

(* CachedProofHolds: while config_epoch is the one a consumer recorded,    *)
(* the code and the minimum balance it recorded are in force.              *)
THEOREM CacheAlwaysHolds == ObservedSpec => []CachedProofHolds
<1>1. ObservedInit => CacheInv
  BY DEF ObservedInit, GovernanceInit, Configuration, CacheInv, CachedProofHolds
<1>2. CacheInv /\ [ObservedNext]_observedVars => CacheInv'
  <2> SUFFICES ASSUME CacheInv, [ObservedNext]_observedVars PROVE CacheInv'
    OBVIOUS
  <2>1. [GovernanceNext]_governanceVars
    BY DEF ObservedNext, observedVars
  <2>2. cached' = cached \/ (scenario.contract = "registrar" /\ cached' = Configuration)
    BY DEF ObservedNext, Observe, observedVars
  <2>3. epoch' \in {epoch, epoch + 1} /\ scenario' = scenario
    BY <2>1, EpochStays DEF CacheInv
  <2>4. epoch' \in Nat /\ cached'.epoch \in Nat /\ cached'.epoch <= epoch'
    BY <2>2, <2>3 DEF CacheInv, Configuration
  <2>5. ASSUME scenario.contract = "registrar", cached'.epoch = epoch'
        PROVE  cached'.code = code' /\ cached'.minBalance = minBalance'
    <3>1. cached'.epoch <= epoch
      BY <2>2 DEF CacheInv, Configuration
    <3>2. UNCHANGED <<epoch, code, minBalance>>
      BY <2>1, <2>5, <3>1, <2>4, EpochMoves DEF CacheInv
    <3> QED BY <2>2, <2>5, <3>2 DEF CacheInv, CachedProofHolds, Configuration
  <2> QED BY <2>3, <2>4, <2>5 DEF CacheInv, CachedProofHolds
<1>3. CacheInv => CachedProofHolds
  BY DEF CacheInv
<1> QED BY <1>1, <1>2, <1>3, PTL DEF ObservedSpec, ObservedNext

=============================================================================
