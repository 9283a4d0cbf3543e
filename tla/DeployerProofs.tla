-------------------------- MODULE DeployerProofs --------------------------
(***************************************************************************)
(* For every delay, lock and set of hashes and councils: the hash the      *)
(* deployer reports is the one the wallets run, one publication runs at a  *)
(* time, and every change it makes served its delay.                       *)
(***************************************************************************)
EXTENDS DeployerHistory, TLAPS

(* The contract starts with nothing approved, published or in flight.      *)
LEMMA DeployInvInit == DeployerInit => DeployInv
BY ClockAssumption DEF DeployerInit, DeployInv, CurrentIsPublished, OneDeploy

(* gd_approve restamps the approval, so it stays no older than a           *)
(* publication it did not authorise.                                       *)
LEMMA ApproveStep ==
    ASSUME DeployInv, NEW caller \in Councils, NEW hash \in Hashes, gd_approve(caller, hash)
    PROVE  DeployInv'
<1>1. approved' \in [what : Hashes, at : Nat] \cup {NoApproval}
  BY DEF gd_approve, Approval, DeployInv
<1>2. \A d \in deploys' : InFlight(d)'
  BY DEF gd_approve, Approval, DeployInv, InFlight, networkVars
<1> QED
  BY <1>1, <1>2 DEF gd_approve, DeployInv, CurrentIsPublished, OneDeploy, networkVars

(* gd_deploy is refused while a publication is in flight: by the lock, or, *)
(* when an upgrade opened it, by the age of what could be approved since.  *)
LEMMA DeployStep ==
    ASSUME DeployInv, NEW code \in Hashes, gd_deploy(code)
    PROVE  DeployInv'
<1> DEFINE d0 == [code |-> code, hash |-> code, born |-> now, stage |-> "sent"]
<1>1. deploys = {}
  <2> SUFFICES ASSUME NEW d \in deploys PROVE FALSE
    OBVIOUS
  <2>1. d.born \in Nat /\ now \in Nat /\ now <= d.born + MaxLag
    BY DEF Publication, DeployInv, InFlight
  <2>2. lockedUntil # d.born + LockTtl
    BY <2>1, DeployerAssumption DEF gd_deploy
  <2>3. approved # NoApproval /\ approved.at \in Nat /\ now >= approved.at + Delay
    BY DEF gd_deploy, Stood, DeployInv
  <2>4. approved.at >= d.born
    BY <2>2, <2>3 DEF DeployInv, InFlight
  <2> QED
    BY <2>1, <2>3, <2>4, DeployerAssumption
<1>2. deploys' = {d0}
  BY <1>1 DEF gd_deploy
<1>3. lockedUntil' \in Nat /\ lockedUntil' = d0.born + LockTtl
  BY DeployerAssumption DEF gd_deploy, DeployInv
<1>4. InFlight(d0)'
  BY <1>1, <1>3, DeployerAssumption
     DEF gd_deploy, InFlight, DeployInv, CurrentIsPublished
<1>5. d0 \in Publication
  BY DEF DeployInv, Publication
<1> QED
  BY <1>2, <1>3, <1>4, <1>5 DEF gd_deploy, DeployInv, CurrentIsPublished, OneDeploy

(* The publication moves what the wallets run, or changes nothing but the  *)
(* receipt's fate.                                                         *)
LEMMA PublishStep ==
    ASSUME DeployInv, NEW d \in deploys, NEW done \in BOOLEAN, deploy_global_contract(d, done)
    PROVE  DeployInv'
<1> DEFINE e == [d EXCEPT !.stage = IF done THEN "done" ELSE "failed"]
<1>1. deploys' = {e}
  BY DEF deploy_global_contract, DeployInv, OneDeploy
<1>2. d \in Publication /\ d.stage = "sent"
  BY DEF DeployInv, deploy_global_contract
<1>3. /\ e \in Publication
      /\ e.hash = d.hash /\ e.born = d.born
      /\ e.stage = IF done THEN "done" ELSE "failed"
  BY <1>2 DEF Publication
<1>4. InFlight(d) /\ current = published
  BY <1>2 DEF DeployInv, InFlight
<1>5. InFlight(e)'
  BY <1>3, <1>4 DEF deploy_global_contract, InFlight, implVars
<1> QED
  BY <1>1, <1>3, <1>5
     DEF deploy_global_contract, DeployInv, CurrentIsPublished, OneDeploy, implVars

(* gd_on_deployed settles the only publication in flight.                  *)
LEMMA SettleStep ==
    ASSUME DeployInv, NEW d \in deploys, gd_on_deployed(d)
    PROVE  DeployInv'
<1>1. deploys' = {}
  BY DEF gd_on_deployed, DeployInv, OneDeploy
<1>2. d \in Publication
  BY DEF DeployInv
<1>3. current' = published'
  BY <1>2 DEF gd_on_deployed, DeployInv, InFlight
<1> QED
  BY <1>1, <1>3 DEF gd_on_deployed, DeployInv, CurrentIsPublished, OneDeploy

(* An upgrade that lands under a publication opens the lock and drops the  *)
(* approval together.                                                      *)
LEMMA MigrateStep ==
    ASSUME DeployInv, NEW m \in migrations, NEW done \in BOOLEAN, migrate(m, done)
    PROVE  DeployInv'
<1>1. \A d \in deploys' : InFlight(d)'
  BY DEF migrate, DeployInv, InFlight, networkVars
<1> QED
  BY <1>1 DEF migrate, DeployInv, CurrentIsPublished, OneDeploy, networkVars

(* Time passes while every publication is young.                           *)
LEMMA TickStep ==
    ASSUME DeployInv, Tick
    PROVE  DeployInv'
<1>1. \A d \in deploys' : InFlight(d)'
  BY DeployerAssumption
     DEF Publication, Tick, advance, DeployInv, InFlight, implVars, networkVars
<1> QED
  BY <1>1 DEF Tick, advance, DeployInv, CurrentIsPublished, OneDeploy, implVars, networkVars

(* DeployInv is inductive.                                                 *)
LEMMA DeployInvStep ==
    ASSUME DeployInv, [DeployerNext]_deployerVars
    PROVE  DeployInv'
<1> USE DEF deployerVars
<1>1. CASE UNCHANGED deployerVars
  BY <1>1 DEF DeployInv, CurrentIsPublished, OneDeploy, InFlight
<1>2. CASE CouncilCall
  <2>1. PICK caller \in Councils :
          \/ \E hash \in Hashes :
              \/ gd_approve(caller, hash)
              \/ approve_self_upgrade(caller, hash)
              \/ upgrade_self(caller, hash)
          \/ \E next \in Councils : approve_council_rotation(caller, next)
          \/ cancel_council_rotation(caller)
          \/ commit_council_rotation(caller)
    BY <1>2 DEF CouncilCall
  <2>2. CASE \E hash \in Hashes : gd_approve(caller, hash)
    BY <2>2, ApproveStep
  <2>3. CASE UNCHANGED <<now, implVars, networkVars>>
    BY <2>3 DEF implVars, networkVars, DeployInv, CurrentIsPublished, OneDeploy, InFlight
  <2> QED
    BY <2>1, <2>2, <2>3
       DEF approve_self_upgrade, upgrade_self, approve_council_rotation,
           cancel_council_rotation, commit_council_rotation
<1>3. CASE \E code \in Hashes : gd_deploy(code)
  BY <1>3, DeployStep
<1>4. CASE Receipt
  BY <1>4, PublishStep, SettleStep, MigrateStep DEF Receipt
<1>5. CASE Tick
  BY <1>5, TickStep
<1> QED
  BY <1>1, <1>2, <1>3, <1>4, <1>5 DEF DeployerNext

(* With no publication in flight, current_hash is the code every wallet    *)
(* runs.                                                                   *)
THEOREM ReportsWhatRuns == DeployerSpec => []CurrentIsPublished
<1>1. DeployInv => CurrentIsPublished
  BY DEF DeployInv
<1> QED
  BY <1>1, DeployInvInit, DeployInvStep, PTL DEF DeployerSpec

(* gd_deploy never starts a publication over one in flight.                *)
THEOREM DeploysAlone == DeployerSpec => []OneDeploy
<1>1. DeployInv => OneDeploy
  BY DEF DeployInv
<1> QED
  BY <1>1, DeployInvInit, DeployInvStep, PTL DEF DeployerSpec

-----------------------------------------------------------------------------
(* The delays *)

(* The implementation's approval is announced by gd_approve, released by   *)
(* gd_deploy, which leaves it standing, and withdrawn when a publication   *)
(* or an upgrade has landed.                                               *)
LEMMA ImplStep ==
    ASSUME DeployInv, [HistoryNext]_historyVars
    PROVE  [Impl!LockNext]_(Impl!lockVars)
<1> USE DEF Impl!lockVars, Impl!LockNext
<1>1. CASE UNCHANGED historyVars
  BY <1>1 DEF historyVars, deployerVars
<1>2. CASE DeployerNext /\ Observe
  <2>1. CASE \E caller \in Councils, hash \in Hashes : gd_approve(caller, hash)
    BY <1>2, <2>1 DEF Sent, gd_approve, Approval, Observe, networkVars, Impl!Announce
  <2>2. CASE \E code \in Hashes : gd_deploy(code)
    <3>1. PICK code \in Hashes : gd_deploy(code)
      BY <2>2
    <3>2. UNCHANGED <<now, approved>> /\ shipped' \in {shipped, approved.what}
      <4>1. \A d \in Sent : d.code = approved.what
        BY <3>1 DEF gd_deploy, Sent
      <4>2. Sent # {} => (CHOOSE d \in Sent : TRUE) \in Sent
        OBVIOUS
      <4> QED
        BY <1>2, <3>1, <4>1, <4>2 DEF gd_deploy, Observe
    <3>3. approved.what # None /\ now >= approved.at + Delay
      BY <3>1, DeployerAssumption DEF gd_deploy, Stood
    <3> QED
      BY <3>2, <3>3 DEF Impl!Release
  <2>3. CASE \E d \in deploys, done \in BOOLEAN : deploy_global_contract(d, done)
    <3>1. PICK d \in deploys, done \in BOOLEAN : deploy_global_contract(d, done)
      BY <2>3
    <3>2. d \in Publication
      BY DEF DeployInv
    <3>3. \A e \in deploys' \ deploys : e.stage # "sent"
      BY <3>1, <3>2 DEF Publication, deploy_global_contract
    <3> QED
      BY <1>2, <3>1, <3>3 DEF Sent, deploy_global_contract, Observe, implVars
  <2>4. CASE \E d \in deploys : gd_on_deployed(d)
    BY <1>2, <2>4 DEF Sent, gd_on_deployed, Observe, NoApproval, Impl!Withdraw
  <2>5. CASE \E m \in migrations, done \in BOOLEAN : migrate(m, done)
    BY <1>2, <2>5 DEF Sent, migrate, Observe, networkVars, NoApproval, Impl!Withdraw
  <2>6. CASE Tick
    BY <1>2, <2>6 DEF Sent, DeployInv, Tick, advance, Observe, implVars, networkVars, Impl!Wait
  <2>7. CASE UNCHANGED <<now, approved, deploys>>
    BY <1>2, <2>7 DEF Sent, Observe
  <2> QED
    BY <1>2, <2>1, <2>2, <2>3, <2>4, <2>5, <2>6, <2>7
       DEF DeployerNext, CouncilCall, Receipt, approve_self_upgrade, upgrade_self,
           approve_council_rotation, cancel_council_rotation, commit_council_rotation,
           implVars, networkVars
<1> QED
  BY <1>1, <1>2 DEF HistoryNext

(* The deployer's own code is announced by approve_self_upgrade; the       *)
(* upgrade_self that releases it uses it up.                               *)
LEMMA CodeStep ==
    ASSUME now \in Nat, [HistoryNext]_historyVars
    PROVE  [Code!LockNext]_(Code!lockVars)
<1> USE DEF Code!lockVars, Code!LockNext
<1>1. CASE UNCHANGED historyVars
  BY <1>1 DEF historyVars, deployerVars
<1>2. CASE DeployerNext /\ Observe
  <2>1. CASE \E caller \in Councils, hash \in Hashes : approve_self_upgrade(caller, hash)
    BY <1>2, <2>1 DEF Told, approve_self_upgrade, Approval, Observe, Code!Announce
  <2>2. CASE \E caller \in Councils, code \in Hashes : upgrade_self(caller, code)
    <3>1. PICK caller \in Councils, code \in Hashes : upgrade_self(caller, code)
      BY <2>2
    <3>2. now' = now /\ upgrade'.what = None /\ ordered' \in {ordered, upgrade.what}
      <4>1. \A m \in Told : m.code = upgrade.what
        BY <3>1 DEF upgrade_self, Told
      <4>2. Told # {} => (CHOOSE m \in Told : TRUE) \in Told
        OBVIOUS
      <4> QED
        BY <1>2, <3>1, <4>1, <4>2 DEF upgrade_self, Observe, NoApproval
    <3>3. upgrade.what # None /\ now >= upgrade.at + Delay
      BY <3>1, DeployerAssumption DEF upgrade_self, Stood
    <3> QED
      BY <3>2, <3>3 DEF Code!Release, Code!Withdraw
  <2>3. CASE Tick
    BY <1>2, <2>3 DEF Told, Tick, advance, Observe, upgradeVars, Code!Wait
  <2>4. CASE UNCHANGED <<now, upgrade>> /\ migrations' \subseteq migrations
    BY <1>2, <2>4 DEF Told, Observe
  <2> QED
    BY <1>2, <2>1, <2>2, <2>3, <2>4
       DEF DeployerNext, CouncilCall, Receipt, gd_approve, gd_deploy, deploy_global_contract,
           gd_on_deployed, migrate, approve_council_rotation, cancel_council_rotation,
           commit_council_rotation, upgradeVars
<1> QED
  BY <1>1, <1>2 DEF HistoryNext

(* The council changes as its rotation was announced.                      *)
LEMMA CouncilStep ==
    ASSUME now \in Nat, [HistoryNext]_historyVars
    PROVE  [Council!LockNext]_(Council!lockVars)
<1> USE DEF Council!lockVars, Council!LockNext
<1>1. CASE UNCHANGED historyVars
  BY <1>1 DEF historyVars, deployerVars
<1>2. CASE DeployerNext /\ Observe
  <2>1. CASE \E caller, next \in Councils : approve_council_rotation(caller, next)
    BY <2>1 DEF approve_council_rotation, Approval, Council!Announce
  <2>2. CASE \E caller \in Councils : cancel_council_rotation(caller)
    BY <2>2 DEF cancel_council_rotation, NoApproval, Council!Withdraw
  <2>3. CASE \E caller \in Councils : commit_council_rotation(caller)
    BY <2>3, DeployerAssumption DEF commit_council_rotation, Stood, NoApproval, Council!Release
  <2>4. CASE Tick
    BY <2>4 DEF Tick, advance, councilVars, Council!Wait
  <2>5. CASE UNCHANGED <<now, council, successor>>
    BY <2>5
  <2> QED
    BY <1>2, <2>1, <2>2, <2>3, <2>4, <2>5
       DEF DeployerNext, CouncilCall, Receipt, gd_approve, gd_deploy, deploy_global_contract,
           gd_on_deployed, migrate, approve_self_upgrade, upgrade_self, councilVars
<1> QED
  BY <1>1, <1>2 DEF HistoryNext

(* The deployer implements the timelock three times over: a publication,   *)
(* an upgrade of its own code and a change of council each take effect     *)
(* only as announced and after the announcement stood for its delay.       *)
THEOREM DelaysServed == HistorySpec => DelaysAreServed
<1>1. HistoryInit => /\ DeployInv
                     /\ Impl!LockInit /\ Code!LockInit /\ Council!LockInit
  BY DeployInvInit
     DEF HistoryInit, DeployerInit, NoApproval, Impl!LockInit, Code!LockInit, Council!LockInit
<1>2. [HistoryNext]_historyVars => [DeployerNext]_deployerVars
  BY DEF HistoryNext, historyVars
<1>3. DeployInv => now \in Nat
  BY DEF DeployInv
<1> QED
  BY <1>1, <1>2, <1>3, DeployInvStep, ImplStep, CodeStep, CouncilStep, PTL
     DEF HistorySpec, DelaysAreServed, Impl!LockSpec, Code!LockSpec, Council!LockSpec

=============================================================================
