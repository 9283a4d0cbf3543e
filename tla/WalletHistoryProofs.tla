----------------------- MODULE WalletHistoryProofs -----------------------
(***************************************************************************)
(* What the wallet's history shows, for any delays: proofs about           *)
(* WalletHistory, resting on the invariant of TenantWalletProofs.          *)
(***************************************************************************)
EXTENDS WalletHistory, TenantWalletProofs

(* A freeze that was ever in force lies in the last hold, the Hold         *)
(* instants before freezeUntil, or more than the cooldown before it.       *)
HoldInv ==
    /\ frozenAt \subseteq Nat
    /\ freezeUntil # 0 => now >= freezeUntil - Hold
    /\ \A i \in frozenAt :
        /\ i <= now
        /\ i < freezeUntil
        /\ i >= freezeUntil - Hold \/ i + Cooldown < freezeUntil - Hold
    /\ NoStandingHold

(* The lease never ends before the notice of its last cut has run.         *)
CutInv ==
    /\ cutAt \in Nat \cup {-1}
    /\ ~Exists => lease = 0
    /\ cutAt # -1 => lease >= cutAt + Notice

(* What can be reverted is the last rotation, and it was no revert.        *)
RevertInv ==
    revertTo # NoOne => /\ revertTo = left.from
                        /\ left.revert = FALSE
                        /\ revertUntil = left.at + RevertWindow

HistoryInv == WalletInv /\ HoldInv /\ CutInv /\ RevertInv

-----------------------------------------------------------------------------

(* The types the arithmetic below rests on.                                *)
LEMMA HistoryTypes ==
    ASSUME TypeOK
    PROVE  /\ now \in Nat /\ lease \in Nat /\ freezeUntil \in Nat /\ revertUntil \in Nat
           /\ Hold \in Nat /\ Cooldown \in Nat /\ Notice \in Nat /\ RevertWindow \in Nat
           /\ Hold > 0 /\ Cooldown > 0 /\ Notice > 0 /\ RevertWindow > 0
BY ClockAssumption, TimeAssumption DEF TypeOK

(* Which calls touch what the history watches: only a freeze by the        *)
(* authority moves freezeUntil, only a retraction shortens the lease, only *)
(* a rotation moves the revert window.                                     *)
LEMMA StepShape ==
    ASSUME WalletInv, [Next]_vars
    PROVE  /\ now' = now \/ (now' = now + 1 /\ UNCHANGED walletVars)
           /\ \/ freezeUntil' = freezeUntil
              \/ now' = now /\ now >= freezeUntil + Cooldown /\ freezeUntil' = now + Hold
           /\ \/ lease' >= lease
              \/ now' = now /\ lease' >= now + Notice
              \/ ~Exists
           /\ Exists => Exists'
           /\ UNCHANGED lease \/ Exists'
           /\ \/ UNCHANGED <<revertTo, revertUntil, rotationSeq>>
              \/ rotationSeq' # rotationSeq /\ revertTo' = NoOne
              \/ /\ rotationSeq' # rotationSeq /\ now' = now /\ Exists
                 /\ revertTo' = owner /\ revertUntil' = now + RevertWindow
<1> USE HistoryTypes DEF WalletInv, Exists
<1>1. CASE \E first, pay \in Parties, until \in Leases : hos_init(first, pay, until)
  BY <1>1 DEF hos_init, freezeVars
<1>2. CASE HolderCall
  <2>1. CASE \E caller : hos_freeze(caller) \/ hos_unfreeze(caller)
    BY <2>1 DEF hos_freeze, hos_unfreeze, holderVars, leaseVars
  <2>2. CASE \E caller, e : add_extension(caller, e) \/ remove_extension(caller, e)
                                                    \/ hos_revoke_spend(caller, e)
    BY <2>2 DEF add_extension, remove_extension, hos_revoke_spend, leaseVars, freezeVars
  <2>3. CASE \E caller, e, budget, expires : hos_grant_spend(caller, e, budget, expires)
    BY <2>3 DEF hos_grant_spend, leaseVars, freezeVars
  <2>4. CASE \E caller, t, amount : charge_spend(caller, t, amount)
    BY <2>4 DEF charge_spend, leaseVars, freezeVars
  <2> QED BY <1>2, <2>1, <2>2, <2>3, <2>4 DEF HolderCall
<1>3. CASE AuthorityCall
  <2>1. ASSUME NEW to, NEW cause, apply_rotation(to, cause)
        PROVE  /\ rotationSeq' # rotationSeq
               /\ \/ revertTo' = NoOne
                  \/ revertTo' = owner /\ revertUntil' = now + RevertWindow
    <3>1. rotationSeq \in Nat
      BY TimeAssumption DEF TypeOK
    <3> QED BY <2>1, <3>1 DEF apply_rotation
  <2>2. CASE \E until \in Leases : hos_set_lease(until) \/ hos_retract_lease(until)
    BY <2>2, TimeAssumption DEF hos_set_lease, hos_retract_lease, holderVars, freezeVars
  <2>3. CASE \E pay, expected \in Parties : hos_set_payout_account(pay, expected)
    BY <2>3 DEF hos_set_payout_account, leaseVars, freezeVars
  <2>4. ASSUME NEW to, NEW cause, NEW asked_by, hos_transfer_ownership(to, cause, asked_by)
        PROVE  /\ now' = now /\ freezeUntil' = freezeUntil /\ lease' = lease
               /\ Exists /\ Exists' /\ apply_rotation(to, cause)
    BY <2>4 DEF hos_transfer_ownership, transfer_allowed, parks
  <2>5. ASSUME NEW to, NEW pay, NEW until \in Leases, hos_re_rent(to, pay, until)
        PROVE  /\ now' = now /\ freezeUntil' = freezeUntil /\ lease' >= lease
               /\ Exists /\ Exists' /\ apply_rotation(to, "ReRent")
    BY <2>5 DEF hos_re_rent, re_rent_allowed
  <2>6. CASE \E to \in Parties \cup {NoOne}, cause \in RotationCause,
                asked_by \in Parties \cup {NoOne} : hos_transfer_ownership(to, cause, asked_by)
    BY <2>6, <2>1, <2>4
  <2>7. CASE \E to, pay \in Parties, until \in Leases : hos_re_rent(to, pay, until)
    BY <2>7, <2>1, <2>5
  <2> QED BY <1>3, <2>2, <2>3, <2>6, <2>7 DEF AuthorityCall
<1>4. CASE Tick \/ UNCHANGED vars
  BY <1>4 DEF Tick, advance, walletVars, vars
<1> QED BY <1>1, <1>2, <1>3, <1>4 DEF Next

-----------------------------------------------------------------------------

(* The arithmetic of one freeze: the window [freezeUntil - Hold,           *)
(* freezeUntil) stays, or moves more than the cooldown away.  n and f are  *)
(* now and freezeUntil before the step, n2 and f2 after it.                *)
LEMMA WindowStep ==
    ASSUME NEW n \in Nat, NEW f \in Nat, NEW n2 \in Nat, NEW f2 \in Nat,
           n2 = n \/ n2 = n + 1,
           f2 = f \/ (n2 = n /\ n >= f + Cooldown /\ f2 = n + Hold),
           f # 0 => n >= f - Hold
    PROVE  /\ f2 # 0 => n2 >= f2 - Hold
           /\ \A i \in Nat :
                i <= n /\ i < f /\ (i >= f - Hold \/ i + Cooldown < f - Hold)
                => i <= n2 /\ i < f2 /\ (i >= f2 - Hold \/ i + Cooldown < f2 - Hold)
BY TimeAssumption

(* Two instants of one window are less than the hold apart, and an instant *)
(* in an earlier window is more than the cooldown away.                    *)
LEMMA WindowsApart ==
    ASSUME NEW i \in Nat, NEW j \in Nat, NEW f \in Nat,
           i >= f - Hold \/ i + Cooldown < f - Hold,
           j < f, j >= f - Hold
    PROVE  j - i < Hold \/ j - i > Cooldown
BY TimeAssumption

(* The instants of authority freezes stay in windows a cooldown apart.     *)
LEMMA HoldKept ==
    ASSUME HistoryInv, WalletInv', HNext
    PROVE  HoldInv'
<1> DEFINE new == IF effective_frozen' = "AuthorityFrozen" THEN {now'} ELSE {}
<1>1. frozenAt' = frozenAt \cup new
  BY DEF HNext, Observe
<1>2. \A i \in new : i = now' /\ i < freezeUntil'
  BY DEF effective_frozen, WalletInv, TypeOK
<1> HIDE DEF new
<1>3. now \in Nat /\ freezeUntil \in Nat /\ now' \in Nat /\ freezeUntil' \in Nat
  BY ClockAssumption DEF HistoryInv, WalletInv, TypeOK
<1>4. /\ now' = now \/ now' = now + 1
      /\ \/ freezeUntil' = freezeUntil
         \/ now' = now /\ now >= freezeUntil + Cooldown /\ freezeUntil' = now + Hold
  BY StepShape DEF HNext, HistoryInv
<1>5. /\ freezeUntil' # 0 => now' >= freezeUntil' - Hold
      /\ \A i \in Nat :
            i <= now /\ i < freezeUntil
              /\ (i >= freezeUntil - Hold \/ i + Cooldown < freezeUntil - Hold)
            => i <= now' /\ i < freezeUntil'
              /\ (i >= freezeUntil' - Hold \/ i + Cooldown < freezeUntil' - Hold)
  BY <1>3, <1>4, WindowStep DEF HistoryInv, HoldInv
<1>6. frozenAt' \subseteq Nat
  BY <1>1, <1>2, <1>3 DEF HistoryInv, HoldInv
<1>7. ASSUME NEW i \in frozenAt'
      PROVE  /\ i <= now' /\ i < freezeUntil'
             /\ i >= freezeUntil' - Hold \/ i + Cooldown < freezeUntil' - Hold
  <2>1. CASE i \in frozenAt
    BY <2>1, <1>5 DEF HistoryInv, HoldInv
  <2>2. CASE i \in new
    BY <2>2, <1>2, <1>3, <1>5
  <2> QED BY <1>1, <2>1, <2>2
<1>8. ASSUME NEW i \in frozenAt', NEW j \in frozenAt', i <= j
      PROVE  j - i < Hold \/ j - i > Cooldown
  <2>1. CASE i \in frozenAt /\ j \in frozenAt
    BY <1>8, <2>1 DEF HistoryInv, HoldInv, NoStandingHold
  <2>2. CASE j \in new
    <3>1. j = now' /\ j < freezeUntil' /\ j >= freezeUntil' - Hold
      BY <2>2, <1>2, <1>3, <1>5
    <3> QED BY <3>1, <1>3, <1>6, <1>7, WindowsApart
  <2>3. CASE i \in new /\ j \in frozenAt
    <3>1. i = now' /\ j <= now' /\ i \in Nat /\ j \in Nat
      BY <2>3, <1>1, <1>2, <1>6, <1>7
    <3> QED BY <3>1, <1>8, TimeAssumption
  <2> QED BY <1>1, <2>1, <2>2, <2>3
<1> QED BY <1>5, <1>6, <1>7, <1>8 DEF HoldInv, NoStandingHold

(* A cut lease stays at least the notice away from its cut.                *)
LEMMA CutKept ==
    ASSUME HistoryInv, WalletInv', HNext
    PROVE  CutInv'
<1>1. /\ now \in Nat /\ lease \in Nat /\ lease' \in Nat /\ Notice \in Nat
      /\ cutAt \in Nat \cup {-1}
  BY ClockAssumption, TimeAssumption DEF HistoryInv, CutInv, WalletInv, TypeOK
<1>2. cutAt' = IF lease' < lease THEN now ELSE cutAt
  BY DEF HNext, Observe
<1>3. /\ \/ lease' >= lease
         \/ now' = now /\ lease' >= now + Notice
         \/ ~Exists
      /\ Exists => Exists'
      /\ UNCHANGED lease \/ Exists'
  BY StepShape DEF HNext, HistoryInv
<1>4. /\ ~Exists => lease = 0
      /\ cutAt # -1 => lease >= cutAt + Notice
  BY DEF HistoryInv, CutInv
<1>5. lease' >= lease \/ lease' >= now + Notice
  BY <1>1, <1>3, <1>4
<1>6. cutAt' # -1 => lease' >= cutAt' + Notice
  BY <1>1, <1>2, <1>4, <1>5
<1>7. ~Exists' => lease' = 0
  BY <1>3, <1>4
<1> QED BY <1>1, <1>2, <1>6, <1>7 DEF CutInv

(* A revert empties the revert window.                                     *)
LEMMA RevertEmpties ==
    Reverts => revertTo' = NoOne
BY DEF Reverts, hos_transfer_ownership, apply_rotation

(* The revert window stays that of the last rotation.                      *)
LEMMA RevertKept ==
    ASSUME HistoryInv, HNext
    PROVE  RevertInv'
<1>1. left' = IF rotationSeq' # rotationSeq
              THEN [from |-> owner, at |-> now, revert |-> Reverts]
              ELSE left
  BY DEF HNext, Observe
<1>2. \/ UNCHANGED <<revertTo, revertUntil, rotationSeq>>
      \/ revertTo' = NoOne
      \/ /\ rotationSeq' # rotationSeq /\ Exists
         /\ revertTo' = owner /\ revertUntil' = now + RevertWindow
  BY StepShape DEF HNext, HistoryInv
<1>3. CASE UNCHANGED <<revertTo, revertUntil, rotationSeq>>
  BY <1>1, <1>3 DEF HistoryInv, RevertInv
<1>4. CASE revertTo' = NoOne
  BY <1>4 DEF RevertInv
<1>5. CASE /\ rotationSeq' # rotationSeq /\ Exists
           /\ revertTo' = owner /\ revertUntil' = now + RevertWindow
  <2>1. owner # NoOne
    BY <1>5 DEF HistoryInv, WalletInv, AuthorityKept
  <2>2. Reverts = FALSE
    <3>1. ~Reverts
      BY <1>5, <2>1, RevertEmpties
    <3>2. Reverts \in BOOLEAN
      BY DEF Reverts
    <3> QED BY <3>1, <3>2
  <2>3. left' = [from |-> owner, at |-> now, revert |-> FALSE]
    BY <1>1, <1>5, <2>2
  <2> QED BY <1>5, <2>3 DEF RevertInv
<1> QED BY <1>2, <1>3, <1>4, <1>5

-----------------------------------------------------------------------------
(* The theorems *)

(* The wallet's invariant and the three parts of the history's hold in     *)
(* every reachable state.                                                  *)
THEOREM HistoryInvariant == HSpec => []HistoryInv
<1>1. HInit => HistoryInv
  <2> SUFFICES ASSUME HInit PROVE HistoryInv
    OBVIOUS
  <2>1. WalletInv
    BY InitKeeps DEF HInit
  <2> QED BY <2>1 DEF HInit, HistoryInit, WalletInit, HistoryInv, HoldInv, CutInv, RevertInv,
                      NoStandingHold, Exists
<1>2. HistoryInv /\ [HNext]_<<vars, historyVars>> => HistoryInv'
  <2> SUFFICES ASSUME HistoryInv, [HNext]_<<vars, historyVars>> PROVE HistoryInv'
    OBVIOUS
  <2>1. CASE HNext
    <3>1. WalletInv'
      BY <2>1, StepKeeps DEF HistoryInv, HNext
    <3> QED BY <2>1, <3>1, HoldKept, CutKept, RevertKept DEF HistoryInv
  <2>2. CASE UNCHANGED <<vars, historyVars>>
    <3>1. WalletInv'
      BY <2>2, TickKeeps DEF HistoryInv
    <3>2. HoldInv' /\ CutInv' /\ RevertInv'
      BY <2>2 DEF HistoryInv, HoldInv, CutInv, RevertInv, NoStandingHold, Exists, vars,
                  historyVars
    <3> QED BY <3>1, <3>2 DEF HistoryInv
  <2> QED BY <2>1, <2>2
<1> QED BY <1>1, <1>2, PTL DEF HSpec

(* hos_freeze: no sequence of freezes, thaws and transfers holds a wallet  *)
(* frozen by the authority past the hold without the cooldown between.     *)
THEOREM NoStandingHoldEver == HSpec => []NoStandingHold
<1>1. HistoryInv => NoStandingHold
  BY DEF HistoryInv, HoldInv
<1> QED BY <1>1, HistoryInvariant, PTL

(* hos_retract_lease: a lease cut short never ends inside the notice.      *)
THEOREM CutAlwaysServesNotice == HSpec => []CutServesNotice
<1>1. HistoryInv => CutServesNotice
  <2> SUFFICES ASSUME HistoryInv, cutAt # -1, lease_expired PROVE now >= cutAt + Notice
    BY DEF CutServesNotice
  <2>1. now \in Nat /\ lease \in Nat /\ cutAt \in Nat /\ Notice \in Nat
    BY ClockAssumption, TimeAssumption DEF HistoryInv, CutInv, WalletInv, TypeOK
  <2>2. lease >= cutAt + Notice /\ now >= lease
    BY DEF HistoryInv, CutInv, lease_expired
  <2> QED BY <2>1, <2>2
<1> QED BY <1>1, HistoryInvariant, PTL

(* apply_rotation: a revert undoes the rotation before it, within the      *)
(* window, and never follows another revert.                               *)
THEOREM RevertOnlyUndoesLast == HSpec => RevertUndoesLast
<1>1. ASSUME HistoryInv, HNext, Reverts
      PROVE  owner' = left.from /\ ~left.revert /\ now < left.at + RevertWindow
  <2>1. PICK to \in Accounts : hos_transfer_ownership(to, "Revert", NoOne)
    BY <1>1 DEF Reverts
  <2>2. to = revertTo /\ revertTo # NoOne /\ now < revertUntil
    BY <2>1 DEF hos_transfer_ownership, transfer_allowed, rotation_allowed
  <2>3. owner' = to
    BY <2>1, <2>2 DEF hos_transfer_ownership, apply_rotation
  <2> QED BY <1>1, <2>2, <2>3 DEF HistoryInv, RevertInv
<1>2. HistoryInv /\ [HNext]_<<vars, historyVars>>
        => [Reverts => /\ owner' = left.from
                       /\ ~left.revert
                       /\ now < left.at + RevertWindow]_<<vars, historyVars>>
  BY <1>1
<1> QED BY <1>2, HistoryInvariant, PTL DEF HSpec, RevertUndoesLast

=============================================================================
