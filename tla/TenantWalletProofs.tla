------------------------ MODULE TenantWalletProofs ------------------------
(***************************************************************************)
(* The wallet's invariants for any set of accounts and tokens, any delays, *)
(* any bounds: proofs about TenantWallet.                                  *)
(***************************************************************************)
EXTENDS TenantWallet, TLAPS

(* An account that is not created has no extension, hence no grant; the    *)
(* other conjuncts are the invariants of TenantWallet.                     *)
WalletInv ==
    /\ TypeOK
    /\ AuthorityKept
    /\ GrantsAreHeld
    /\ ~Exists => extensions = {}

-----------------------------------------------------------------------------
(* Spending grants *)

(* kept_spent gives every asset of the new budget a meter within range.    *)
LEMMA KeptSpentType ==
    ASSUME TypeOK, NEW e, NEW budget \in Budget
    PROVE  /\ kept_spent(e, budget) \in Budget
           /\ DOMAIN kept_spent(e, budget) = DOMAIN budget
<1>1. PICK S \in SUBSET Tokens : budget \in [S \cup {Near} -> 0..MaxBudget]
  BY DEF Budget
<1>2. ASSUME NEW t \in S \cup {Near}, e \in DOMAIN grants, t \in DOMAIN grants[e].spent
      PROVE  grants[e].spent[t] \in 0..MaxBudget
  <2>1. grants[e].spent \in Budget
    BY <1>2 DEF TypeOK, SpendGrant
  <2>2. PICK R \in SUBSET Tokens : grants[e].spent \in [R \cup {Near} -> 0..MaxBudget]
    BY <2>1 DEF Budget
  <2> QED BY <2>2, <1>2
<1>3. 0 \in 0..MaxBudget
  BY TimeAssumption
<1>4. kept_spent(e, budget) \in [S \cup {Near} -> 0..MaxBudget]
  BY <1>1, <1>2, <1>3 DEF kept_spent
<1> QED BY <1>1, <1>4 DEF Budget

(* charge_spend leaves a well-formed grant, its meters within its budgets. *)
LEMMA ChargedGrantType ==
    ASSUME NEW g \in SpendGrant, NEW t \in DOMAIN g.budget, NEW amount \in Nat,
           g.spent[t] + amount <= g.budget[t]
    PROVE  [g EXCEPT !.spent[t] = @ + amount] \in SpendGrant
<1> DEFINE h == [g EXCEPT !.spent[t] = @ + amount]
<1>1. g \in [budget : Budget, spent : Budget, expires : Nat] /\ DOMAIN g.budget = DOMAIN g.spent
  BY DEF SpendGrant
<1>2. PICK S \in SUBSET Tokens : g.budget \in [S \cup {Near} -> 0..MaxBudget]
  BY <1>1 DEF Budget
<1>3. PICK R \in SUBSET Tokens : g.spent \in [R \cup {Near} -> 0..MaxBudget]
  BY <1>1 DEF Budget
<1>4. g.spent[t] + amount \in 0..MaxBudget
  <2>1. g.spent[t] \in 0..MaxBudget /\ g.budget[t] \in 0..MaxBudget
    BY <1>1, <1>2, <1>3
  <2>2. MaxBudget \in Nat
    BY TimeAssumption
  <2> QED BY <2>1, <2>2
<1>5. h.spent = [g.spent EXCEPT ![t] = g.spent[t] + amount]
  BY <1>1
<1>6. h.spent \in [R \cup {Near} -> 0..MaxBudget]
  BY <1>3, <1>4, <1>5
<1>7. h.spent \in Budget
  BY <1>6 DEF Budget
<1>8. DOMAIN h.spent = DOMAIN g.spent
  BY <1>5
<1>9. h.budget = g.budget /\ h.expires = g.expires
  BY <1>1
<1>10. h \in [budget : Budget, spent : Budget, expires : Nat]
  BY <1>1, <1>7, <1>9
<1> QED BY <1>1, <1>8, <1>9, <1>10 DEF SpendGrant

-----------------------------------------------------------------------------
(* Each action preserves the invariant *)

(* The invariant holds before the account is created.                      *)
LEMMA InitKeeps ==
    WalletInit => WalletInv
<1> SUFFICES ASSUME WalletInit PROVE WalletInv
  OBVIOUS
<1>1. Genesis \in Genesis..MaxTime
  BY ClockAssumption
<1> QED BY <1>1, TimeAssumption, PartiesAssumption
        DEF WalletInit, WalletInv, TypeOK, AuthorityKept, GrantsAreHeld, Exists, NoGrants,
            OperatingState, FreezeState

(* hos_init keeps it.                                                      *)
LEMMA CreateKeeps ==
    ASSUME WalletInv, NEW first \in Parties, NEW pay \in Parties, NEW until \in Leases,
           hos_init(first, pay, until)
    PROVE  WalletInv'
<1> USE DEF hos_init, Exists
<1>1. first \in Accounts /\ pay \in Accounts \cup {Authority}
  BY DEF Parties
<1>2. TypeOK'
  BY <1>1 DEF WalletInv, TypeOK, OperatingState, freezeVars
<1>3. AuthorityKept'
  BY <1>1, PartiesAssumption DEF AuthorityKept
<1>4. GrantsAreHeld'
  BY DEF WalletInv, GrantsAreHeld
<1> QED BY <1>2, <1>3, <1>4 DEF WalletInv

(* add_extension and remove_extension keep it.                             *)
LEMMA ExtensionsKeep ==
    ASSUME WalletInv, NEW caller, NEW e \in Parties,
           add_extension(caller, e) \/ remove_extension(caller, e)
    PROVE  WalletInv'
<1> USE DEF leaseVars, freezeVars, Exists
<1>1. CASE add_extension(caller, e)
  <2>1. TypeOK'
    BY <1>1 DEF WalletInv, TypeOK, add_extension, Parties
  <2>2. AuthorityKept' /\ GrantsAreHeld'
    BY <1>1 DEF WalletInv, AuthorityKept, GrantsAreHeld, add_extension
  <2> QED BY <1>1, <2>1, <2>2 DEF WalletInv, add_extension
<1>2. CASE remove_extension(caller, e)
  <2>1. TypeOK'
    BY <1>2 DEF WalletInv, TypeOK, remove_extension
  <2>2. AuthorityKept' /\ GrantsAreHeld'
    BY <1>2 DEF WalletInv, AuthorityKept, GrantsAreHeld, remove_extension
  <2> QED BY <1>2, <2>1, <2>2 DEF WalletInv, remove_extension
<1> QED BY <1>1, <1>2

(* hos_grant_spend keeps it.                                               *)
LEMMA GrantKeeps ==
    ASSUME WalletInv, NEW caller, NEW e \in Parties, NEW budget \in Budget,
           NEW expires \in GrantEnds, hos_grant_spend(caller, e, budget, expires)
    PROVE  WalletInv'
<1> DEFINE g == [budget |-> budget, spent |-> kept_spent(e, budget), expires |-> expires]
<1> USE DEF leaseVars, freezeVars, Exists
<1>1. g \in SpendGrant
  BY KeptSpentType, TimeAssumption DEF WalletInv, SpendGrant
<1>2. e \in Accounts
  BY DEF WalletInv, TypeOK, hos_grant_spend
<1> HIDE DEF g
<1>3. grants' = [x \in DOMAIN grants \cup {e} |-> IF x = e THEN g ELSE grants[x]]
  BY DEF hos_grant_spend, g
<1>4. TypeOK'
  BY <1>1, <1>2, <1>3 DEF WalletInv, TypeOK, hos_grant_spend
<1>5. AuthorityKept' /\ GrantsAreHeld'
  BY <1>3 DEF WalletInv, AuthorityKept, GrantsAreHeld, hos_grant_spend
<1> QED BY <1>4, <1>5 DEF WalletInv, hos_grant_spend

(* hos_revoke_spend keeps it.                                              *)
LEMMA RevokeKeeps ==
    ASSUME WalletInv, NEW caller, NEW e, hos_revoke_spend(caller, e)
    PROVE  WalletInv'
<1> USE DEF leaseVars, freezeVars, Exists
<1>1. TypeOK'
  BY DEF WalletInv, TypeOK, hos_revoke_spend
<1>2. AuthorityKept' /\ GrantsAreHeld'
  BY DEF WalletInv, AuthorityKept, GrantsAreHeld, hos_revoke_spend
<1> QED BY <1>1, <1>2 DEF WalletInv, hos_revoke_spend

(* charge_spend keeps it.                                                  *)
LEMMA ChargeKeeps ==
    ASSUME WalletInv, NEW e, NEW t, NEW amount \in Nat, charge_spend(e, t, amount)
    PROVE  WalletInv'
<1> USE DEF leaseVars, freezeVars, Exists
<1> DEFINE h == [grants[e] EXCEPT !.spent[t] = @ + amount]
<1>1. h \in SpendGrant
  BY ChargedGrantType DEF charge_spend, WalletInv, TypeOK
<1>2. grants' = [grants EXCEPT ![e] = h]
  BY DEF charge_spend
<1> HIDE DEF h
<1>3. DOMAIN grants' = DOMAIN grants /\ \A x \in DOMAIN grants : grants'[x] \in SpendGrant
  BY <1>1, <1>2 DEF WalletInv, TypeOK
<1>4. TypeOK'
  BY <1>3 DEF WalletInv, TypeOK, charge_spend
<1>5. AuthorityKept' /\ GrantsAreHeld'
  BY <1>3 DEF WalletInv, AuthorityKept, GrantsAreHeld, charge_spend
<1> QED BY <1>4, <1>5 DEF WalletInv, charge_spend

(* hos_set_lease, hos_retract_lease and hos_set_payout_account keep it.    *)
LEMMA LeaseCallsKeep ==
    ASSUME WalletInv,
           \/ \E until \in Leases : hos_set_lease(until) \/ hos_retract_lease(until)
           \/ \E pay, expected \in Parties : hos_set_payout_account(pay, expected)
    PROVE  WalletInv'
<1> USE DEF leaseVars, freezeVars, holderVars, Exists
<1>1. ASSUME NEW until \in Leases, hos_set_lease(until)
      PROVE  WalletInv'
  BY <1>1 DEF WalletInv, TypeOK, AuthorityKept, GrantsAreHeld, hos_set_lease, OperatingState
<1>2. ASSUME NEW until \in Leases, hos_retract_lease(until)
      PROVE  WalletInv'
  BY <1>2 DEF WalletInv, TypeOK, AuthorityKept, GrantsAreHeld, hos_retract_lease
<1>3. ASSUME NEW pay \in Parties, NEW expected \in Parties,
             hos_set_payout_account(pay, expected)
      PROVE  WalletInv'
  BY <1>3 DEF WalletInv, TypeOK, AuthorityKept, GrantsAreHeld, hos_set_payout_account, Parties
<1> QED BY <1>1, <1>2, <1>3

(* apply_rotation keeps it, whatever its caller does to the rest.          *)
LEMMA RotationKeeps ==
    ASSUME WalletInv, Exists, NEW to \in Parties \cup {NoOne}, NEW cause \in RotationCause,
           to \notin {Self, Authority}, apply_rotation(to, cause),
           payout' \in Accounts \cup {Authority, NoOne},
           opState' \in {"Active", "Parked"}, lease' \in Leases \cup {0},
           UNCHANGED <<now, freezeUntil>>
    PROVE  WalletInv'
<1> USE DEF Exists
<1>1. to \in Accounts \cup {NoOne}
  BY DEF Parties
<1>2. revertTo' \in Accounts \cup {NoOne} /\ revertUntil' \in Nat
  BY ClockAssumption, TimeAssumption DEF WalletInv, TypeOK, apply_rotation
<1>3. rotationSeq' \in 0..MaxRotations
  BY TimeAssumption DEF WalletInv, TypeOK, apply_rotation
<1>4. /\ extensions' \in SUBSET (Accounts \cup {Authority}) /\ Authority \in extensions'
      /\ owner' \in Accounts \cup {NoOne} /\ owner' # NoOne
      /\ frozen' \in FreezeState
  BY <1>1 DEF WalletInv, TypeOK, AuthorityKept, apply_rotation, FreezeState
<1>5. grants' = NoGrants /\ DOMAIN grants' = {}
  BY DEF apply_rotation, NoGrants
<1>6. TypeOK'
  BY <1>2, <1>3, <1>4, <1>5 DEF WalletInv, TypeOK, OperatingState
<1>7. AuthorityKept' /\ GrantsAreHeld' /\ Exists'
  BY <1>4, <1>5 DEF AuthorityKept, GrantsAreHeld
<1> QED BY <1>6, <1>7 DEF WalletInv

(* hos_transfer_ownership keeps it.                                        *)
LEMMA TransferKeeps ==
    ASSUME WalletInv, NEW to \in Parties \cup {NoOne}, NEW cause \in RotationCause,
           NEW asked_by, hos_transfer_ownership(to, cause, asked_by)
    PROVE  WalletInv'
<1>1. to \notin {Self, Authority} /\ Exists
  BY DEF hos_transfer_ownership, transfer_allowed, rotation_allowed
<1>2. payout' \in Accounts \cup {Authority, NoOne}
  BY <1>1 DEF hos_transfer_ownership, WalletInv, TypeOK, Parties
<1>3. opState' \in {"Active", "Parked"}
  BY <1>1 DEF hos_transfer_ownership, WalletInv, TypeOK, OperatingState, Exists
<1>4. lease' \in Leases \cup {0} /\ UNCHANGED <<now, freezeUntil>> /\ apply_rotation(to, cause)
  BY DEF hos_transfer_ownership, WalletInv, TypeOK
<1> QED BY <1>1, <1>2, <1>3, <1>4, RotationKeeps

(* hos_re_rent keeps it.                                                   *)
LEMMA ReRentKeeps ==
    ASSUME WalletInv, NEW to \in Parties, NEW pay \in Parties, NEW until \in Leases,
           hos_re_rent(to, pay, until)
    PROVE  WalletInv'
<1>1. to \notin {Self, Authority} /\ pay # Self /\ Exists
  BY DEF hos_re_rent, re_rent_allowed, rotation_allowed
<1>2. payout' \in Accounts \cup {Authority, NoOne}
  BY <1>1 DEF hos_re_rent, Parties
<1>3. /\ opState' \in {"Active", "Parked"} /\ lease' \in Leases \cup {0}
      /\ UNCHANGED <<now, freezeUntil>> /\ apply_rotation(to, "ReRent")
  BY DEF hos_re_rent
<1>4. "ReRent" \in RotationCause
  BY DEF RotationCause
<1> QED BY <1>1, <1>2, <1>3, <1>4, RotationKeeps

(* hos_freeze and hos_unfreeze keep it.                                    *)
LEMMA FreezeKeeps ==
    ASSUME WalletInv, NEW caller, hos_freeze(caller) \/ hos_unfreeze(caller)
    PROVE  WalletInv'
<1> USE DEF leaseVars, holderVars, Exists
<1>1. CASE hos_freeze(caller)
  <2>1. frozen' \in FreezeState /\ freezeUntil' \in Nat
    BY <1>1, ClockAssumption, TimeAssumption DEF WalletInv, TypeOK, hos_freeze, FreezeState
  <2> QED
    BY <1>1, <2>1 DEF WalletInv, TypeOK, AuthorityKept, GrantsAreHeld, hos_freeze
<1>2. CASE hos_unfreeze(caller)
  BY <1>2 DEF WalletInv, TypeOK, AuthorityKept, GrantsAreHeld, hos_unfreeze, FreezeState
<1> QED BY <1>1, <1>2

(* Time and stuttering keep it.                                            *)
LEMMA TickKeeps ==
    ASSUME WalletInv, Tick \/ UNCHANGED vars
    PROVE  WalletInv'
<1> USE DEF Exists
<1>1. CASE Tick
  <2>1. now' \in Genesis..MaxTime
    BY <1>1, ClockAssumption DEF WalletInv, TypeOK, Tick, advance
  <2> QED BY <1>1, <2>1 DEF WalletInv, TypeOK, AuthorityKept, GrantsAreHeld, Tick, walletVars
<1>2. CASE UNCHANGED vars
  BY <1>2 DEF WalletInv, TypeOK, AuthorityKept, GrantsAreHeld, vars
<1> QED BY <1>1, <1>2

(* Every call on the wallet keeps the inductive invariant.                 *)
LEMMA StepKeeps ==
    WalletInv /\ [Next]_vars => WalletInv'
<1> SUFFICES ASSUME WalletInv, [Next]_vars PROVE WalletInv'
  OBVIOUS
<1>1. CASE \E first, pay \in Parties, until \in Leases : hos_init(first, pay, until)
  BY <1>1, CreateKeeps
<1>2. CASE HolderCall
  <2>1. PICK caller \in Accounts \cup {Authority} :
            \/ \E e \in Parties :
                \/ add_extension(caller, e)
                \/ remove_extension(caller, e)
                \/ hos_revoke_spend(caller, e)
                \/ \E budget \in Budget, expires \in GrantEnds :
                        hos_grant_spend(caller, e, budget, expires)
            \/ \E t \in Tokens \cup {Near}, amount \in 1..MaxBudget :
                    charge_spend(caller, t, amount)
            \/ hos_freeze(caller)
            \/ hos_unfreeze(caller)
    BY <1>2 DEF HolderCall
  <2>2. \A amount \in 1..MaxBudget : amount \in Nat
    BY TimeAssumption
  <2> QED BY <2>1, <2>2, ExtensionsKeep, RevokeKeeps, GrantKeeps, ChargeKeeps, FreezeKeeps
<1>3. CASE AuthorityCall
  BY <1>3, LeaseCallsKeep, TransferKeeps, ReRentKeeps DEF AuthorityCall
<1>4. CASE Tick \/ UNCHANGED vars
  BY <1>4, TickKeeps
<1> QED BY <1>1, <1>2, <1>3, <1>4 DEF Next

-----------------------------------------------------------------------------
(* The theorems *)

(* WalletInv holds in every reachable state of the wallet.                 *)
THEOREM WalletInvariant == Spec => []WalletInv
<1>1. WalletInit => WalletInv
  BY InitKeeps
<1>2. WalletInv /\ [Next]_vars => WalletInv'
  BY StepKeeps
<1> QED BY <1>1, <1>2, PTL DEF Spec

(* Type correctness of hos-wallet: neither the account itself nor the      *)
(* authority ever owns the account, and no meter leaves its range.         *)
THEOREM TypeCorrect == Spec => []TypeOK
<1>1. WalletInv => TypeOK
  BY DEF WalletInv
<1> QED BY <1>1, WalletInvariant, PTL

(* No call removes the lease authority from the extension set.             *)
THEOREM AuthorityAlwaysKept == Spec => []AuthorityKept
<1>1. WalletInv => AuthorityKept
  BY DEF WalletInv
<1> QED BY <1>1, WalletInvariant, PTL

(* No spending grant outlives the access it was written for.               *)
THEOREM GrantsAlwaysHeld == Spec => []GrantsAreHeld
<1>1. WalletInv => GrantsAreHeld
  BY DEF WalletInv
<1> QED BY <1>1, WalletInvariant, PTL

=============================================================================
