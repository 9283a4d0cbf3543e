-------------------------- MODULE TenantWallet --------------------------
(***************************************************************************)
(* One leased account: contracts/hos-wallet.  The account holds no key; it *)
(* is driven by its extension set, which always contains the lease         *)
(* authority and, while the name is held, its owner.  Every action is one  *)
(* receipt.  A call whose requirement fails panics and changes nothing, so *)
(* a requirement is a guard.                                               *)
(*                                                                         *)
(* Time is a bounded natural number; several receipts may run at the same  *)
(* instant.  Callers are free: whatever the authority (hos-extension) may  *)
(* send, it may send at any time.                                          *)
(***************************************************************************)
EXTENDS Clock, Rotation

CONSTANTS
    Accounts,       \* accounts that may own, hold, be paid or be granted
    Authority,      \* the lease authority, fixed at initialisation
    Self,           \* the leased account itself
    NoOne,          \* None, where the code has an Option<AccountId>
    Tokens,         \* fungible tokens a grant may list
    Near,           \* the native token, which every grant meters
    Hold,           \* MAX_AUTHORITY_HOLD_NS
    Cooldown,       \* AUTHORITY_FREEZE_COOLDOWN_NS
    Notice,         \* MIN_LEASE_RETRACT_NOTICE_NS
    RevertWindow,   \* REVERT_WINDOW_NS
    Leases,         \* bound: the lease ends anyone asks for
    GrantEnds,      \* bound: the grant expiries the owner asks for
    MaxRotations,   \* bound: rotations of one account
    MaxBudget       \* bound: the largest budget and the largest charge

ASSUME PartiesAssumption ==
    /\ Authority \notin Accounts
    /\ Self \notin Accounts \cup {Authority}
    /\ NoOne \notin Accounts \cup {Authority, Self}
    /\ Near \notin Tokens

ASSUME TimeAssumption ==
    /\ {Hold, Cooldown, Notice, RevertWindow} \subseteq Nat \ {0}
    /\ {MaxRotations, MaxBudget} \subseteq Nat
    /\ Leases \cup GrantEnds \subseteq Nat
    /\ Genesis >= Cooldown

VARIABLES
    opState,        \* state, or "Absent" before the account is created
    owner,
    payout,         \* payout_account
    extensions,     \* wallet.extensions
    lease,          \* lease_until_ns
    frozen,
    freezeUntil,    \* authority_freeze_until_ns
    grants,         \* spend_grants: extension -> its metered budget
    revertTo,       \* revert_to
    revertUntil,    \* revert_until_ns
    rotationSeq     \* rotation_seq

holderVars == <<owner, payout, extensions, grants, revertTo, revertUntil, rotationSeq>>
leaseVars == <<opState, lease>>
freezeVars == <<frozen, freezeUntil>>
walletVars == <<opState, owner, payout, extensions, lease, frozen, freezeUntil,
                grants, revertTo, revertUntil, rotationSeq>>
vars == <<now, opState, owner, payout, extensions, lease, frozen, freezeUntil,
          grants, revertTo, revertUntil, rotationSeq>>

Parties == Accounts \cup {Authority, Self}
FreezeState == {"Unfrozen", "SelfFrozen", "AuthorityFrozen"}
OperatingState == {"Absent", "Active", "Parked"}

(***************************************************************************)
(* A grant meters the native token and every token it lists.  Receivers    *)
(* and item fences filter one request and keep no state, so they are left  *)
(* out.                                                                    *)
(***************************************************************************)
Budget == UNION {[S \cup {Near} -> 0..MaxBudget] : S \in SUBSET Tokens}
SpendGrant ==
    {g \in [budget : Budget, spent : Budget, expires : Nat] :
        DOMAIN g.budget = DOMAIN g.spent}
NoGrants == [e \in {} |-> NoOne]

-----------------------------------------------------------------------------
(* Predicates the handlers consult *)

lease_expired == now >= lease

effective_frozen ==
    IF frozen = "AuthorityFrozen" /\ now >= freezeUntil THEN "Unfrozen" ELSE frozen

assert_renter_active ==
    /\ opState = "Active"
    /\ ~lease_expired
    /\ effective_frozen = "Unfrozen"

assert_owner(caller) == caller = owner /\ caller \in extensions

assert_extension_editor(caller) ==
    \/ caller = Authority /\ lease_expired
    \/ caller # Authority /\ assert_owner(caller) /\ assert_renter_active

Exists == opState # "Absent"

-----------------------------------------------------------------------------
(* Creation: the registrar's batch creates the account and calls hos_init *)

hos_init(first, pay, until) ==
    /\ opState = "Absent"
    /\ until > now
    /\ pay # Self
    /\ first \notin {Self, Authority}
    /\ opState' = "Active"
    /\ owner' = first
    /\ payout' = pay
    /\ extensions' = {first, Authority}
    /\ lease' = until
    /\ UNCHANGED <<now, freezeVars, grants, revertTo, revertUntil, rotationSeq>>

-----------------------------------------------------------------------------
(* The owner's and the extensions' calls: w_execute_extension and grants *)

add_extension(caller, e) ==
    /\ Exists
    /\ caller \in extensions
    /\ assert_extension_editor(caller)
    /\ e # Self
    /\ e \notin extensions
    /\ extensions' = extensions \cup {e}
    /\ UNCHANGED <<now, owner, payout, grants, revertTo, revertUntil, rotationSeq,
                   leaseVars, freezeVars>>

(* Variant: the authority is not protected.                                *)
remove_extension_unprotected(caller, e) ==
    /\ Exists
    /\ caller \in extensions
    /\ assert_extension_editor(caller)
    /\ e \in extensions
    /\ extensions' = extensions \ {e}
    /\ grants' = [x \in DOMAIN grants \ {e} |-> grants[x]]
    /\ UNCHANGED <<now, owner, payout, revertTo, revertUntil, rotationSeq,
                   leaseVars, freezeVars>>

remove_extension(caller, e) ==
    /\ Exists
    /\ caller \in extensions
    /\ assert_extension_editor(caller)
    /\ e # Authority
    /\ e \in extensions
    /\ extensions' = extensions \ {e}
    /\ grants' = [x \in DOMAIN grants \ {e} |-> grants[x]]
    /\ UNCHANGED <<now, owner, payout, revertTo, revertUntil, rotationSeq,
                   leaseVars, freezeVars>>

(* Variant: a new grant starts a new meter.                                *)
kept_spent_reset(e, budget) == [t \in DOMAIN budget |-> 0]

(***************************************************************************)
(* A grant keeps what was spent of the native token, and of a token the    *)
(* previous grant also listed.                                             *)
(***************************************************************************)
kept_spent(e, budget) ==
    [t \in DOMAIN budget |->
        IF e \in DOMAIN grants /\ t \in DOMAIN grants[e].spent
        THEN grants[e].spent[t]
        ELSE 0]

hos_grant_spend(caller, e, budget, expires) ==
    /\ Exists
    /\ assert_owner(caller)
    /\ assert_renter_active
    /\ e \notin {owner, Authority}
    /\ e \in extensions
    /\ expires > now
    /\ grants' = [x \in DOMAIN grants \cup {e} |->
                    IF x = e
                    THEN [budget |-> budget, spent |-> kept_spent(e, budget), expires |-> expires]
                    ELSE grants[x]]
    /\ UNCHANGED <<now, owner, payout, extensions, revertTo, revertUntil, rotationSeq,
                   leaseVars, freezeVars>>

hos_revoke_spend(caller, e) ==
    /\ Exists
    /\ assert_owner(caller)
    /\ e \in DOMAIN grants
    /\ grants' = [x \in DOMAIN grants \ {e} |-> grants[x]]
    /\ UNCHANGED <<now, owner, payout, extensions, revertTo, revertUntil, rotationSeq,
                   leaseVars, freezeVars>>

(***************************************************************************)
(* An extension that is neither the authority nor the owner sends value    *)
(* out of the account.  A request of several promises charges them one     *)
(* after the other in the same receipt.  The owner's own requests are not  *)
(* metered and leave this state alone.                                     *)
(***************************************************************************)
charge_spend(e, t, amount) ==
    /\ Exists
    /\ e \in extensions \ {Authority, owner}
    /\ assert_renter_active
    /\ e \in DOMAIN grants
    /\ now < grants[e].expires
    /\ t \in DOMAIN grants[e].budget
    /\ grants[e].spent[t] + amount <= grants[e].budget[t]
    /\ grants' = [grants EXCEPT ![e].spent[t] = @ + amount]
    /\ UNCHANGED <<now, owner, payout, extensions, revertTo, revertUntil, rotationSeq,
                   leaseVars, freezeVars>>

-----------------------------------------------------------------------------
(* The authority's calls on the lease *)

hos_set_payout_account(pay, expected) ==
    /\ Exists
    /\ owner = expected
    /\ pay # Self
    /\ payout' = pay
    /\ UNCHANGED <<now, owner, extensions, grants, revertTo, revertUntil, rotationSeq,
                   leaseVars, freezeVars>>

hos_set_lease(until) ==
    /\ Exists
    /\ until >= lease
    /\ lease' = until
    /\ opState' = "Active"
    /\ UNCHANGED <<now, holderVars, freezeVars>>

(* Variant: no notice.                                                     *)
hos_retract_lease_at_once(until) ==
    /\ Exists
    /\ until <= lease
    /\ lease' = until
    /\ UNCHANGED <<now, opState, holderVars, freezeVars>>

hos_retract_lease(until) ==
    /\ Exists
    /\ until <= lease
    /\ until >= now + Notice
    /\ lease' = until
    /\ UNCHANGED <<now, opState, holderVars, freezeVars>>

-----------------------------------------------------------------------------
(* Rotation *)

(* Variant: a revert is possible after its window.                         *)
rotation_allowed_any_time(to, cause, asked_by) ==
    /\ IF cause = "Revert"
       THEN revertTo # NoOne /\ to = revertTo
       ELSE /\ needs_holder(cause) => asked_by \in extensions \ {Authority}
            /\ needs_expiry(cause) => lease_expired
    /\ to \notin {Self, Authority}

(* What apply_rotation requires. *)
rotation_allowed(to, cause, asked_by) ==
    /\ IF cause = "Revert"
       THEN /\ revertTo # NoOne
            /\ now < revertUntil
            /\ to = revertTo
       ELSE /\ needs_holder(cause) => asked_by \in extensions \ {Authority}
            /\ needs_expiry(cause) => lease_expired
    /\ to \notin {Self, Authority}

(* Variant: the grants survive.                                            *)
apply_rotation_keeping_grants(to, cause) ==
    /\ rotationSeq < MaxRotations
    /\ rotationSeq' = rotationSeq + 1
    /\ UNCHANGED grants
    /\ IF cause = "Revert"
       THEN revertTo' = NoOne /\ revertUntil' = 0
       ELSE revertTo' = owner /\ revertUntil' = now + RevertWindow
    /\ IF to = NoOne
       THEN extensions' = {Authority} /\ UNCHANGED <<owner, frozen>>
       ELSE /\ extensions' = {Authority, to}
            /\ owner' = to
            /\ frozen' = IF to # owner /\ frozen = "SelfFrozen" THEN "Unfrozen" ELSE frozen

(* What it does to the holder's side of the state; the payout and the      *)
(* operating state are the callers'.                                       *)
apply_rotation(to, cause) ==
    /\ rotationSeq < MaxRotations
    /\ rotationSeq' = rotationSeq + 1
    /\ grants' = NoGrants
    /\ IF cause = "Revert"
       THEN revertTo' = NoOne /\ revertUntil' = 0
       ELSE revertTo' = owner /\ revertUntil' = now + RevertWindow
    /\ IF to = NoOne
       THEN extensions' = {Authority} /\ UNCHANGED <<owner, frozen>>
       ELSE /\ extensions' = {Authority, to}
            /\ owner' = to
            /\ frozen' = IF to # owner /\ frozen = "SelfFrozen" THEN "Unfrozen" ELSE frozen

transfer_allowed(to, cause, asked_by) ==
    /\ Exists
    /\ cause # "ReRent"
    /\ cause = "Recovery" => effective_frozen # "SelfFrozen"
    /\ rotation_allowed(to, cause, asked_by)

hos_transfer_ownership(to, cause, asked_by) ==
    /\ transfer_allowed(to, cause, asked_by)
    /\ apply_rotation(to, cause)
    /\ payout' = IF to # NoOne /\ repoints_payout(cause) THEN to ELSE payout
    /\ opState' = IF parks(cause) THEN "Parked" ELSE opState
    /\ UNCHANGED <<now, lease, freezeUntil>>

re_rent_allowed(to, pay, until) ==
    /\ Exists
    /\ until >= lease
    /\ until > now
    /\ pay # Self
    /\ rotation_allowed(to, "ReRent", NoOne)

hos_re_rent(to, pay, until) ==
    /\ to # NoOne
    /\ re_rent_allowed(to, pay, until)
    /\ apply_rotation(to, "ReRent")
    /\ payout' = pay
    /\ lease' = until
    /\ opState' = "Active"
    /\ UNCHANGED <<now, freezeUntil>>

-----------------------------------------------------------------------------
(* Freezing *)

(* Variant: no cooldown between two holds.                                 *)
hos_freeze_again(caller) ==
    /\ Exists
    /\ caller \in {Authority, owner} \cap extensions
    /\ effective_frozen = "Unfrozen"
    /\ IF caller # Authority
       THEN frozen' = "SelfFrozen" /\ UNCHANGED freezeUntil
       ELSE frozen' = "AuthorityFrozen" /\ freezeUntil' = now + Hold
    /\ UNCHANGED <<now, holderVars, leaseVars>>

hos_freeze(caller) ==
    /\ Exists
    /\ caller \in {Authority, owner}
    /\ caller \in extensions
    /\ effective_frozen = "Unfrozen"
    /\ IF caller # Authority
       THEN frozen' = "SelfFrozen" /\ UNCHANGED freezeUntil
       ELSE /\ now >= freezeUntil + Cooldown
            /\ freezeUntil' = now + Hold
            /\ frozen' = "AuthorityFrozen"
    /\ UNCHANGED <<now, holderVars, leaseVars>>

hos_unfreeze(caller) ==
    /\ Exists
    /\ caller \in {Authority, owner}
    /\ caller \in extensions
    /\ \/ effective_frozen = "SelfFrozen" /\ caller # Authority
       \/ effective_frozen = "AuthorityFrozen" /\ caller = Authority
    /\ frozen' = "Unfrozen"
    /\ UNCHANGED <<now, freezeUntil, holderVars, leaseVars>>

-----------------------------------------------------------------------------
(* Time and the specification *)

Tick ==
    /\ advance
    /\ UNCHANGED walletVars

WalletInit ==
    /\ now = Genesis
    /\ opState = "Absent"
    /\ owner = NoOne
    /\ payout = NoOne
    /\ extensions = {}
    /\ lease = 0
    /\ frozen = "Unfrozen"
    /\ freezeUntil = 0
    /\ grants = NoGrants
    /\ revertTo = NoOne
    /\ revertUntil = 0
    /\ rotationSeq = 0

HolderCall ==
    \E caller \in Accounts \cup {Authority} :
        \/ \E e \in Parties :
            \/ add_extension(caller, e)
            \/ remove_extension(caller, e)
            \/ hos_revoke_spend(caller, e)
            \/ \E budget \in Budget, expires \in GrantEnds :
                    hos_grant_spend(caller, e, budget, expires)
        \/ \E t \in Tokens \cup {Near}, amount \in 1..MaxBudget :
                charge_spend(caller, t, amount)
        \/ hos_freeze(caller)
        \/ hos_unfreeze(caller)

AuthorityCall ==
    \/ \E until \in Leases : hos_set_lease(until) \/ hos_retract_lease(until)
    \/ \E pay, expected \in Parties : hos_set_payout_account(pay, expected)
    \/ \E to \in Parties \cup {NoOne}, cause \in RotationCause,
          asked_by \in Parties \cup {NoOne} :
            hos_transfer_ownership(to, cause, asked_by)
    \/ \E to, pay \in Parties, until \in Leases : hos_re_rent(to, pay, until)

Next ==
    \/ \E first, pay \in Parties, until \in Leases : hos_init(first, pay, until)
    \/ HolderCall
    \/ AuthorityCall
    \/ Tick

Spec == WalletInit /\ [][Next]_vars

-----------------------------------------------------------------------------
(* Properties *)

(* Every field stays in its type: in particular neither the account itself *)
(* nor the authority ever becomes the owner, and every meter stays within  *)
(* the range its u128 arithmetic is checked for.                           *)
TypeOK ==
    /\ now \in Genesis..MaxTime
    /\ opState \in OperatingState
    /\ owner \in Accounts \cup {NoOne}
    /\ payout \in Accounts \cup {Authority, NoOne}
    /\ extensions \in SUBSET (Accounts \cup {Authority})
    /\ lease \in Leases \cup {0}
    /\ frozen \in FreezeState
    /\ freezeUntil \in Nat
    /\ DOMAIN grants \subseteq Accounts
    /\ \A e \in DOMAIN grants : grants[e] \in SpendGrant
    /\ revertTo \in Accounts \cup {NoOne}
    /\ revertUntil \in Nat
    /\ rotationSeq \in 0..MaxRotations

(* hos-wallet remove_extension and apply_rotation: whatever the owner, the *)
(* extensions and the authority do, the authority stays in the extension   *)
(* set of a created account, which is what makes reclaim possible.         *)
AuthorityKept == Exists => Authority \in extensions /\ owner # NoOne

(* hos-wallet spend_grants: only a current extension other than the owner  *)
(* and the authority has a spending grant.  Removing an extension and      *)
(* every rotation, parking included, take the grants away with the access, *)
(* so an extension added back later, or one that becomes the owner, never  *)
(* finds an old budget waiting.                                            *)
GrantsAreHeld == DOMAIN grants \subseteq extensions \ {owner, Authority}

=============================================================================
