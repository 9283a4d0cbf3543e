------------------------------ MODULE ImplPin ------------------------------
(***************************************************************************)
(* Which code one wallet runs: contracts/hos-wallet, hos_approve_impl to   *)
(* hos_on_pinned.  A new wallet follows whatever the deployer publishes.   *)
(* The lease authority may bind it to one implementation instead, after an *)
(* approval that the owner has had the delay to cancel.                    *)
(*                                                                         *)
(* hos_pin_impl, the binding with its migration, and hos_on_pinned are     *)
(* three receipts.  The callback runs in the code that was bound, which is *)
(* taken to keep this part of it as it is.                                 *)
(***************************************************************************)
EXTENDS Clock

CONSTANTS
    Impls,          \* code hashes of wallet implementations
    NoImpl,         \* None, where the code has an Option
    PinDelay,       \* IMPL_PIN_DELAY_NS
    PinLag          \* bound: instants from hos_pin_impl to its callback

(* The delay is 48 hours; a callback comes within seconds.                 *)
ASSUME PinAssumption ==
    /\ NoImpl \notin Impls
    /\ {PinDelay, PinLag} \subseteq Nat
    /\ PinLag < PinDelay

VARIABLES
    frozen,         \* effective_frozen() # Unfrozen
    approvedImpl,   \* approved_impl and approved_impl_at
    pinned,         \* pinned_impl
    bound,          \* the implementation the account runs, or it follows the deployer
    pins            \* the bindings in flight

pinVars == <<frozen, approvedImpl, pinned, bound, pins>>

NoPin == [what |-> NoImpl, at |-> 0]
PinApproval == [what : Impls, at : Nat]
Pin == [what : Impls, at : Nat, born : Nat, stage : {"sent", "bound", "failed"}]

-----------------------------------------------------------------------------

(* Variant: an approval that replaces another keeps its time.              *)
hos_approve_impl_unstamped(hash) ==
    /\ approvedImpl' = IF approvedImpl = NoPin THEN [what |-> hash, at |-> now]
                       ELSE [what |-> hash, at |-> approvedImpl.at]
    /\ UNCHANGED <<now, frozen, pinned, bound, pins>>

(* By the authority *)
hos_approve_impl(hash) ==
    /\ approvedImpl' = [what |-> hash, at |-> now]
    /\ UNCHANGED <<now, frozen, pinned, bound, pins>>

(* By the owner or the authority *)
hos_cancel_impl ==
    /\ approvedImpl # NoPin
    /\ approvedImpl' = NoPin
    /\ UNCHANGED <<now, frozen, pinned, bound, pins>>

(* By the authority *)
hos_pin_impl ==
    /\ ~frozen
    /\ approvedImpl # NoPin
    /\ now >= approvedImpl.at + PinDelay
    /\ pins' = pins \cup {[what |-> approvedImpl.what, at |-> approvedImpl.at, born |-> now,
                           stage |-> "sent"]}
    /\ approvedImpl' = NoPin
    /\ UNCHANGED <<now, frozen, pinned, bound>>

(* use_global_contract and hos_migrate, both or neither: the code may be   *)
(* unknown to the network, or refuse the state it finds.                   *)
bind(p, done) ==
    /\ p.stage = "sent"
    /\ pins' = (pins \ {p}) \cup {[p EXCEPT !.stage = IF done THEN "bound" ELSE "failed"]}
    /\ bound' = IF done THEN p.what ELSE bound
    /\ UNCHANGED <<now, frozen, approvedImpl, pinned>>

hos_on_pinned(p) ==
    /\ p.stage # "sent"
    /\ pins' = pins \ {p}
    /\ IF p.stage = "failed"
       THEN approvedImpl' = [what |-> p.what, at |-> p.at] /\ UNCHANGED pinned
       ELSE pinned' = p.what /\ UNCHANGED approvedImpl
    /\ UNCHANGED <<now, frozen, bound>>

(* hos_freeze, hos_unfreeze, and an authority's hold running out           *)
freeze_changes ==
    /\ frozen' = ~frozen
    /\ UNCHANGED <<now, approvedImpl, pinned, bound, pins>>

PinTick ==
    /\ advance
    /\ \A p \in pins : now < p.born + PinLag
    /\ UNCHANGED pinVars

PinInit ==
    /\ now = Genesis
    /\ frozen = FALSE
    /\ approvedImpl = NoPin
    /\ pinned = NoImpl
    /\ bound = NoImpl
    /\ pins = {}

PinNext ==
    \/ \E hash \in Impls : hos_approve_impl(hash)
    \/ hos_cancel_impl
    \/ hos_pin_impl
    \/ \E p \in pins : hos_on_pinned(p) \/ \E done \in BOOLEAN : bind(p, done)
    \/ freeze_changes
    \/ PinTick

-----------------------------------------------------------------------------
(* The same as the owner sees it: since when each implementation has been  *)
(* on record, and how long the one now bound had been when it was bound.   *)

VARIABLES
    recordedAt,     \* since when without a break, or -1
    waited          \* the notice the bound implementation gave, or -1

pinHistoryVars == <<now, pinVars, recordedAt, waited>>

(* Approved, or sent for and not yet bound or given up.                    *)
OnRecord(hash) ==
    approvedImpl.what = hash \/ \E p \in pins : p.what = hash /\ p.stage # "bound"

PinObserve ==
    /\ recordedAt' = [hash \in Impls |->
                        IF ~OnRecord(hash)' THEN -1
                        ELSE IF recordedAt[hash] = -1 THEN now ELSE recordedAt[hash]]
    /\ waited' = IF \E p \in pins' \ pins : p.stage = "bound"
                 THEN IF recordedAt[bound'] = -1 THEN -1 ELSE now - recordedAt[bound']
                 ELSE waited

PinHistoryInit == PinInit /\ recordedAt = [hash \in Impls |-> -1] /\ waited = -1
PinHistoryNext == PinNext /\ PinObserve
PinHistorySpec == PinHistoryInit /\ [][PinHistoryNext]_pinHistoryVars

-----------------------------------------------------------------------------

(* hos_approve_impl, hos_cancel_impl, hos_pin_impl and hos_on_pinned: the  *)
(* account is bound only to code that was on record for the whole delay    *)
(* without a break, though a failed binding puts its approval back over    *)
(* what was approved or cancelled meanwhile; and with no binding in flight *)
(* hos_impl_pin tells what the account runs.  tests.rs: "a holder reading  *)
(* the pin must not be told the account runs code it never bound".         *)
PinIsNoticed ==
    /\ bound # NoImpl => waited >= PinDelay
    /\ pins = {} => pinned = bound

=============================================================================
