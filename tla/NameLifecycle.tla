-------------------------- MODULE NameLifecycle --------------------------
(***************************************************************************)
(* The life of one name: its entry in the registry (contracts/tla-registry *)
(* rental, callbacks, reclaim, marketplace, nft, business, admin), the     *)
(* registrar that mints it, hos-extension, and its wallet (TenantWallet).  *)
(*                                                                         *)
(* A registry call checks and changes the registry in one receipt and      *)
(* leaves a leg in flight; the leg becomes a balance check (the asset      *)
(* gate), then the wallet's call through hos-extension or the registrar,   *)
(* then the registry's callback.  Each hop is a step of its own and other  *)
(* receipts run in between.  A call the registry refuses changes nothing.  *)
(* Money, fees and paid orders are in PaidRentals.                         *)
(***************************************************************************)
EXTENDS TenantWallet, RegistryClock, Sequences, SequencesExt

CONSTANTS
    Venues,         \* the registered venues, some of Accounts
    Business,       \* whether the TLA is a business TLA
    Resale,         \* whether enable_business_resale was called for it
    Term,           \* lease_term_ns
    MaxEnd,         \* bound: the latest expiry of a name
    Scenarios,      \* bound: what a run exercises, one scenario in each behaviour
    MaxLag          \* bound: instants a promise chain stays in flight

(* A promise chain takes seconds, notices and terms take days.             *)
ASSUME LifecycleAssumption ==
    /\ Venues \subseteq Accounts
    /\ {Business, Resale} \subseteq BOOLEAN
    /\ \A s \in Scenarios :
        /\ s.parties \subseteq Accounts
        /\ {s.gated, s.ordered} \subseteq BOOLEAN
        /\ s.tlaEnd \in TlaEnds
        /\ s.horizon <= MaxTime
        /\ s.chains \in Nat
    /\ Term \in Nat \ {0}
    /\ {MaxEnd, MaxLag} \subseteq Nat
    /\ MaxLag < RetractNotice /\ 2 * MaxLag < Term

VARIABLES
    entry,          \* sub_accounts[key]
    parkedName,     \* parked_names has the key
    reclaimPending, \* reclaim_pending has the key
    marketPaused,   \* marketplace_paused
    flight,         \* the promise legs in flight, oldest first
    scenario        \* never changes

indexVars == <<entry, parkedName, reclaimPending>>
lifeVars == <<now, walletVars, pauseVars, tlaVars, indexVars, marketPaused, flight, scenario>>

Ops == scenario.ops             \* the operations of the registry and the holder
Gated == scenario.gated         \* whether ft_allowlist lists a token
Ordered == scenario.ordered     \* whether receipts between two accounts keep their order

NoEntry == [owner |-> NoOne, payout |-> NoOne, expires |-> 0, retraction |-> NoRetraction]
Held == entry # NoEntry

Kinds == {"Mint", "ReRent", "Renew", "Retract", "Notice", "Cancel", "SetPayout", "Transfer",
          "NftTransfer", "NftTransferCall", "Return", "Recover", "Park"}
Entry == [owner : Accounts, payout : Accounts, expires : 0..MaxEnd,
          retraction : {NoRetraction} \cup Genesis..MaxTime]
Leg == [stage : {"gate", "wallet", "back", "receiver"}, op : Kinds, from : Accounts \cup {NoOne},
        to : Accounts \cup {NoOne}, pay : Accounts \cup {NoOne}, until : Nat, answer : {"none", "ok", "failed", "lost"},
        born : Genesis..MaxTime]

leg(stage, op, from, to, until) ==
    [stage |-> stage, op |-> op, from |-> from, to |-> to, pay |-> to, until |-> until,
     answer |-> "none", born |-> now]

sub_lifecycle == effective_sub_lifecycle(entry.expires, entry.retraction)

rotation_for_receiver(receiver) == IF receiver \in Venues THEN "Deposit" ELSE "Transfer"

-----------------------------------------------------------------------------
(* Promise legs *)

(* A call of the registry: legs of the operation op may be opened, and the *)
(* wallet is not touched by the receipt.                                   *)
Call(op) ==
    /\ op \in Ops
    /\ Len(flight) < scenario.chains
    /\ UNCHANGED <<now, walletVars, pauseVars, tlaVars, marketPaused>>

Open(l) == flight' = Append(flight, l)

(* The leg i moves on, behind the others.                                  *)
Forward(i, l) == flight' = Append(RemoveAt(flight, i), l)
Done(i) == flight' = RemoveAt(flight, i)

(* Receipts between the same two accounts arrive in the order they were    *)
(* sent when Ordered, in any order otherwise.                              *)
Arrives(i, stage) ==
    /\ flight[i].stage = stage
    /\ Ordered => \A j \in 1..(i - 1) : flight[j].stage # stage

-----------------------------------------------------------------------------
(* The registry's calls *)

(* The entry is written before the account exists, or before the parked    *)
(* wallet has changed hands.                                               *)
open_lease(who, pay) ==
    /\ ~effective_paused
    /\ ~Held
    /\ accepting_rentals
    /\ now + Term <= MaxEnd
    /\ entry' = [owner |-> who, payout |-> pay, expires |-> now + Term,
                 retraction |-> NoRetraction]
    /\ LET l == IF parkedName
                THEN leg(IF Gated THEN "gate" ELSE "wallet", "ReRent", NoOne, who, now + Term)
                ELSE leg("wallet", "Mint", NoOne, who, now + Term)
       IN  Open([l EXCEPT !.pay = pay])
    /\ UNCHANGED <<parkedName, reclaimPending>>

rent_sub_account(who) == Call("Rent") /\ open_lease(who, who)

(* Only an order paid for elsewhere names a payout account of its own.     *)
rent_sub_account_paid(who, pay) == Call("RentPaid") /\ open_lease(who, pay)

(* A renewal of a name whose rental is not settled yet is an operation of  *)
(* its own, "RenewEarly".                                                  *)
unsettled == \E i \in DOMAIN flight : flight[i].op \in {"Mint", "ReRent"}

renew_sub_account ==
    /\ Call(IF unsettled THEN "RenewEarly" ELSE "Renew")
    /\ Held
    /\ sub_renewable(entry.expires, entry.retraction)
    /\ later(now, entry.expires) + Term <= MaxEnd
    /\ Open(leg("wallet", "Renew", NoOne, NoOne, later(now, entry.expires) + Term))
    /\ UNCHANGED indexVars

set_payout_account(pay) ==
    /\ Call("SetPayout")
    /\ ~effective_paused
    /\ Held
    /\ Open(leg("wallet", "SetPayout", entry.owner, pay, 0))
    /\ UNCHANGED indexVars

schedule_retraction ==
    /\ Call("Retract")
    /\ ~effective_paused
    /\ Business
    /\ Held
    /\ entry.retraction = NoRetraction
    /\ entry' = [entry EXCEPT !.retraction = now]
    /\ Open(leg("wallet", "Retract", NoOne, NoOne, now + RetractNotice))
    /\ UNCHANGED <<parkedName, reclaimPending>>

cancel_retraction ==
    /\ Call("Retract")
    /\ ~effective_paused
    /\ Held
    /\ entry.retraction # NoRetraction
    /\ now < entry.retraction + RetractNotice
    /\ Open(leg("wallet", "Cancel", NoOne, NoOne, entry.expires))
    /\ UNCHANGED indexVars

assert_sellable ==
    /\ ~reclaimPending
    /\ Held
    /\ entry.retraction = NoRetraction
    /\ Business => Resale
    /\ sub_lifecycle = "Active"

assert_transferable(to) ==
    /\ ~reclaimPending
    /\ Held
    /\ to # entry.owner
    /\ entry.owner \notin Venues => ~effective_paused /\ assert_sellable

(* A venue's own sends skip the asset gate.                                *)
dispatch_rotation(op, to) ==
    /\ assert_transferable(to)
    /\ Open(leg(IF Gated /\ entry.owner \notin Venues THEN "gate" ELSE "wallet",
                op, entry.owner, to, 0))
    /\ UNCHANGED indexVars

transfer_sub_account(to) == Call("Transfer") /\ dispatch_rotation("Transfer", to)

nft_transfer(to) == Call("NftTransfer") /\ dispatch_rotation("NftTransfer", to)

nft_transfer_call(to) ==
    /\ Call("NftTransferCall")
    /\ ~marketPaused
    /\ assert_transferable(to)
    /\ Open(leg(IF Gated THEN "gate" ELSE "wallet", "NftTransferCall", entry.owner, to, 0))
    /\ UNCHANGED indexVars

recover_sub_account(to) ==
    /\ Call("Recover")
    /\ ~effective_paused
    /\ ~reclaimPending
    /\ Held
    /\ to # entry.owner
    /\ Open(leg("wallet", "Recover", entry.owner, to, 0))
    /\ UNCHANGED indexVars

resolve_reclaimable == Held /\ sub_lifecycle = "Reclaimable"

(* start_notice_if_term_is_live: a name whose own term still runs (its TLA *)
(* lapsed) is given the retraction notice before it can be parked.         *)
term_is_live == now < entry.expires
notice_served ==
    /\ entry.retraction # NoRetraction
    /\ now >= entry.retraction + RetractNotice

(* Variant: a lapsed TLA takes a paid-up name without notice.              *)
reclaim_finalize_at_once ==
    /\ Call("Park")
    /\ ~effective_paused
    /\ ~reclaimPending
    /\ resolve_reclaimable
    /\ reclaimPending' = TRUE
    /\ Open(leg(IF Gated THEN "gate" ELSE "wallet", "Park", NoOne, NoOne, 0))
    /\ UNCHANGED <<entry, parkedName>>

reclaim_finalize ==
    /\ Call("Park")
    /\ ~effective_paused
    /\ ~reclaimPending
    /\ resolve_reclaimable
    /\ \/ /\ term_is_live
          /\ entry.retraction = NoRetraction
          /\ entry' = [entry EXCEPT !.retraction = now]
          /\ Open(leg("wallet", "Notice", NoOne, NoOne, now + RetractNotice))
          /\ UNCHANGED reclaimPending
       \/ /\ term_is_live => notice_served
          /\ reclaimPending' = TRUE
          /\ Open(leg(IF Gated THEN "gate" ELSE "wallet", "Park", NoOne, NoOne, 0))
          /\ UNCHANGED entry
    /\ UNCHANGED parkedName

-----------------------------------------------------------------------------
(* The administrator's calls *)

AdminCall(op) ==
    /\ op \in Ops
    /\ UNCHANGED <<now, walletVars, pauseVars, tlaVars, marketPaused, flight>>

admin_clear_reclaim_pending ==
    /\ AdminCall("ClearPending")
    /\ reclaimPending
    /\ resolve_reclaimable
    /\ reclaimPending' = FALSE
    /\ UNCHANGED <<entry, parkedName>>

admin_release_park ==
    /\ AdminCall("ReleasePark")
    /\ ~Held
    /\ parkedName
    /\ parkedName' = FALSE
    /\ UNCHANGED <<entry, reclaimPending>>

admin_force_park ==
    /\ AdminCall("ForcePark")
    /\ ~Held
    /\ ~parkedName
    /\ parkedName' = TRUE
    /\ UNCHANGED <<entry, reclaimPending>>

AdminClock ==
    /\ \/ "Pause" \in Ops /\ (pause \/ unpause)
       \/ "Suspend" \in Ops /\ (suspend_tla \/ unsuspend_tla)
       \/ "RenewTla" \in Ops /\ renew_tla
    /\ UNCHANGED <<walletVars, indexVars, marketPaused, flight>>

(* pause_marketplace and unpause_marketplace *)
pause_marketplace ==
    /\ "Market" \in Ops
    /\ marketPaused' = ~marketPaused
    /\ UNCHANGED <<now, walletVars, pauseVars, tlaVars, indexVars, flight>>

-----------------------------------------------------------------------------
(* The asset gate: every allowlisted token is asked for the name's balance. *)
(* A balance above zero, or one that cannot be read, blocks.                *)

settle_failed_mint == entry' = NoEntry /\ UNCHANGED <<parkedName, reclaimPending>>

Clear(i) == Forward(i, [flight[i] EXCEPT !.stage = "wallet"]) /\ UNCHANGED indexVars

on_re_rent_balances_checked(i) ==
    /\ flight[i].op = "ReRent"
    /\ Clear(i) \/ (settle_failed_mint /\ Done(i))

on_balances_checked(i) ==
    /\ flight[i].op = "Park"
    /\ \/ resolve_reclaimable /\ Clear(i)
       \/ reclaimPending' = FALSE /\ Done(i) /\ UNCHANGED <<entry, parkedName>>

(* on_transfer_balances_checked and its two nft_ siblings: blocked, an Err. *)
on_transfer_balances_checked(i) ==
    /\ flight[i].op \in {"Transfer", "NftTransfer", "NftTransferCall"}
    /\ Clear(i) \/ (Done(i) /\ UNCHANGED indexVars)

gate_answered(i) ==
    /\ flight[i].stage = "gate"
    /\ \/ on_re_rent_balances_checked(i)
       \/ on_balances_checked(i)
       \/ on_transfer_balances_checked(i)
    /\ UNCHANGED <<now, walletVars, pauseVars, tlaVars, marketPaused>>

-----------------------------------------------------------------------------
(* The wallet's side of a leg, through hos-extension or the registrar *)

create_sub_account(l) == l.op = "Mint" /\ hos_init(l.to, l.pay, l.until)

re_rent(l) == l.op = "ReRent" /\ hos_re_rent(l.to, l.pay, l.until)

push_lease(l) == l.op \in {"Renew", "Cancel"} /\ hos_set_lease(l.until)

retract_lease(l) == l.op \in {"Retract", "Notice"} /\ hos_retract_lease(l.until)

set_payout(l) == l.op = "SetPayout" /\ hos_set_payout_account(l.pay, l.from)

force_transfer(l) ==
    \/ l.op = "Park" /\ hos_transfer_ownership(NoOne, "Reclaim", NoOne)
    \/ l.op = "Recover" /\ hos_transfer_ownership(l.to, "Recovery", NoOne)
    \/ l.op = "Return" /\ hos_transfer_ownership(l.to, "Revert", NoOne)
    \/ /\ l.op \in {"Transfer", "NftTransfer", "NftTransferCall"}
       /\ hos_transfer_ownership(l.to, rotation_for_receiver(l.to), l.from)

wallet_call(l) ==
    \/ create_sub_account(l)
    \/ re_rent(l)
    \/ push_lease(l)
    \/ retract_lease(l)
    \/ set_payout(l)
    \/ force_transfer(l)

(* The call runs, or fails: because the wallet refuses, because            *)
(* hos-extension is paused, or for want of gas.  after_force_swap and      *)
(* after_re_rent hand the outcome back.  A mint whose chain breaks reports *)
(* no outcome, whether or not the account was made.                        *)
wallet_delivered(i) ==
    /\ Arrives(i, "wallet")
    /\ \E answer \in {"ok", "failed", "lost"} :
        /\ answer = "lost" => flight[i].op = "Mint" /\ "Strand" \in Ops
        /\ \/ answer # "failed" /\ wallet_call(flight[i])
           \/ answer # "ok" /\ UNCHANGED <<now, walletVars>>
        /\ Forward(i, [flight[i] EXCEPT !.stage = "back", !.answer = answer])
    /\ UNCHANGED <<pauseVars, tlaVars, indexVars, marketPaused>>

-----------------------------------------------------------------------------
(* The registry's callbacks *)

reassign(to, pay) == entry' = [entry EXCEPT !.owner = to, !.payout = pay]

kept_payout(to) ==
    IF repoints_payout(rotation_for_receiver(to)) THEN to ELSE entry.payout

Callback(i, kinds) ==
    /\ Arrives(i, "back")
    /\ flight[i].op \in kinds
    /\ UNCHANGED <<now, walletVars, pauseVars, tlaVars, marketPaused>>

(* The account may exist: it is listed as parked.                          *)
settle_stranded_mint == entry' = NoEntry /\ parkedName' = TRUE /\ UNCHANGED reclaimPending

on_sub_account_created(i) ==
    /\ Callback(i, {"Mint"})
    /\ Done(i)
    /\ CASE flight[i].answer = "ok" \/ ~Held -> UNCHANGED indexVars
         [] flight[i].answer = "failed" /\ Held -> settle_failed_mint
         [] OTHER -> settle_stranded_mint

on_sub_account_re_rented(i) ==
    /\ Callback(i, {"ReRent"})
    /\ Done(i)
    /\ IF flight[i].answer = "ok"
       THEN parkedName' = (parkedName /\ ~Held) /\ UNCHANGED <<entry, reclaimPending>>
       ELSE settle_failed_mint

on_sub_account_renewed(i) ==
    /\ Callback(i, {"Renew"})
    /\ Done(i)
    /\ entry' = IF flight[i].answer = "ok" /\ Held
                THEN [entry EXCEPT !.expires = flight[i].until]
                ELSE entry
    /\ UNCHANGED <<parkedName, reclaimPending>>

on_payout_set(i) ==
    /\ Callback(i, {"SetPayout"})
    /\ Done(i)
    /\ entry' = IF flight[i].answer = "ok" /\ entry.owner = flight[i].from
                THEN [entry EXCEPT !.payout = flight[i].pay]
                ELSE entry
    /\ UNCHANGED <<parkedName, reclaimPending>>

retraction_cleared(i, undone) ==
    /\ Done(i)
    /\ entry' = IF undone /\ Held THEN [entry EXCEPT !.retraction = NoRetraction] ELSE entry
    /\ UNCHANGED <<parkedName, reclaimPending>>

on_retraction_scheduled(i) ==
    /\ Callback(i, {"Retract"})
    /\ retraction_cleared(i, flight[i].answer # "ok")

(* Variant: the retraction is cleared before the wallet's lease is back.   *)
on_retraction_canceled_anyway(i) ==
    /\ Callback(i, {"Cancel"})
    /\ retraction_cleared(i, TRUE)

on_retraction_canceled(i) ==
    /\ Callback(i, {"Cancel"})
    /\ retraction_cleared(i, flight[i].answer = "ok")

(* Only reports.                                                           *)
on_lease_synced(i) ==
    /\ Callback(i, {"Notice"})
    /\ Done(i)
    /\ UNCHANGED indexVars

(* Variant: a transfer the wallet refused is recorded.                     *)
on_sub_account_transferred_anyway(i) ==
    /\ Callback(i, {"Transfer"})
    /\ Done(i)
    /\ IF entry.owner = flight[i].from
       THEN reassign(flight[i].to, kept_payout(flight[i].to))
       ELSE UNCHANGED entry
    /\ UNCHANGED <<parkedName, reclaimPending>>

on_sub_account_transferred(i) ==
    /\ Callback(i, {"Transfer"})
    /\ Done(i)
    /\ IF flight[i].answer = "ok" /\ entry.owner = flight[i].from
       THEN reassign(flight[i].to, kept_payout(flight[i].to))
       ELSE UNCHANGED entry
    /\ UNCHANGED <<parkedName, reclaimPending>>

(* Variant: a recovery the wallet refused is recorded.                     *)
on_sub_account_recovered_anyway(i) ==
    /\ Callback(i, {"Recover"})
    /\ Done(i)
    /\ IF entry.owner = flight[i].from
       THEN reassign(flight[i].to, flight[i].to)
       ELSE UNCHANGED entry
    /\ UNCHANGED <<parkedName, reclaimPending>>

on_sub_account_recovered(i) ==
    /\ Callback(i, {"Recover"})
    /\ Done(i)
    /\ IF flight[i].answer = "ok" /\ entry.owner = flight[i].from
       THEN reassign(flight[i].to, flight[i].to)
       ELSE UNCHANGED entry
    /\ UNCHANGED <<parkedName, reclaimPending>>

commit_nft_rotation(i, pay) ==
    /\ IF flight[i].answer = "ok" /\ Held THEN reassign(flight[i].to, pay) ELSE UNCHANGED entry
    /\ UNCHANGED <<parkedName, reclaimPending>>

nft_on_rotation_resolved(i) ==
    /\ Callback(i, {"NftTransfer"})
    /\ Done(i)
    /\ commit_nft_rotation(i, kept_payout(flight[i].to))

(* Goes on to ask the receiver.                                            *)
nft_on_rotation_resolved_call(i) ==
    /\ Callback(i, {"NftTransferCall"})
    /\ IF flight[i].answer = "ok" /\ Held
       THEN Forward(i, [flight[i] EXCEPT !.stage = "receiver"])
       ELSE Done(i)
    /\ commit_nft_rotation(i, kept_payout(flight[i].to))

(* The receiver keeps the name, gives it back, or fails, which gives back. *)
nft_resolve_transfer(i) ==
    /\ flight[i].stage = "receiver"
    /\ \/ Done(i)
       \/ /\ entry.owner = flight[i].to
          /\ Forward(i, [leg("wallet", "Return", flight[i].to, flight[i].from, 0)
                            EXCEPT !.born = flight[i].born])
    /\ UNCHANGED <<now, walletVars, pauseVars, tlaVars, indexVars, marketPaused>>

nft_on_return_resolved(i) ==
    /\ Callback(i, {"Return"})
    /\ Done(i)
    /\ commit_nft_rotation(i, flight[i].to)

(* Variants: a park the wallet refused is recorded, or keeps the lock.     *)
on_reclaim_finalized_anyway(i) ==
    /\ Callback(i, {"Park"})
    /\ Done(i)
    /\ reclaimPending' = FALSE
    /\ IF Held
       THEN entry' = NoEntry /\ parkedName' = TRUE
       ELSE UNCHANGED <<entry, parkedName>>

on_reclaim_finalized_locked(i) ==
    /\ Callback(i, {"Park"})
    /\ Done(i)
    /\ IF flight[i].answer = "ok" /\ Held
       THEN entry' = NoEntry /\ parkedName' = TRUE /\ reclaimPending' = FALSE
       ELSE UNCHANGED indexVars

on_reclaim_finalized(i) ==
    /\ Callback(i, {"Park"})
    /\ Done(i)
    /\ reclaimPending' = FALSE
    /\ IF flight[i].answer = "ok" /\ Held
       THEN entry' = NoEntry /\ parkedName' = TRUE
       ELSE UNCHANGED <<entry, parkedName>>

-----------------------------------------------------------------------------
(* The holder at the wallet itself, time, and the specification *)

HolderAtWallet ==
    /\ \/ "Freeze" \in Ops /\ (hos_freeze(owner) \/ hos_unfreeze(owner))
       \/ "Extend" \in Ops /\ \E e \in scenario.parties : add_extension(owner, e)
    /\ UNCHANGED <<pauseVars, tlaVars, indexVars, marketPaused, flight>>

Elapse ==
    /\ now < scenario.horizon
    /\ advance
    /\ \A i \in DOMAIN flight : now < flight[i].born + MaxLag
    /\ UNCHANGED <<walletVars, pauseVars, tlaVars, indexVars, marketPaused, flight>>

LifeInit ==
    /\ WalletInit
    /\ ClockInit
    /\ scenario \in Scenarios
    /\ tlaExpires = scenario.tlaEnd
    /\ entry = NoEntry
    /\ parkedName = FALSE
    /\ reclaimPending = FALSE
    /\ marketPaused = FALSE
    /\ flight = <<>>

RegistryCall ==
    \/ \E a \in scenario.parties :
        \/ rent_sub_account(a)
        \/ \E pay \in scenario.parties : rent_sub_account_paid(a, pay)
        \/ set_payout_account(a)
        \/ transfer_sub_account(a)
        \/ nft_transfer(a)
        \/ nft_transfer_call(a)
        \/ recover_sub_account(a)
    \/ renew_sub_account
    \/ schedule_retraction
    \/ cancel_retraction
    \/ reclaim_finalize

Registrar == admin_clear_reclaim_pending \/ admin_release_park \/ admin_force_park

Settle(i) ==
    \/ gate_answered(i)
    \/ wallet_delivered(i)
    \/ on_sub_account_created(i)
    \/ on_sub_account_re_rented(i)
    \/ on_sub_account_renewed(i)
    \/ on_payout_set(i)
    \/ on_retraction_scheduled(i)
    \/ on_retraction_canceled(i)
    \/ on_lease_synced(i)
    \/ on_sub_account_transferred(i)
    \/ on_sub_account_recovered(i)
    \/ nft_on_rotation_resolved(i)
    \/ nft_on_rotation_resolved_call(i)
    \/ nft_resolve_transfer(i)
    \/ nft_on_return_resolved(i)
    \/ on_reclaim_finalized(i)

LifeNext ==
    /\ \/ RegistryCall
       \/ Registrar
       \/ AdminClock
       \/ pause_marketplace
       \/ \E i \in DOMAIN flight : Settle(i)
       \/ HolderAtWallet
       \/ Elapse
    /\ UNCHANGED scenario

LifeSpec == LifeInit /\ [][LifeNext]_lifeVars

(* A promise always resolves, so no leg stays in flight for ever: what is  *)
(* in flight of any kind moves on.                                         *)
Resolves(kind) ==
    \E i \in DOMAIN flight : flight[i].op = kind /\ Settle(i) /\ UNCHANGED scenario

FairLifeSpec == LifeSpec /\ \A kind \in Kinds : WF_lifeVars(Resolves(kind))

-----------------------------------------------------------------------------
(* Properties *)

Quiet == flight = <<>>

(* Scenarios without what makes registry and wallet part for good:         *)
(* recoveries and returning co-owners beside transfers, mints whose        *)
(* outcome is lost, the hatch under a park in flight, receipts overtaking. *)
Orderly == Ordered /\ Ops \cap {"Recover", "Extend", "Strand", "ClearPending"} = {}

(* The registry's fields and the legs in flight stay in their types.       *)
LifeTypeOK ==
    /\ entry \in Entry \cup {NoEntry}
    /\ {parkedName, reclaimPending, marketPaused} \subseteq BOOLEAN
    /\ Len(flight) <= scenario.chains
    /\ \A i \in DOMAIN flight : flight[i] \in Leg

(* sub_accounts against hos_owner: with nothing in flight the registry and *)
(* the wallet name the same owner, and a held name's wallet is operating.  *)
(* docs/sharded-nft-items.md: the two "disagree briefly on every           *)
(* rotation".                                                              *)
OwnersAgree == Quiet /\ Held => owner = entry.owner /\ opState = "Active"

(* set_payout_account, the deposits and the returns: with nothing in       *)
(* flight the registry and the wallet would pay the same account.          *)
PayoutsAgree == Quiet /\ Held => payout = entry.payout

(* The callbacks of transfers, NFT transfers and their returns, payouts,   *)
(* parks and freezes: in an orderly scenario registry and wallet settle on *)
(* one owner and one payout account, whatever overlaps.                    *)
TradesSettle == Orderly => OwnersAgree /\ PayoutsAgree

(* renew_sub_account, schedule_retraction, cancel_retraction and their     *)
(* callbacks: with nothing in flight a name under no retraction may be     *)
(* used for the whole term the registry sold, whatever the wallet refused. *)
(* Renewals may overlap anything else; a retraction or its cancellation is *)
(* the only chain in flight.  tests.rs: "the registry must not clear the   *)
(* retraction until the wallet lease is restored".                         *)
LeasesAgree ==
    "Retract" \notin Ops \/ scenario.chains = 1 =>
        (Quiet /\ Held /\ entry.retraction = NoRetraction => lease = entry.expires)

(* on_reclaim_finalized against late renewals: a name the registry lists   *)
(* as parked has a parked wallet, whose lease is over, so it can be rented *)
(* again.                                                                  *)
ParkedIsFree ==
    Quiet /\ parkedName /\ Exists /\ ~Held => opState = "Parked" /\ lease_expired

(* settle_failed_mint and on_reclaim_finalized: the registry never forgets *)
(* a tenant whose wallet is operating within its lease.  tests.rs, on      *)
(* clearing a stuck reclaim: "it must not reach a live lease".             *)
TenantKnown == Quiet /\ opState = "Active" /\ ~lease_expired => Held

(* The two together, on the names a reclaim, a re-rental or a failed mint  *)
(* leaves behind: each is free to rent or held by a tenant the registry    *)
(* knows.                                                                  *)
FreeOrKnown == ParkedIsFree /\ TenantKnown

(* reclaim_pending, which its own callbacks clear where no admin does:     *)
(* whatever the balance check or the wallet answers, every reclaim lets go *)
(* of the name.                                                            *)
ReclaimEnds == reclaimPending ~> ~reclaimPending

(* reclaim_finalize, start_notice_if_term_is_live and hos_retract_lease    *)
(* together: a wallet is parked only once the term its registry entry      *)
(* promises is over or its retraction notice has run.  tests.rs: "a lapsed *)
(* parent must not take a paid-up name before the notice runs".            *)
NoticeBeforePark ==
    [][opState # "Parked" /\ opState' = "Parked" /\ Held /\ term_is_live
            => notice_served]_lifeVars

(* README: "Withdrawing a name from a venue is not gated at all, by        *)
(* anything": a venue may always send on a name it holds.                  *)
VenueExitOpen ==
    Held /\ entry.owner \in Venues => \E to \in Accounts : assert_transferable(to)

=============================================================================
