--------------------------- MODULE PaidRentals ---------------------------
(***************************************************************************)
(* The registry's money (contracts/tla-registry rental, callbacks, lib,    *)
(* business, admin): what a rental charges, refunds and earns while its    *)
(* promise chain is in flight, the refund balances and the treasury's      *)
(* withdrawals, the orders of a payment authority and its mint allowance,  *)
(* and the name count of a business TLA.                                   *)
(*                                                                         *)
(* One TLA and several of its names.  An entry is present or not: owners,  *)
(* leases and lifecycle are in NameLifecycle.  Amounts are small naturals; *)
(* balance is what available_balance reports, the storage reserve apart.   *)
(***************************************************************************)
EXTENDS Clock, FiniteSets, FiniteSetsExt, Functions

CONSTANTS
    Names,          \* the names of the TLA
    Users,          \* accounts that rent, renew and claim
    Licensee,       \* the licensee, one of Users, when the TLA is a business TLA
    Relay,          \* the payment authority
    Treasury,       \* the treasury
    Orders,         \* order ids
    NoOrder,        \* a rental paid for directly
    Unbound,        \* no allowance
    Rent,           \* the rent of a term, in NEAR
    Deposits,       \* values of account_creation_deposit_yocto the council sets
    FirstDeposit,   \* the one it starts with
    Attached,       \* deposits that callers attach
    Allowances,     \* values of max_mints the council sets
    Cap,            \* effective_business_cap
    ReleaseAfter,   \* MANUAL_ORDER_RELEASE_AFTER_NS
    Scenarios       \* bound: what a run exercises, one scenario in each behaviour

ASSUME RentalsAssumption ==
    /\ Licensee \in Users
    /\ Rent \in Nat
    /\ FirstDeposit \in Deposits
    /\ Deposits \subseteq Nat \ {0}
    /\ Allowances \subseteq Nat \ {0}
    /\ Attached \subseteq Nat
    /\ {Cap, ReleaseAfter} \subseteq Nat
    /\ \A s \in Scenarios :
        /\ s.names \subseteq Names /\ s.orders \subseteq Orders /\ s.attached \subseteq Attached
        /\ s.gated \in BOOLEAN
        /\ s.maxBalance \in Nat
        /\ s.horizon <= MaxTime

VARIABLES
    held,           \* the keys of sub_accounts
    parked,         \* the keys of parked_names
    business,       \* tla_type is Business
    subCount,       \* business_sub_count
    whitelist,      \* the accounts whitelisted to claim a name
    orders,         \* paid_order_ids
    allowance,      \* the relay's allowance for the TLA
    used,           \* the relay's mints counted against it
    deposit,        \* fee_config.account_creation_deposit_yocto
    refunds,        \* pending_refunds
    totalRefunds,   \* total_pending_refunds
    revenue,        \* total_revenue
    balance,        \* available_balance()
    rentals,        \* the rental in flight for each name
    renewals,       \* the renewals in flight
    claims,         \* the refund transfers in flight
    scenario        \* never changes

nameVars == <<held, parked, business, subCount, whitelist>>
orderVars == <<orders, allowance, used>>
moneyVars == <<refunds, totalRefunds, revenue, balance>>
flightVars == <<rentals, renewals, claims>>
rentalVars == <<now, nameVars, orderVars, deposit, moneyVars, flightVars, scenario>>

Ops == scenario.ops                 \* the operations
Gated == scenario.gated             \* whether ft_allowlist lists a token
MaxBalance == scenario.maxBalance   \* what the registry may have, and owe, with a new payment

Accounts == Users \cup {Relay, Treasury}

FreeOrder == [state |-> "free"]
SettledOrder == [state |-> "settled"]
InFlight(n, payer) == [state |-> "inflight", name |-> n, payer |-> payer, started |-> now]
in_flight_for(o, n, payer) ==
    orders[o].state = "inflight" /\ orders[o].name = n /\ orders[o].payer = payer

(* MintSettlement and PendingReRent: what the callback is given, and the   *)
(* creation deposit that left with the promise.                            *)
NoRental == [stage |-> "none"]
Rental(stage, payer, order, rent, attached, sent) ==
    [stage |-> stage, payer |-> payer, order |-> order, rent |-> rent,
     attached |-> attached, sent |-> sent, born |-> now]

Less(a, b) == IF a > b THEN a - b ELSE 0

-----------------------------------------------------------------------------
(* Helpers that change state *)

add_pending_refund(who, amount) ==
    /\ refunds' = [refunds EXCEPT ![who] = @ + amount]
    /\ totalRefunds' = totalRefunds + amount

refund_excess(who, attached, charged) ==
    IF attached > charged
    THEN add_pending_refund(who, attached - charged)
    ELSE UNCHANGED <<refunds, totalRefunds>>

business_count_decrement_if_business ==
    subCount' = IF business THEN Less(subCount, 1) ELSE subCount

(* The slot an order took is given back with the order.                    *)
drop_order(o) ==
    /\ orders' = [orders EXCEPT ![o] = FreeOrder]
    /\ used' = Less(used, 1)

(* Variant: the order is given back whoever holds it.                      *)
release_order_blindly(o, n, payer) ==
    /\ IF o # NoOrder THEN drop_order(o) ELSE UNCHANGED <<orders, used>>
    /\ UNCHANGED allowance

release_order(o, n, payer) ==
    /\ IF o # NoOrder /\ in_flight_for(o, n, payer)
       THEN drop_order(o)
       ELSE UNCHANGED <<orders, used>>
    /\ UNCHANGED allowance

confirm_order(o, n, payer) ==
    /\ orders' = IF o # NoOrder /\ in_flight_for(o, n, payer)
                 THEN [orders EXCEPT ![o] = SettledOrder]
                 ELSE orders
    /\ UNCHANGED <<allowance, used>>

(* The entry goes, and the payer is owed all that was attached.            *)
settle_failed_mint(n, payer, attached, back) ==
    /\ held' = held \ {n}
    /\ business_count_decrement_if_business
    /\ add_pending_refund(payer, attached)
    /\ balance' = balance + back
    /\ UNCHANGED <<parked, revenue>>

(* So it is when nobody knows whether the account exists, and the name is  *)
(* listed as parked.                                                       *)
settle_stranded_mint(n, payer, attached, back) ==
    /\ held' = held \ {n}
    /\ parked' = parked \cup {n}
    /\ business_count_decrement_if_business
    /\ add_pending_refund(payer, attached)
    /\ balance' = balance + back
    /\ UNCHANGED revenue

-----------------------------------------------------------------------------
(* Rentals *)

Call(op) == op \in Ops /\ UNCHANGED <<now, deposit, business>>

(* A deposit is attached to the call, within the bound.                    *)
Pays(amount) ==
    LET leaving == MapThenSumSet(LAMBDA c : c[2], claims)
    IN  \A sum \in {balance, totalRefunds} : sum + leaving + amount <= MaxBalance

business_count_check_and_bump ==
    /\ business => subCount < Cap
    /\ subCount' = IF business THEN subCount + 1 ELSE subCount

(* The entry is written, and the chain starts with the asset gate or the   *)
(* wallet of a parked name, or with the registrar and the creation deposit *)
(* for a new one.                                                          *)
open_lease(n, payer, order, rent, attached, mint) ==
    LET sent == IF n \in parked THEN 0 ELSE deposit
        stage == IF n \notin parked THEN mint ELSE IF Gated THEN "gate" ELSE "rerent"
    IN  /\ Pays(attached)
        /\ attached >= rent + sent
        /\ business_count_check_and_bump
        /\ held' = held \cup {n}
        /\ rentals' = [rentals EXCEPT ![n] = Rental(stage, payer, order, rent, attached, sent)]
        /\ balance' = balance + attached - sent
        /\ UNCHANGED <<parked, refunds, totalRefunds, revenue, renewals, claims>>

(* The relay may pay for another owner, the licensee in a business TLA.    *)
rent_sub_account(n, payer, attached) ==
    /\ Call("Rent")
    /\ n \notin held
    /\ business => payer \in {Licensee, Relay}
    /\ open_lease(n, payer, NoOrder, Rent, attached, "mint")
    /\ UNCHANGED <<whitelist, orders, allowance, used>>

(* Variant: one mint too many.                                             *)
assert_payment_authority_for_one_more == allowance # Unbound /\ used <= allowance

assert_payment_authority_for == allowance # Unbound /\ used < allowance

(* Variant: an order in flight may be drawn on again.                      *)
assert_order_unsettled_yet(o) == orders[o] # SettledOrder

assert_order_unsettled(o) == orders[o] = FreeOrder

rent_sub_account_paid(n, order, attached) ==
    /\ Call("RentPaid")
    /\ assert_payment_authority_for
    /\ assert_order_unsettled(order)
    /\ n \notin held
    /\ open_lease(n, Relay, order, 0, attached, "mint")
    /\ used' = used + 1
    /\ orders' = [orders EXCEPT ![order] = InFlight(n, Relay)]
    /\ UNCHANGED <<whitelist, allowance>>

claim_business_name(n, claimer, attached) ==
    /\ Call("Claim")
    /\ claimer \in whitelist
    /\ business
    /\ n \notin held \cup parked
    /\ open_lease(n, claimer, NoOrder, 0, attached, "claim")
    /\ whitelist' = whitelist \ {claimer}
    /\ UNCHANGED orderVars

(* Variant: the creation deposit is not charged.                           *)
record_rental_uncharged(r) ==
    /\ revenue' = revenue + r.rent
    /\ refund_excess(r.payer, r.attached, r.rent)
    /\ UNCHANGED <<held, parked, subCount, balance>>

(* What is not charged is refunded, at the creation deposit of the day.    *)
record_rental(r) ==
    /\ revenue' = revenue + r.rent
    /\ refund_excess(r.payer, r.attached, r.rent + deposit)
    /\ UNCHANGED <<held, parked, subCount, balance>>

record_paid_rental(r) ==
    /\ refund_excess(r.payer, r.attached, deposit)
    /\ UNCHANGED <<held, parked, subCount, revenue, balance>>

Callback(n, stages) ==
    /\ rentals[n].stage \in stages
    /\ rentals' = [rentals EXCEPT ![n] = NoRental]
    /\ UNCHANGED <<now, deposit, business, renewals, claims>>

(* MintOutcome: the account was made, or its creation failed and returned  *)
(* the deposit first; "Err" when the chain broke, which returns it only if *)
(* the registrar's receipt itself failed.                                  *)
Settled(n, outcome, back) ==
    LET r == rentals[n]
    IN  IF outcome = "CreationFailed"
        THEN settle_failed_mint(n, r.payer, r.attached, r.sent)
        ELSE settle_stranded_mint(n, r.payer, r.attached, IF back THEN r.sent ELSE 0)

on_sub_account_created(n, outcome, back) ==
    /\ Callback(n, {"mint"})
    /\ rentals[n].order = NoOrder
    /\ IF outcome = "Active" THEN record_rental(rentals[n]) ELSE Settled(n, outcome, back)
    /\ UNCHANGED <<whitelist, orderVars>>

on_sub_account_created_paid(n, outcome, back) ==
    LET r == rentals[n]
    IN  /\ Callback(n, {"mint"})
        /\ r.order # NoOrder
        /\ IF outcome = "Active"
           THEN confirm_order(r.order, n, r.payer) /\ record_paid_rental(r)
           ELSE release_order(r.order, n, r.payer) /\ Settled(n, outcome, back)
        /\ UNCHANGED whitelist

(* A name that was not made may be claimed again.                          *)
on_business_name_claimed(n, outcome, back) ==
    LET r == rentals[n]
    IN  /\ Callback(n, {"claim"})
        /\ IF outcome = "Active" THEN record_rental(r) ELSE Settled(n, outcome, back)
        /\ whitelist' = IF outcome = "CreationFailed" THEN whitelist \cup {r.payer} ELSE whitelist
        /\ UNCHANGED orderVars

(* A blocked gate settles the mint; it does not release the order.         *)
on_re_rent_balances_checked(n, clear) ==
    LET r == rentals[n]
    IN  /\ r.stage = "gate"
        /\ IF clear
           THEN /\ rentals' = [rentals EXCEPT ![n].stage = "rerent"]
                /\ UNCHANGED <<held, parked, subCount, moneyVars>>
           ELSE /\ rentals' = [rentals EXCEPT ![n] = NoRental]
                /\ settle_failed_mint(n, r.payer, r.attached, 0)
        /\ UNCHANGED <<now, deposit, business, whitelist, orderVars, renewals, claims>>

on_sub_account_re_rented(n, swapped) ==
    LET r == rentals[n]
    IN  /\ Callback(n, {"rerent"})
        /\ IF swapped
           THEN /\ confirm_order(r.order, n, r.payer)
                /\ parked' = parked \ {n}
                /\ revenue' = revenue + r.rent
                /\ refund_excess(r.payer, r.attached, r.rent)
                /\ UNCHANGED <<held, subCount, balance>>
           ELSE /\ release_order(r.order, n, r.payer)
                /\ settle_failed_mint(n, r.payer, r.attached, 0)
        /\ UNCHANGED whitelist

-----------------------------------------------------------------------------
(* Renewals: bound, one in flight for each name and payer *)

renew_sub_account(n, payer, attached) ==
    /\ Call("Renew")
    /\ n \in held
    /\ <<n, payer>> \notin renewals
    /\ Pays(attached)
    /\ attached >= Rent
    /\ refund_excess(payer, attached, Rent)
    /\ balance' = balance + attached
    /\ renewals' = renewals \cup {<<n, payer>>}
    /\ UNCHANGED <<held, parked, subCount, whitelist, orderVars, revenue, rentals, claims>>

on_sub_account_renewed(n, payer, done) ==
    /\ <<n, payer>> \in renewals
    /\ renewals' = renewals \ {<<n, payer>>}
    /\ IF done /\ n \in held
       THEN revenue' = revenue + Rent /\ UNCHANGED <<refunds, totalRefunds>>
       ELSE add_pending_refund(payer, Rent) /\ UNCHANGED revenue
    /\ UNCHANGED <<now, nameVars, orderVars, deposit, balance, rentals, claims>>

(* The payments of activate_tla and renew_tla are charged at once.         *)
renew_tla(payer, attached) ==
    /\ Call("RenewTla")
    /\ business => payer = Licensee
    /\ Pays(attached)
    /\ attached >= Rent
    /\ revenue' = revenue + Rent
    /\ refund_excess(payer, attached, Rent)
    /\ balance' = balance + attached
    /\ UNCHANGED <<held, parked, subCount, whitelist, orderVars, flightVars>>

-----------------------------------------------------------------------------
(* Refunds and withdrawals *)

claim_refund(who) ==
    LET amount == refunds[who]
    IN  /\ Call("Refund")
        /\ amount > 0
        /\ amount <= balance
        /\ <<who, amount>> \notin claims
        /\ refunds' = [refunds EXCEPT ![who] = 0]
        /\ totalRefunds' = Less(totalRefunds, amount)
        /\ balance' = balance - amount
        /\ claims' = claims \cup {<<who, amount>>}
        /\ UNCHANGED <<held, parked, subCount, whitelist, orderVars, revenue, rentals, renewals>>

(* A transfer that fails comes back, and the refund is owed again.         *)
on_claim_refund_settled(who, amount, paid) ==
    /\ <<who, amount>> \in claims
    /\ claims' = claims \ {<<who, amount>>}
    /\ IF paid
       THEN UNCHANGED <<refunds, totalRefunds, balance>>
       ELSE add_pending_refund(who, amount) /\ balance' = balance + amount
    /\ UNCHANGED <<now, nameVars, orderVars, deposit, revenue, rentals, renewals>>

withdraw(amount) ==
    /\ Call("Withdraw")
    /\ amount \in 1..revenue
    /\ totalRefunds + amount <= balance
    /\ revenue' = Less(revenue, amount)
    /\ add_pending_refund(Treasury, amount)
    /\ UNCHANGED <<held, parked, subCount, whitelist, orderVars, balance, flightVars>>

-----------------------------------------------------------------------------
(* Council and admin *)

Governs(op) == op \in Ops /\ UNCHANGED <<now, held, parked, subCount, moneyVars, flightVars>>

bind_payment_authority_tla(max) ==
    /\ Governs("Bind")
    /\ allowance' = max
    /\ UNCHANGED <<business, whitelist, orders, used, deposit>>

unbind_payment_authority_tla ==
    /\ Governs("Unbind")
    /\ allowance' = Unbound
    /\ used' = 0
    /\ UNCHANGED <<business, whitelist, orders, deposit>>

admin_release_paid_order(o) ==
    /\ Governs("ReleaseOrder")
    /\ orders[o].state = "inflight"
    /\ now - orders[o].started >= ReleaseAfter
    /\ drop_order(o)
    /\ UNCHANGED <<business, whitelist, allowance, deposit>>

update_fee_config(d) ==
    /\ Governs("Fees")
    /\ deposit' = d
    /\ UNCHANGED <<business, whitelist, orderVars>>

admin_set_tla_type ==
    /\ Governs("Retype")
    /\ business' = ~business
    /\ UNCHANGED <<whitelist, orderVars, deposit>>

admin_whitelist_add(who) ==
    /\ Governs("Claim")
    /\ business
    /\ whitelist' = whitelist \cup {who}
    /\ UNCHANGED <<business, orderVars, deposit>>

admin_whitelist_remove(who) ==
    /\ Governs("Claim")
    /\ whitelist' = whitelist \ {who}
    /\ UNCHANGED <<business, orderVars, deposit>>

(* Variant: a reclaimed name is still counted.                             *)
on_reclaim_finalized_uncounted(n) ==
    /\ "Reclaim" \in Ops
    /\ n \in held
    /\ rentals[n] = NoRental
    /\ held' = held \ {n}
    /\ parked' = parked \cup {n}
    /\ UNCHANGED <<now, business, subCount, whitelist, orderVars, deposit, moneyVars, flightVars>>

(* on_reclaim_finalized with a park that succeeded.  A lease outlasts the  *)
(* promise chain that opened it, so no rental of the name is in flight.    *)
on_reclaim_finalized(n) ==
    /\ "Reclaim" \in Ops
    /\ n \in held
    /\ rentals[n] = NoRental
    /\ held' = held \ {n}
    /\ parked' = parked \cup {n}
    /\ business_count_decrement_if_business
    /\ UNCHANGED <<now, business, whitelist, orderVars, deposit, moneyVars, flightVars>>

(* Promise chains answer before an order may be released by hand, unless   *)
(* "Late" is among the operations.                                         *)
Elapse ==
    /\ now < scenario.horizon
    /\ advance
    /\ "Late" \in Ops
         \/ \A n \in Names : rentals[n] # NoRental => now + 1 - rentals[n].born < ReleaseAfter
    /\ UNCHANGED <<nameVars, orderVars, deposit, moneyVars, flightVars>>

-----------------------------------------------------------------------------
RentalsInit ==
    /\ now = Genesis
    /\ held = {} /\ parked = {} /\ whitelist = {}
    /\ business \in BOOLEAN
    /\ subCount = 0
    /\ orders = [o \in Orders |-> FreeOrder]
    /\ allowance = Unbound
    /\ used = 0
    /\ deposit = FirstDeposit
    /\ refunds = [a \in Accounts |-> 0]
    /\ totalRefunds = 0 /\ revenue = 0 /\ balance = 0
    /\ rentals = [n \in Names |-> NoRental]
    /\ renewals = {} /\ claims = {}
    /\ scenario \in Scenarios

Rents ==
    \E n \in scenario.names, attached \in scenario.attached :
        \/ \E payer \in Users \cup {Relay} :
              \/ rent_sub_account(n, payer, attached)
              \/ renew_sub_account(n, payer, attached)
        \/ \E o \in scenario.orders : rent_sub_account_paid(n, o, attached)
        \/ \E claimer \in Users : claim_business_name(n, claimer, attached)

Answers ==
    \/ \E n \in Names :
          \/ \E outcome \in {"Active", "CreationFailed", "Err"}, back \in BOOLEAN :
                /\ outcome = "Err" => "Strand" \in Ops
                /\ back => outcome = "Err"
                /\ \/ on_sub_account_created(n, outcome, back)
                   \/ on_sub_account_created_paid(n, outcome, back)
                   \/ on_business_name_claimed(n, outcome, back)
          \/ \E good \in BOOLEAN :
                \/ on_re_rent_balances_checked(n, good)
                \/ on_sub_account_re_rented(n, good)
                \/ \E payer \in Users \cup {Relay} : on_sub_account_renewed(n, payer, good)
    \/ \E c \in claims, paid \in BOOLEAN : on_claim_refund_settled(c[1], c[2], paid)

Pursers ==
    \/ \E payer \in Users, attached \in scenario.attached : renew_tla(payer, attached)
    \/ \E who \in Accounts : claim_refund(who)
    \/ \E amount \in 1..MaxBalance : withdraw(amount)

Governors ==
    \/ \E max \in Allowances : bind_payment_authority_tla(max)
    \/ unbind_payment_authority_tla
    \/ \E o \in Orders : admin_release_paid_order(o)
    \/ \E d \in Deposits : update_fee_config(d)
    \/ admin_set_tla_type
    \/ \E who \in Users : admin_whitelist_add(who) \/ admin_whitelist_remove(who)
    \/ \E n \in Names : on_reclaim_finalized(n)

RentalsNext ==
    /\ Rents \/ Answers \/ Pursers \/ Governors \/ Elapse
    /\ UNCHANGED scenario

RentalsSpec == RentalsInit /\ [][RentalsNext]_rentalVars

-----------------------------------------------------------------------------
(* Properties *)

Without(ops) == Ops \cap ops = {}

InFlightOrder ==
    [state : {"inflight"}, name : Names, payer : {Relay}, started : Genesis..MaxTime]
RentalType ==
    [stage : {"mint", "claim", "gate", "rerent"}, payer : Users \cup {Relay},
     order : Orders \cup {NoOrder}, rent : {0, Rent}, attached : Attached,
     sent : Deposits \cup {0}, born : Genesis..MaxTime]

(* The registry's fields keep their types.                                 *)
RentalsTypeOK ==
    /\ now \in Genesis..MaxTime
    /\ held \subseteq Names /\ parked \subseteq Names /\ whitelist \subseteq Users
    /\ business \in BOOLEAN
    /\ subCount \in Nat /\ used \in Nat
    /\ orders \in [Orders -> {FreeOrder, SettledOrder} \cup InFlightOrder]
    /\ allowance \in Allowances \cup {Unbound}
    /\ deposit \in Deposits
    /\ refunds \in [Accounts -> Nat]
    /\ {totalRefunds, revenue, balance} \subseteq Nat
    /\ rentals \in [Names -> {NoRental} \cup RentalType]
    /\ renewals \subseteq Names \X (Users \cup {Relay})
    /\ \A c \in claims : c[1] \in Accounts /\ c[2] \in Nat

(* total_pending_refunds, the figure withdraw reserves, is the sum of what *)
(* the accounts are owed, whatever overlaps with a transfer in flight.     *)
RefundsAddUp == totalRefunds = SumFunction(refunds)

(* The name count a business TLA's cap is enforced with is the number of   *)
(* its entries, through failed, stranded and reclaimed rentals, as long as *)
(* the type of the TLA is not changed.                                     *)
CountMatchesEntries == Without({"Retype"}) /\ business => subCount = Cardinality(held)

(* An order is reserved only while its rental is in flight: a rental that  *)
(* bought nothing leaves its order spendable, unless the asset gate        *)
(* stopped it.                                                             *)
OrderHasRental ==
    ~Gated => \A o \in Orders : orders[o].state = "inflight" =>
        \E n \in Names : rentals[n] # NoRental /\ rentals[n].order = o

(* The relay's mints are metered by its orders: used counts the orders     *)
(* reserved or settled, no more and no fewer, until the relay is unbound,  *)
(* and those reserved are the ones whose rental is in flight.  Where a     *)
(* token gates re-rentals only the first half is claimed: an order whose   *)
(* re-rental the gate stopped stays reserved until it is released by hand. *)
MeterMatchesOrders ==
    /\ Without({"Unbind"}) => used = Cardinality({o \in Orders : orders[o] # FreeOrder})
    /\ OrderHasRental

=============================================================================
