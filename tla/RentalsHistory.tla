------------------------- MODULE RentalsHistory -------------------------
(***************************************************************************)
(* PaidRentals with what its fields do not keep: the creation deposits     *)
(* that never came back, how many names each order paid for, and what the  *)
(* relay minted under its current binding.                                 *)
(***************************************************************************)
EXTENDS PaidRentals

VARIABLES
    lost,           \* creation deposits of stranded mints that did not return
    paidFor,        \* for each order, the names it bought
    bound,          \* names whose rental began under the current binding
    minted,         \* names minted under the current binding
    granted         \* the largest allowance the current binding has had

historyVars == <<rentalVars, lost, paidFor, bound, minted, granted>>

(* The names whose rental ends in this step, and those that it bought.     *)
Ended == {n \in Names : rentals[n] # NoRental /\ rentals'[n] = NoRental}
Bought == {n \in Ended : n \in held'}

Began == {n \in Names : rentals[n] = NoRental /\ rentals'[n] # NoRental}
OrderOf(n) == IF rentals[n] = NoRental THEN NoOrder ELSE rentals[n].order

Observe ==
    /\ lost' = lost + SumFunction([n \in {m \in Ended : rentals[m].sent > 0 /\ m \in parked'
                                                        /\ balance' = balance} |-> rentals[n].sent])
    /\ paidFor' = [o \in Orders |->
                     paidFor[o] + Cardinality({n \in Bought : OrderOf(n) = o})]
    /\ IF allowance' = Unbound
       THEN bound' = {} /\ minted' = 0 /\ granted' = 0
       ELSE /\ bound' = (bound \ Ended) \cup {n \in Began : rentals'[n].order # NoOrder}
            /\ minted' = minted + Cardinality(Bought \cap bound)
            /\ granted' = Max({granted, allowance'})

HistoryInit ==
    /\ RentalsInit
    /\ lost = 0
    /\ paidFor = [o \in Orders |-> 0]
    /\ bound = {}
    /\ minted = 0
    /\ granted = 0

HistoryNext == RentalsNext /\ Observe

HistorySpec == HistoryInit /\ [][HistoryNext]_historyVars

-----------------------------------------------------------------------------
(* Every amount in the registry is owed to an account, earned, or held for *)
(* a rental or renewal in flight, but for the creation deposits that       *)
(* stranded mints lost while their payers are refunded in full.  The       *)
(* creation deposit is the same throughout.  What is owed in total is what *)
(* the accounts are owed, whatever the deposit.                            *)
LedgerBalances ==
    /\ RefundsAddUp
    /\ Without({"Fees"}) =>
        balance + lost = totalRefunds + revenue + Rent * Cardinality(renewals)
            + SumFunction([n \in {m \in Names : rentals[m] # NoRental} |->
                              rentals[n].attached - rentals[n].sent])

(* One order pays for one name, however often it is released and retried,  *)
(* if promises are answered before it may be released by hand.             *)
OrderBuysOnce == Without({"Late"}) => \A o \in Orders : paidFor[o] <= 1

(* A relay mints no more names under a binding than the council allowed,   *)
(* without late answers, and without mints left over from another binding. *)
RelayWithinAllowance == Without({"Late", "Unbind"}) => minted <= granted

-----------------------------------------------------------------------------
(* A statement of the README that the code does not keep *)

(* README: "a treasury withdrawal cannot spend money a user is owed": when *)
(* the treasury is paid, the refunds left are covered by what the registry *)
(* still has.                                                              *)
TreasuryPaidLast ==
    [][refunds'[Treasury] < refunds[Treasury] => balance' >= totalRefunds']_historyVars

=============================================================================
