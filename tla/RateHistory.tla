----------------------------- MODULE RateHistory -----------------------------
(***************************************************************************)
(* The price of a name observed from outside: someone asks for a quote and *)
(* pays later, after the oracle has moved the rate.                        *)
(***************************************************************************)
EXTENDS RateOracle

CONSTANTS Lengths, Categories       \* the labels quoted for

ASSUME LabelsAssumption == Lengths \subseteq Nat /\ Categories \subseteq PremiumCategory

VARIABLE quoted                     \* the last quote, or Unset

rateHistoryVars == <<rateVars, quoted>>

(* get_rent_price, a view, and what it was computed from.                  *)
AskPrice(len, premium) ==
    /\ convertible(sub_account_rent(len, premium, fees))
    /\ quoted' = [len |-> len, premium |-> premium, rate |-> rate, fees |-> fees,
                  amount |-> get_rent_price(len, premium)]
    /\ UNCHANGED rateVars

RateHistoryInit == RateInit /\ quoted = Unset

RateHistoryNext ==
    \/ RateNext /\ UNCHANGED quoted
    \/ \E len \in Lengths, premium \in Categories : AskPrice(len, premium)

RateHistorySpec == RateHistoryInit /\ [][RateHistoryNext]_rateHistoryVars

-----------------------------------------------------------------------------

(* update_fee_config, set_near_usd_rate, convert_usd_to_near: names never  *)
(* become unpriced with nobody able to mend it.  A rate that was set and   *)
(* can no longer be charged at has outlived the oracle's cooldown, and the *)
(* oracle may confirm it as it stands.                                     *)
PricingRecoverable ==
    rate # 0 /\ ~convertible(0) =>
        /\ now >= rateAt + fees.cooldown
        /\ rate_within_bounds(rate, rate, fees.move, fees.floor, fees.ceiling)

(* quote_with_slippage and rate_within_bounds: a quote still pays for the  *)
(* name, to the last indivisible unit, after any updates that took the     *)
(* rate down by no more than the allowance was made for.                   *)
QuoteCovers ==
    quoted # Unset =>
        \/ fees # quoted.fees
        \/ ~convertible(sub_account_rent(quoted.len, quoted.premium, fees))
        \/ rate * (Basis + fees.slippage) < quoted.rate * Basis
        \/ rent_charge(quoted.len, quoted.premium) <= quoted.amount + 1

-----------------------------------------------------------------------------
(* A statement of the tests that the code does not keep.                   *)

(* contracts/tla-registry/src/tests.rs, of get_business_renewal_cost:      *)
(* "business_renewal_cost_quotes_the_tla_rent_only".  It covers what       *)
(* renew_tla charges.                                                      *)
RenewalCostCovers ==
    \A len \in Lengths :
        convertible(tla_rent_usd_micro(len)) =>
            renew_tla_charge(len) <= get_business_renewal_cost(len)

=============================================================================
