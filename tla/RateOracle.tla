----------------------------- MODULE RateOracle -----------------------------
(***************************************************************************)
(* What a name costs: contracts/tla-registry pricing.rs and fees.rs, with  *)
(* the rate and the fee configuration they are computed from (lib.rs,      *)
(* admin.rs, business.rs).  Prices are kept in USD and charged in NEAR at  *)
(* a rate an oracle moves within bounds; a quote carries an allowance for  *)
(* the rate moving before it is paid.                                      *)
(***************************************************************************)
EXTENDS Clock, FiniteSets

CONSTANTS
    Basis,          \* BPS_DENOMINATOR
    Yocto,          \* YOCTO_PER_NEAR
    Rates,          \* what the oracle and the council may submit
    Configs,        \* the fee configurations the council may submit
    FirstConfig,    \* default_fee_config
    TlaRents,       \* rents that terms of a TLA may set
    MaxUsd,         \* MAX_USD_MICRO
    MaxRate,        \* MAX_NEAR_USD_RATE_MICRO
    Council, Admin, Keepers,
    Unset           \* None, where the code has an Option

ASSUME RateAssumption ==
    /\ Rates \subseteq Nat
    /\ {Basis, Yocto} \subseteq Nat \ {0}
    /\ {MaxUsd, MaxRate} \subseteq Nat
    /\ TlaRents \subseteq Nat /\ Unset \notin Nat

VARIABLES
    rate,           \* near_usd_rate_micro, 0 until it is set
    rateAt,         \* rate_updated_at
    sequence,       \* rate_sequence
    fees,           \* fee_config
    oracle,         \* price_oracle
    tlaRent         \* the TLA's terms: tla_rent_usd_micro

rateVars == <<now, rate, rateAt, sequence, fees, oracle, tlaRent>>

-----------------------------------------------------------------------------
(* pricing.rs *)

div_ceil(a, b) == (a + b - 1) \div b

usd_micro_to_near_yocto(usd, r) == (usd * Yocto) \div r

(* Variant: the remainder of the amount carries no allowance.              *)
quote_with_slippage_whole(amount, bps) == amount + (amount \div Basis) * bps

(* Whole and partial parts of the allowance, so that neither overflows.    *)
quote_with_slippage(amount, bps) ==
    amount + (amount \div Basis) * bps + div_ceil((amount % Basis) * bps, Basis)

rate_lower_bound(current, move) == div_ceil(current * (Basis - move), Basis)
rate_upper_bound(current, move) == (current * (Basis + move)) \div Basis

rate_is_usable(r, floor, ceiling) == r # 0 /\ r >= floor /\ r <= ceiling

rate_within_bounds(current, new, move, floor, ceiling) ==
    /\ move <= Basis
    /\ new >= floor /\ new <= ceiling
    /\ rate_is_usable(current, floor, ceiling) =>
        /\ new >= rate_lower_bound(current, move)
        /\ new <= rate_upper_bound(current, move)

-----------------------------------------------------------------------------
(* fees.rs *)

base_rent(len, config) ==
    CASE len <= 5 -> config.tiers[1]
      [] len \in 6..8 -> config.tiers[2]
      [] len \in 9..10 -> config.tiers[3]
      [] OTHER -> config.tiers[4]

PremiumCategory == {"Legendary", "Premium", "Standard", "Community"}
multiplier ==
    [Legendary |-> <<5, 1>>, Premium |-> <<3, 1>>, Standard |-> <<3, 2>>, Community |-> <<0, 1>>]

sub_account_rent(len, premium, config) ==
    (base_rent(len, config) * multiplier[premium][1]) \div multiplier[premium][2]

tla_rent_usd_micro(len) == IF tlaRent = Unset THEN base_rent(len, fees) ELSE tlaRent

-----------------------------------------------------------------------------

(* convert_usd_to_near refuses without a rate, at a rate outside the band  *)
(* or too old, and above the cap.                                          *)
convertible(usd) ==
    /\ rate_is_usable(rate, fees.floor, fees.ceiling)
    /\ now <= rateAt + fees.maxAge
    /\ usd <= MaxUsd

convert_usd_to_near(usd) == usd_micro_to_near_yocto(usd, rate)

quote_usd_to_near(usd) == quote_with_slippage(convert_usd_to_near(usd), fees.slippage)

(* Views: what a name of an open TLA is quoted at, and what renewing a     *)
(* business TLA is, whatever the terms of the TLA are.                     *)
get_rent_price(len, premium) == quote_usd_to_near(sub_account_rent(len, premium, fees))
get_business_renewal_cost(len) == quote_usd_to_near(base_rent(len, fees))

(* What rent_sub_account and renew_tla charge.                             *)
rent_charge(len, premium) == convert_usd_to_near(sub_account_rent(len, premium, fees))
renew_tla_charge(len) == convert_usd_to_near(tla_rent_usd_micro(len))

commit_rate(r) ==
    /\ rate' = r
    /\ rateAt' = now
    /\ sequence' = sequence + 1
    /\ UNCHANGED <<now, fees, oracle, tlaRent>>

admin_set_initial_rate(caller, r) ==
    /\ caller = Council
    /\ rate = 0
    /\ r >= fees.floor /\ r <= fees.ceiling
    /\ commit_rate(r)

set_near_usd_rate(caller, r) ==
    /\ caller = oracle
    /\ rate # 0
    /\ now >= rateAt + fees.cooldown
    /\ rate_within_bounds(rate, r, fees.move, fees.floor, fees.ceiling)
    /\ commit_rate(r)

set_price_oracle(caller, account) ==
    /\ caller = Admin
    /\ oracle' = account
    /\ UNCHANGED <<now, rate, rateAt, sequence, fees, tlaRent>>

(* The checks of update_fee_config that concern prices.                    *)
tiers_valid(config) ==
    /\ \E i \in 1..4 : config.tiers[i] # 0
    /\ \A i \in 1..3 : config.tiers[i] >= config.tiers[i + 1]
    /\ \A i \in 1..4 : config.tiers[i] <= MaxUsd

bounds_valid(config) ==
    /\ config.move <= Basis /\ config.slippage <= Basis
    /\ config.floor # 0 /\ config.floor <= config.ceiling /\ config.ceiling <= MaxRate

(* Variant: a rate the new band excludes is left for the oracle to mend.   *)
rate_kept_any(config) == TRUE
rate_kept(config) == rate # 0 => rate >= config.floor /\ rate <= config.ceiling

times_valid(config) == config.cooldown # 0 /\ config.maxAge >= config.cooldown

update_fee_config(caller, config) ==
    /\ caller = Council
    /\ tiers_valid(config) /\ bounds_valid(config) /\ rate_kept(config) /\ times_valid(config)
    /\ fees' = config
    /\ UNCHANGED <<now, rate, rateAt, sequence, oracle, tlaRent>>

set_tla_terms(caller, rent) ==
    /\ caller = Council
    /\ rent # Unset => rent <= MaxUsd
    /\ tlaRent' = rent
    /\ UNCHANGED <<now, rate, rateAt, sequence, fees, oracle>>

Config == [tiers : [1..4 -> Nat], move : Nat, slippage : Nat, floor : Nat, ceiling : Nat,
           cooldown : Nat, maxAge : Nat]

ASSUME ConfigAssumption ==
    /\ \A config \in Configs \cup {FirstConfig} : config \in Config
    /\ tiers_valid(FirstConfig) /\ bounds_valid(FirstConfig) /\ times_valid(FirstConfig)

RateInit ==
    /\ now = Genesis
    /\ rate = 0 /\ rateAt = 0 /\ sequence = 0
    /\ fees = FirstConfig
    /\ oracle = Admin
    /\ tlaRent = Unset

RateCall ==
    \E caller \in {Council, Admin} \cup Keepers :
        \/ \E r \in Rates : admin_set_initial_rate(caller, r) \/ set_near_usd_rate(caller, r)
        \/ \E account \in Keepers : set_price_oracle(caller, account)
        \/ \E config \in Configs : update_fee_config(caller, config)
        \/ \E rent \in TlaRents \cup {Unset} : set_tla_terms(caller, rent)

RateTick == advance /\ UNCHANGED <<rate, rateAt, sequence, fees, oracle, tlaRent>>

RateNext == RateCall \/ RateTick

=============================================================================
