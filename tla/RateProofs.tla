----------------------------- MODULE RateProofs -----------------------------
(***************************************************************************)
(* Pricing can always be mended and a quote always covers the fall of the  *)
(* rate it was made for, whatever the configurations, the rates and the    *)
(* units: proofs about RateHistory.                                        *)
(***************************************************************************)
EXTENDS RateHistory, TLAPS

(* A product grows with its factors.                                       *)
LEMMA Monotone ==
    ASSUME NEW a \in Nat, NEW b \in Nat, NEW c \in Nat, a <= b
    PROVE  a * c <= b * c
OBVIOUS

(* A common positive factor cancels.                                       *)
LEMMA Cancel ==
    ASSUME NEW a \in Nat, NEW b \in Nat, NEW c \in Nat, a * c < b * c
    PROVE  a < b
<1> SUFFICES ASSUME b <= a PROVE FALSE
  OBVIOUS
<1>1. b * c <= a * c
  BY Monotone
<1> QED BY <1>1

(* What the integer division is.                                           *)
LEMMA Division ==
    ASSUME NEW a \in Nat, NEW b \in Nat \ {0}
    PROVE  /\ a \div b \in Nat /\ a % b \in Nat
           /\ a = b * (a \div b) + (a % b)
           /\ a % b < b
OBVIOUS

(* Division rounded up is enough.                                          *)
LEMMA CeilEnough ==
    ASSUME NEW a \in Nat, NEW b \in Nat \ {0}
    PROVE  div_ceil(a, b) \in Nat /\ a <= b * div_ceil(a, b)
<1>1. a + b - 1 \in Nat
  OBVIOUS
<1> DEFINE x == a + b - 1
<1>2. /\ x \div b \in Nat /\ x % b \in Nat
      /\ x = b * (x \div b) + (x % b)
      /\ x % b < b
  BY <1>1, Division
<1> QED BY <1>2 DEF div_ceil

(* A quote is at least the amount with its allowance.                      *)
LEMMA QuoteEnough ==
    ASSUME NEW a \in Nat, NEW s \in Nat
    PROVE  /\ quote_with_slippage(a, s) \in Nat
           /\ a * (Basis + s) <= quote_with_slippage(a, s) * Basis
<1> DEFINE w == a \div Basis
           m == a % Basis
           c == div_ceil(m * s, Basis)
<1>1. Basis \in Nat \ {0}
  BY RateAssumption
<1>2. w \in Nat /\ m \in Nat /\ a = Basis * w + m
  BY <1>1, Division
<1>3. m * s \in Nat
  BY <1>2
<1>4. c \in Nat /\ m * s <= Basis * c
  BY <1>1, <1>3, CeilEnough
<1>5. quote_with_slippage(a, s) = a + w * s + c
  BY DEF quote_with_slippage
<1> HIDE DEF w, m, c
<1>6. a * s = Basis * (w * s) + m * s
  BY <1>1, <1>2
<1>7. (a + w * s + c) * Basis = a * Basis + Basis * (w * s) + Basis * c
  BY <1>1, <1>2, <1>4
<1>8. a * (Basis + s) = a * Basis + a * s
  BY <1>1
<1>9. a * (Basis + s) <= (a + w * s + c) * Basis
  BY <1>1, <1>2, <1>4, <1>6, <1>7, <1>8
<1> QED BY <1>1, <1>2, <1>4, <1>5, <1>9

(* A price at a rate that has fallen by no more than the allowance is at   *)
(* most one unit above the quote.                                          *)
LEMMA FallCovered ==
    ASSUME NEW x \in Nat, NEW s \in Nat, s <= Basis,
           NEW r \in Nat \ {0}, NEW fallen \in Nat \ {0},
           fallen * (Basis + s) >= r * Basis
    PROVE  x \div fallen <= quote_with_slippage(x \div r, s) + 1
<1> DEFINE a == x \div r
           p == x \div fallen
           q == quote_with_slippage(a, s)
           k == Basis + s
<1>1. Basis \in Nat \ {0} /\ k \in Nat
  BY RateAssumption
<1>2. a \in Nat /\ x < (a + 1) * r
  <2>1. /\ a \in Nat /\ x % r \in Nat
        /\ x = r * a + (x % r) /\ x % r < r
    BY Division
  <2> HIDE DEF a
  <2> QED BY <2>1
<1>3. p \in Nat /\ p * fallen <= x
  <2>1. /\ p \in Nat /\ x % fallen \in Nat
        /\ x = fallen * p + (x % fallen)
    BY Division
  <2> HIDE DEF p
  <2> QED BY <2>1
<1>4. q \in Nat /\ a * k <= q * Basis
  BY <1>2, QuoteEnough
<1> HIDE DEF a, p, q
<1>5. p * (r * Basis) <= p * (fallen * k)
  <2>1. r * Basis \in Nat /\ fallen * k \in Nat /\ r * Basis <= fallen * k
    BY <1>1
  <2>2. (r * Basis) * p <= (fallen * k) * p
    BY <2>1, <1>3, Monotone
  <2> QED BY <2>1, <2>2, <1>3
<1> HIDE DEF k
<1>6. (p * fallen) * k < ((a + 1) * r) * k
  <2>1. p * fallen \in Nat /\ (a + 1) * r \in Nat /\ p * fallen + 1 <= (a + 1) * r
    BY <1>2, <1>3
  <2>2. (p * fallen + 1) * k <= ((a + 1) * r) * k
    BY <2>1, <1>1, Monotone
  <2>3. k > 0
    BY <1>1 DEF k
  <2> QED BY <2>1, <2>2, <2>3, <1>1
<1>7. (p * Basis) * r < ((a + 1) * k) * r
  <2>1. (p * Basis) * r = p * (r * Basis)
    BY <1>1, <1>3
  <2>2. p * (fallen * k) = (p * fallen) * k
    BY <1>1, <1>3
  <2>3. ((a + 1) * r) * k = ((a + 1) * k) * r
    BY <1>1, <1>2
  <2> QED BY <2>1, <2>2, <2>3, <1>1, <1>2, <1>3, <1>5, <1>6
<1>8. p * Basis < (a + 1) * k
  <2>1. p * Basis \in Nat /\ (a + 1) * k \in Nat
    BY <1>1, <1>2, <1>3
  <2> QED BY <2>1, <1>7, Cancel
<1>9. p * Basis < (q + 2) * Basis
  <2>1. (a + 1) * k = a * k + k
    BY <1>1, <1>2
  <2>2. k <= Basis + Basis
    BY <1>1 DEF k
  <2>3. (q + 2) * Basis = q * Basis + Basis + Basis
    BY <1>1, <1>4
  <2>4. p * Basis \in Nat /\ a * k \in Nat /\ q * Basis \in Nat
    BY <1>1, <1>2, <1>3, <1>4
  <2> QED BY <2>1, <2>2, <2>3, <2>4, <1>1, <1>4, <1>8
<1>10. p < q + 2
  BY <1>1, <1>3, <1>4, <1>9, Cancel
<1> QED BY <1>3, <1>4, <1>10 DEF a, p, q

-----------------------------------------------------------------------------

(* A rent is a natural number.                                             *)
LEMMA RentIsNat ==
    ASSUME NEW config \in Config, NEW len \in Lengths, NEW premium \in Categories
    PROVE  sub_account_rent(len, premium, config) \in Nat
<1>1. base_rent(len, config) \in Nat
  <2>1. len \in Nat /\ \A i \in 1..4 : config.tiers[i] \in Nat
    BY LabelsAssumption DEF Config
  <2>2. base_rent(len, config) \in {config.tiers[1], config.tiers[2], config.tiers[3], config.tiers[4]}
    BY <2>1 DEF base_rent
  <2> QED BY <2>1, <2>2
<1>2. premium \in {"Legendary", "Premium", "Standard", "Community"}
  BY LabelsAssumption DEF PremiumCategory
<1>3. multiplier[premium][1] \in Nat /\ multiplier[premium][2] \in Nat \ {0}
  BY <1>2 DEF multiplier
<1>4. base_rent(len, config) * multiplier[premium][1] \in Nat
  BY <1>1, <1>3
<1> QED BY <1>3, <1>4, Division DEF sub_account_rent

(* The configuration in force was accepted, and the rate lies in its band. *)
RateInv ==
    /\ now \in Nat /\ rate \in Nat /\ rateAt \in Nat
    /\ fees \in Config /\ bounds_valid(fees) /\ times_valid(fees)
    /\ rate_kept(fees)

(* A quote is what it was computed from.                                   *)
QuoteInv ==
    quoted # Unset =>
        /\ quoted.len \in Lengths /\ quoted.premium \in Categories
        /\ quoted.rate \in Nat \ {0}
        /\ quoted.amount =
            quote_with_slippage(
                usd_micro_to_near_yocto(
                    sub_account_rent(quoted.len, quoted.premium, quoted.fees), quoted.rate),
                quoted.fees.slippage)

(* Both hold at the start.                                                 *)
LEMMA RateInvInit == RateHistoryInit => RateInv /\ QuoteInv
BY ClockAssumption, ConfigAssumption
   DEF RateHistoryInit, RateInit, RateInv, QuoteInv, rate_kept

(* A committed rate lies in the band.                                      *)
LEMMA CommitStep ==
    ASSUME RateInv, NEW r \in Rates, r >= fees.floor, r <= fees.ceiling, commit_rate(r)
    PROVE  RateInv'
BY RateAssumption DEF RateInv, commit_rate, rate_kept, bounds_valid, times_valid

(* Every call keeps the invariant of the rate.                             *)
LEMMA RateInvStep == RateInv /\ [RateHistoryNext]_rateHistoryVars => RateInv'
<1> SUFFICES ASSUME RateInv, [RateHistoryNext]_rateHistoryVars PROVE RateInv'
  OBVIOUS
<1>1. CASE UNCHANGED rateVars
  BY <1>1 DEF RateInv, rateVars, rate_kept, bounds_valid, times_valid
<1>2. CASE RateTick
  BY <1>2, ClockAssumption DEF RateTick, advance, RateInv, rate_kept, bounds_valid, times_valid
<1>3. CASE RateCall
  <2>1. PICK caller \in {Council, Admin} \cup Keepers :
           \/ \E r \in Rates : admin_set_initial_rate(caller, r) \/ set_near_usd_rate(caller, r)
           \/ \E account \in Keepers : set_price_oracle(caller, account)
           \/ \E config \in Configs : update_fee_config(caller, config)
           \/ \E rent \in TlaRents \cup {Unset} : set_tla_terms(caller, rent)
    BY <1>3 DEF RateCall
  <2>2. ASSUME NEW r \in Rates, admin_set_initial_rate(caller, r) \/ set_near_usd_rate(caller, r)
        PROVE  RateInv'
    BY <2>2, CommitStep DEF admin_set_initial_rate, set_near_usd_rate, rate_within_bounds
  <2>3. ASSUME NEW account \in Keepers, set_price_oracle(caller, account)
        PROVE  RateInv'
    BY <2>3 DEF set_price_oracle, RateInv, rate_kept, bounds_valid, times_valid
  <2>4. ASSUME NEW config \in Configs, update_fee_config(caller, config)
        PROVE  RateInv'
    <3>1. config \in Config /\ fees' = config /\ now' = now /\ rate' = rate /\ rateAt' = rateAt
      BY <2>4, ConfigAssumption DEF update_fee_config
    <3>2. bounds_valid(config) /\ times_valid(config) /\ rate_kept(config)
      BY <2>4 DEF update_fee_config
    <3> QED BY <3>1, <3>2 DEF RateInv, rate_kept, bounds_valid, times_valid
  <2>5. ASSUME NEW rent \in TlaRents \cup {Unset}, set_tla_terms(caller, rent)
        PROVE  RateInv'
    BY <2>5 DEF set_tla_terms, RateInv, rate_kept, bounds_valid, times_valid
  <2> QED BY <2>1, <2>2, <2>3, <2>4, <2>5
<1> QED BY <1>1, <1>2, <1>3 DEF RateHistoryNext, RateNext, AskPrice, rateHistoryVars

(* Asking for a price records what it was computed from.                   *)
LEMMA QuoteInvStep == RateInv /\ QuoteInv /\ [RateHistoryNext]_rateHistoryVars => QuoteInv'
<1> SUFFICES ASSUME RateInv, QuoteInv, [RateHistoryNext]_rateHistoryVars PROVE QuoteInv'
  OBVIOUS
<1>1. CASE UNCHANGED quoted
  BY <1>1 DEF QuoteInv, quote_with_slippage, usd_micro_to_near_yocto, sub_account_rent, base_rent
<1>2. ASSUME NEW len \in Lengths, NEW premium \in Categories, AskPrice(len, premium)
      PROVE  QuoteInv'
  <2>1. rate \in Nat \ {0}
    BY <1>2 DEF AskPrice, convertible, rate_is_usable, RateInv
  <2>2. quoted' = [len |-> len, premium |-> premium, rate |-> rate, fees |-> fees,
                   amount |-> get_rent_price(len, premium)]
    BY <1>2 DEF AskPrice
  <2>3. get_rent_price(len, premium) =
            quote_with_slippage(
                usd_micro_to_near_yocto(sub_account_rent(len, premium, fees), rate), fees.slippage)
    BY DEF get_rent_price, quote_usd_to_near, convert_usd_to_near
  <2> QED BY <2>1, <2>2, <2>3 DEF QuoteInv
<1> QED BY <1>1, <1>2 DEF RateHistoryNext, rateHistoryVars

-----------------------------------------------------------------------------

(* The bounds of a move contain the rate itself.                           *)
LEMMA RateConfirmable ==
    ASSUME NEW r \in Nat, NEW move \in Nat, move <= Basis
    PROVE  rate_lower_bound(r, move) <= r /\ r <= rate_upper_bound(r, move)
<1>1. Basis \in Nat \ {0}
  BY RateAssumption
<1>2. rate_lower_bound(r, move) <= r
  <2> DEFINE x == r * (Basis - move) + Basis - 1
             d == x \div Basis
  <2>1. r * (Basis - move) \in Nat /\ r * (Basis - move) <= r * Basis
    BY <1>1
  <2>2. x \in Nat /\ x < (r + 1) * Basis
    BY <1>1, <2>1
  <2> HIDE DEF x
  <2>3. d \in Nat /\ d * Basis <= x
    BY <1>1, <2>2, Division
  <2> HIDE DEF d
  <2>4. d * Basis < (r + 1) * Basis
    BY <1>1, <2>2, <2>3
  <2>5. d < r + 1
    BY <1>1, <2>3, <2>4, Cancel
  <2>6. rate_lower_bound(r, move) = d
    BY DEF rate_lower_bound, div_ceil, d, x
  <2> QED BY <2>3, <2>5, <2>6
<1>3. r <= rate_upper_bound(r, move)
  <2> DEFINE x == r * (Basis + move)
             u == x \div Basis
  <2>1. x \in Nat /\ r * Basis <= x
    BY <1>1
  <2> HIDE DEF x
  <2>2. u \in Nat /\ x < (u + 1) * Basis
    BY <1>1, <2>1, Division
  <2> HIDE DEF u
  <2>3. r * Basis < (u + 1) * Basis
    BY <1>1, <2>1, <2>2
  <2>4. r < u + 1
    BY <1>1, <2>2, <2>3, Cancel
  <2>5. rate_upper_bound(r, move) = u
    BY DEF rate_upper_bound, u, x
  <2> QED BY <2>2, <2>4, <2>5
<1> QED BY <1>2, <1>3

(* PricingRecoverable, for every configuration the council may choose: a   *)
(* rate that can no longer be charged at has outlived the oracle's         *)
(* cooldown (max_rate_age_ns is never below it), lies in the band          *)
(* (update_fee_config refuses to leave it outside) and may be confirmed.   *)
THEOREM PricingAlwaysRecoverable == RateHistorySpec => []PricingRecoverable
<1>1. RateInv => PricingRecoverable
  <2> SUFFICES ASSUME RateInv, rate # 0, ~convertible(0)
               PROVE  /\ now >= rateAt + fees.cooldown
                      /\ rate_within_bounds(rate, rate, fees.move, fees.floor, fees.ceiling)
    BY DEF PricingRecoverable
  <2>1. /\ now \in Nat /\ rate \in Nat /\ rateAt \in Nat
        /\ fees.move \in Nat /\ fees.floor \in Nat /\ fees.ceiling \in Nat
        /\ fees.cooldown \in Nat /\ fees.maxAge \in Nat /\ MaxUsd \in Nat
    BY RateAssumption DEF RateInv, Config
  <2>2. rate >= fees.floor /\ rate <= fees.ceiling /\ fees.move <= Basis
    BY DEF RateInv, rate_kept, bounds_valid
  <2>3. fees.maxAge >= fees.cooldown
    BY DEF RateInv, times_valid
  <2>4. now > rateAt + fees.maxAge
    BY <2>1, <2>2 DEF convertible, rate_is_usable
  <2>5. rate_lower_bound(rate, fees.move) <= rate /\ rate <= rate_upper_bound(rate, fees.move)
    BY <2>1, <2>2, RateConfirmable
  <2>6. rate >= rate_lower_bound(rate, fees.move)
    <3>1. Basis \in Nat \ {0} /\ rate * (Basis - fees.move) \in Nat
      BY RateAssumption, <2>1, <2>2
    <3>2. rate_lower_bound(rate, fees.move) \in Nat
      BY <3>1, CeilEnough DEF rate_lower_bound
    <3> QED BY <2>1, <2>5, <3>2
  <2> QED BY <2>1, <2>2, <2>3, <2>4, <2>5, <2>6 DEF rate_within_bounds
<1> QED BY <1>1, RateInvInit, RateInvStep, PTL DEF RateHistorySpec

(* QuoteCovers, for every unit, configuration and rate: the allowance of a *)
(* quote of s basis points pays for any fall of the rate to no less than   *)
(* 1/(1+s) of what it was, up to one indivisible unit.                     *)
THEOREM QuoteAlwaysCovers == RateHistorySpec => []QuoteCovers
<1>1. RateInv /\ QuoteInv => QuoteCovers
  <2> SUFFICES ASSUME RateInv, QuoteInv, quoted # Unset, fees = quoted.fees,
                      convertible(sub_account_rent(quoted.len, quoted.premium, fees)),
                      ~(rate * (Basis + fees.slippage) < quoted.rate * Basis)
               PROVE  rent_charge(quoted.len, quoted.premium) <= quoted.amount + 1
    BY DEF QuoteCovers
  <2> DEFINE usd == sub_account_rent(quoted.len, quoted.premium, fees)
  <2>1. fees \in Config /\ fees.slippage \in Nat /\ fees.slippage <= Basis
    BY DEF RateInv, Config, bounds_valid
  <2>2. usd \in Nat
    BY <2>1, RentIsNat DEF QuoteInv
  <2>3. usd * Yocto \in Nat /\ Basis \in Nat
    BY <2>2, RateAssumption
  <2>4. rate \in Nat \ {0} /\ quoted.rate \in Nat \ {0}
    BY DEF RateInv, QuoteInv, convertible, rate_is_usable
  <2>5. rate * (Basis + fees.slippage) >= quoted.rate * Basis
    BY <2>1, <2>3, <2>4
  <2>6. quoted.amount = quote_with_slippage((usd * Yocto) \div quoted.rate, fees.slippage)
    BY DEF QuoteInv, usd_micro_to_near_yocto
  <2>7. rent_charge(quoted.len, quoted.premium) = (usd * Yocto) \div rate
    BY DEF rent_charge, convert_usd_to_near, usd_micro_to_near_yocto
  <2> HIDE DEF usd
  <2>8. (usd * Yocto) \div rate <=
            quote_with_slippage((usd * Yocto) \div quoted.rate, fees.slippage) + 1
    BY <2>1, <2>3, <2>4, <2>5, FallCovered
  <2> QED BY <2>6, <2>7, <2>8
<1> QED BY <1>1, RateInvInit, RateInvStep, QuoteInvStep, PTL DEF RateHistorySpec

=============================================================================
