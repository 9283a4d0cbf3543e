--------------------------- MODULE SweepsHistory ---------------------------
(* Sweeps with what each coin met in the account observed. *)
EXTENDS Sweeps

VARIABLES
    claimants,      \* the payout accounts there were while a coin was there
    bounced         \* the coins a payment of which came back

observations == <<claimants, bounced>>

InitObserved ==
    /\ SweepInit
    /\ claimants = [c \in Coins |-> {}]
    /\ bounced = {}

NextObserved ==
    /\ SweepNext
    /\ claimants' = [c \in Coins |->
                        IF at'[c] = "wallet" THEN claimants[c] \cup {payout'} ELSE claimants[c]]
    /\ bounced' = bounced \cup {c \in Coins : at[c] = "moving" /\ at'[c] = "wallet"}

SpecObserved == InitObserved /\ [][NextObserved]_<<sweepVars, observations>>

(* hos_sweep_near, hos_sweep_ft and sweep_to: whatever happens to the name *)
(* while a sweep is under way, an account is paid no more coins than were  *)
(* there while it was the payout account.  One token sweep at a time.      *)
SweptToClaimant ==
    scenario.sweeps = 1 \/ Ft \notin scenario.money =>
        \A a \in Accounts, t \in {Near, Ft} :
            Cardinality({c \in Coins : c[1] = t /\ at[c] = a})
                <= Cardinality({c \in Coins : c[1] = t /\ a \in claimants[c]})

(* apply_rotation and sweep_to: native money in the account has only ever  *)
(* been one party's to claim.  The next holder finds none of the last      *)
(* one's, unless its payment came back; a rotation onto the payout account *)
(* leaves it where it is, since it is that party's already.  README: "the  *)
(* balance leaves with the party giving the name up rather than the one    *)
(* receiving it".  Where nobody names another payout account and no        *)
(* rotation is a recovery or a return.                                     *)
BalanceLeaves ==
    Ops \cap {"SetPayout", "RentPaid", "Recover", "NftTransferCall"} = {} =>
        \A c \in Kept(Near) \ bounced : claimants[c] = {payout}

(* The token chain's legs, abort_and_refund and skim: hos-extension can    *)
(* always pay what a sweep asks of it, whichever leg fails.                *)
ExtensionSolvent == funds >= 0

(* sweep_pending: with no sweep under way, a sweep still listed has        *)
(* something left to sweep.  hos-extension's tests.rs: "a sweep that       *)
(* finally lands must stop asking to be retried".                          *)
PendingIsOwed == chains = <<>> => \A t \in pending : Kept(t) # {}

=============================================================================
