------------------------------- MODULE Sweeps -------------------------------
(***************************************************************************)
(* The money in a name's account when the name changes hands or its lease  *)
(* ends: the wallet's own sweep at a rotation (hos-wallet, sweep_to), and  *)
(* the sweeps anyone may ask the registry for (tla-registry, reclaim.rs),  *)
(* which hos-extension drives, of the native balance and of one fungible   *)
(* token.  The name itself is NameLifecycle.                               *)
(*                                                                         *)
(* A token sweep is a chain of promises: ask the wallet for its payout     *)
(* account, the token for the balance, register the account with the       *)
(* token, have the wallet send.  Each is a step; a query and the callback  *)
(* that passes its answer on are one, since the callback reads nothing     *)
(* else.  The outcome of a payment and the callbacks it drives are one for *)
(* the same reason.                                                        *)
(*                                                                         *)
(* Money is coins, first in first out.  What the wallet keeps as its       *)
(* reserve is not counted.                                                 *)
(***************************************************************************)
EXTENDS NameLifecycle

CONSTANTS
    Ft,             \* a token of sweepable_tokens
    Storage,        \* FT_STORAGE_DEPOSIT_YOCTO
    SkimBuffer,     \* SKIM_BUFFER
    MaxCoins        \* bound: coins of either token that ever arrive

(* The buffer covers what a scenario's sweeps can need at once.  In the    *)
(* code it covers some forty.                                              *)
ASSUME SweepsAssumption ==
    /\ Ft # Near
    /\ {Storage, SkimBuffer, MaxCoins} \subseteq Nat
    /\ \A s \in Scenarios :
        /\ s.money \subseteq {Near, Ft}
        /\ s.sweeps * (2 * Storage + 1) <= SkimBuffer

VARIABLES
    at,             \* where each coin is
    registered,     \* the accounts registered with the token
    chains,         \* the promise chains in flight, oldest first
    asked,          \* sweeps asked for so far
    pending,        \* sweep_pending, by token
    funds,          \* hos-extension's balance above what its storage takes
    owed            \* refunds on their way to hos-extension

moneyVars == <<at, registered, chains, asked, pending, funds, owed>>
sweepVars == <<lifeVars, moneyVars>>

Coins == {Near, Ft} \X (1..MaxCoins)
Kept(t) == {c \in Coins : c[1] = t /\ at[c] = "wallet"}

(* The oldest n coins of the token in the account.                         *)
Oldest(t, n) ==
    {c \in Kept(t) : Cardinality({d \in Kept(t) : d[2] < c[2]}) < n}

Move(coins, place) == at' = [c \in Coins |-> IF c \in coins THEN place ELSE at[c]]

sweep(op, stage) ==
    [op |-> op, stage |-> stage, to |-> NoOne, coins |-> {}, amount |-> 0, born |-> now]

Go(i, s) == chains' = [chains EXCEPT ![i] = s]
End(i) == chains' = RemoveAt(chains, i)

-----------------------------------------------------------------------------
(* The registry's calls.  A pause does not stop them.                      *)

resolve_sweepable == parkedName \/ resolve_reclaimable

Ask(op) ==
    /\ op \in Ops
    /\ asked < scenario.sweeps
    /\ resolve_sweepable
    /\ asked' = asked + 1
    /\ UNCHANGED <<lifeVars, at, registered, pending, owed>>

(* The wallet's yocto comes out of hos-extension's own balance.            *)
reclaim_sweep_near ==
    /\ Ask("SweepNear")
    /\ chains' = Append(chains, sweep("near", "wallet"))
    /\ funds' = funds - 1

(* The caller's deposit, storage and a yocto, goes with the call.          *)
reclaim_sweep_ft ==
    /\ Ask("SweepFt")
    /\ chains' = Append(chains, sweep("ft", "payout"))
    /\ funds' = funds + Storage + 1

-----------------------------------------------------------------------------
(* hos-extension *)

Step(i, op, stage) ==
    /\ chains[i].op = op
    /\ chains[i].stage = stage
    /\ UNCHANGED <<lifeVars, asked>>

abort_and_refund(i) == End(i) /\ funds' = funds - (Storage + 1)

after_payout_for_sweep(i) ==
    /\ Step(i, "ft", "payout")
    /\ \/ /\ Exists
          /\ Go(i, [chains[i] EXCEPT !.stage = "balance", !.to = payout])
          /\ UNCHANGED funds
       \/ abort_and_refund(i)
    /\ UNCHANGED <<at, registered, pending, owed>>

after_balance_for_sweep(i) ==
    /\ Step(i, "ft", "balance")
    /\ \/ /\ Kept(Ft) # {}
          /\ Go(i, [chains[i] EXCEPT !.stage = "storage", !.amount = Cardinality(Kept(Ft))])
          /\ funds' = funds - Storage
       \/ abort_and_refund(i)
    /\ UNCHANGED <<at, registered, pending, owed>>

(* The token keeps the deposit of an account it did not know, and returns  *)
(* that of one it did or one it refuses.                                   *)
after_storage_for_sweep(i) ==
    /\ Step(i, "ft", "storage")
    /\ \/ /\ Go(i, [chains[i] EXCEPT !.stage = "wallet"])
          /\ funds' = funds - 1
          /\ registered' = registered \cup {chains[i].to}
          /\ owed' = IF chains[i].to \in registered THEN owed + Storage ELSE owed
       \/ /\ abort_and_refund(i)
          /\ owed' = owed + Storage
          /\ UNCHANGED registered
    /\ UNCHANGED <<at, pending>>

(* after_near_sweep and after_sweep_settled *)
settled(t, ok) == pending' = IF ok THEN pending \ {t} ELSE pending \cup {t}

refund_arrives ==
    /\ owed > 0
    /\ funds' = funds + owed
    /\ owed' = 0
    /\ UNCHANGED <<lifeVars, at, registered, chains, asked, pending>>

(* Variant: everything is taken.                                           *)
skim_everything ==
    /\ "Skim" \in Ops
    /\ funds > 0
    /\ funds' = 0
    /\ UNCHANGED <<lifeVars, at, registered, chains, asked, pending, owed>>

(* As much as may be.                                                      *)
skim ==
    /\ "Skim" \in Ops
    /\ funds > SkimBuffer
    /\ funds' = SkimBuffer
    /\ UNCHANGED <<lifeVars, at, registered, chains, asked, pending, owed>>

-----------------------------------------------------------------------------
(* The wallet *)

assert_sweepable == Exists /\ lease_expired

(* The call is refused, or fails for want of gas; its yocto comes back.    *)
refused(i, t) ==
    /\ End(i)
    /\ settled(t, FALSE)
    /\ owed' = owed + 1
    /\ UNCHANGED at

hos_sweep_near(i) ==
    /\ Step(i, "near", "wallet")
    /\ \/ /\ assert_sweepable
          /\ Kept(Near) # {}
          /\ Move(Kept(Near), "moving")
          /\ Go(i, [chains[i] EXCEPT !.stage = "pay", !.to = payout, !.coins = Kept(Near)])
          /\ UNCHANGED <<pending, owed>>
       \/ refused(i, Near)
    /\ UNCHANGED <<registered, funds>>

(* Variant: the account the chain asked for at its start is paid.          *)
paid_at_start(i) == chains[i].to

paid(i) == payout

(* The token is sent to the payout account of this moment, whichever the   *)
(* chain registered.                                                       *)
hos_sweep_ft(i) ==
    /\ Step(i, "ft", "wallet")
    /\ \/ /\ assert_sweepable
          /\ Go(i, [chains[i] EXCEPT !.stage = "pay", !.to = paid(i)])
          /\ UNCHANGED <<at, pending, owed>>
       \/ refused(i, Ft)
    /\ UNCHANGED <<registered, funds>>

(* A transfer of the native token arrives, or comes back to the account.   *)
near_transfer(i) ==
    /\ chains[i].stage = "pay"
    /\ chains[i].op # "ft"
    /\ \E ok \in BOOLEAN :
        /\ Move(chains[i].coins, IF ok THEN chains[i].to ELSE "wallet")
        /\ IF chains[i].op = "near" THEN settled(Near, ok) ELSE UNCHANGED pending
    /\ End(i)
    /\ UNCHANGED <<lifeVars, registered, asked, funds, owed>>

(* A transfer of the token: the account may hold less by now, or the payee *)
(* may not be registered.                                                  *)
ft_transfer(i) ==
    /\ Step(i, "ft", "pay")
    /\ IF Cardinality(Kept(Ft)) >= chains[i].amount /\ chains[i].to \in registered
       THEN Move(Oldest(Ft, chains[i].amount), chains[i].to) /\ settled(Ft, TRUE)
       ELSE UNCHANGED at /\ settled(Ft, FALSE)
    /\ End(i)
    /\ UNCHANGED <<registered, funds, owed>>

(* The native balance leaves with the party giving the name up.            *)
sweep_to ==
    IF Kept(Near) # {}
    THEN /\ Move(Kept(Near), "moving")
         /\ chains' = Append(chains, [sweep("rotation", "pay") EXCEPT
                                        !.to = payout, !.coins = Kept(Near)])
    ELSE UNCHANGED <<at, chains>>

-----------------------------------------------------------------------------
(* Money comes and goes, and the name lives on *)

InOrder(c) == \A d \in Coins : d[1] = c[1] /\ d[2] < c[2] => at[d] # "world"

coin_arrives(c) ==
    /\ Exists
    /\ c[1] \in scenario.money
    /\ at[c] = "world"
    /\ InOrder(c)
    /\ Move({c}, "wallet")
    /\ UNCHANGED <<lifeVars, registered, chains, asked, pending, funds, owed>>

(* The tenant sends a token somewhere: w_execute_extension.                *)
tenant_spends ==
    /\ assert_renter_active
    /\ Kept(Ft) # {}
    /\ Move(Oldest(Ft, 1), "spent")
    /\ UNCHANGED <<lifeVars, registered, chains, asked, pending, funds, owed>>

(* The cause a leg has just rotated the wallet for.                        *)
cause(l) ==
    CASE l.op = "Park" -> "Reclaim"
      [] l.op = "Recover" -> "Recovery"
      [] l.op = "Return" -> "Revert"
      [] l.op = "ReRent" -> "ReRent"
      [] OTHER -> rotation_for_receiver(l.to)

(* Variant: only a reclaim sweeps.                                         *)
rotation_sweeps_at_park == rotationSeq' # rotationSeq /\ opState' = "Parked"

(* A rotation onto the payout account moves nothing: the money is already  *)
(* the new holder's.                                                       *)
rotation_sweeps ==
    /\ rotationSeq' # rotationSeq
    /\ LET l == Last(flight') IN sweeps(cause(l)) /\ l.to # payout

NameMoves ==
    /\ LifeNext
    /\ now' > now => \A i \in DOMAIN chains : now < chains[i].born + MaxLag
    /\ IF rotation_sweeps THEN sweep_to ELSE UNCHANGED <<at, chains>>
    /\ UNCHANGED <<registered, asked, pending, funds, owed>>

SweepInit ==
    /\ LifeInit
    /\ at = [c \in Coins |-> "world"]
    /\ registered = {}
    /\ chains = <<>>
    /\ asked = 0
    /\ pending = {}
    /\ funds = SkimBuffer
    /\ owed = 0

SweepStep(i) ==
    \/ after_payout_for_sweep(i)
    \/ after_balance_for_sweep(i)
    \/ after_storage_for_sweep(i)
    \/ hos_sweep_near(i)
    \/ hos_sweep_ft(i)
    \/ near_transfer(i)
    \/ ft_transfer(i)

SweepNext ==
    \/ NameMoves
    \/ reclaim_sweep_near
    \/ reclaim_sweep_ft
    \/ \E i \in DOMAIN chains : SweepStep(i)
    \/ refund_arrives
    \/ skim
    \/ \E c \in Coins : coin_arrives(c)
    \/ tenant_spends

SweepSpec == SweepInit /\ [][SweepNext]_sweepVars

=============================================================================
