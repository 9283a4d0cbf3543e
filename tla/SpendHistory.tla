-------------------------- MODULE SpendHistory --------------------------
(***************************************************************************)
(* What each extension really drew under the wallet's spending grants: the *)
(* amount since its grant last ceased to exist, the highest budget it was  *)
(* given since then, and who gave it.  The history only observes.          *)
(***************************************************************************)
EXTENDS TenantWallet

CONSTANT Metered        \* the assets whose withdrawals are followed

ASSUME MeteredAssumption == Metered \subseteq Tokens \cup {Near}

VARIABLES
    drawn,              \* extension -> asset -> drawn under the current grants
    ceiling,            \* extension -> asset -> highest budget under them
    grantor             \* extension -> the owner who wrote the current grant

historyVars == <<drawn, ceiling, grantor>>

HistoryInit ==
    /\ drawn = [e \in Accounts |-> [t \in Metered |-> 0]]
    /\ ceiling = [e \in Accounts |-> [t \in Metered |-> 0]]
    /\ grantor = [e \in Accounts |-> NoOne]

Granted(e) == e \in DOMAIN grants

(* How far the meter of e for t moved up in this step. *)
Charged(e, t) ==
    IF /\ Granted(e) /\ Granted(e)'
       /\ t \in DOMAIN grants[e].spent \cap DOMAIN grants'[e].spent
       /\ grants'[e].spent[t] > grants[e].spent[t]
    THEN grants'[e].spent[t] - grants[e].spent[t]
    ELSE 0

Highest(e, t) ==
    IF t \in DOMAIN grants'[e].budget /\ grants'[e].budget[t] > ceiling[e][t]
    THEN grants'[e].budget[t]
    ELSE ceiling[e][t]

Rewritten(e) ==
    Granted(e)' /\ (~Granted(e) \/ grants'[e].budget # grants[e].budget
                                \/ grants'[e].expires # grants[e].expires)

Observe ==
    /\ drawn' = [e \in Accounts |-> [t \in Metered |->
            IF Granted(e)' THEN drawn[e][t] + Charged(e, t) ELSE 0]]
    /\ ceiling' = [e \in Accounts |-> [t \in Metered |->
            IF Granted(e)' THEN Highest(e, t) ELSE 0]]
    /\ grantor' = [e \in Accounts |->
            CASE ~Granted(e)' -> NoOne
              [] Rewritten(e) -> owner
              [] OTHER -> grantor[e]]

HInit == WalletInit /\ HistoryInit
HNext == Next /\ Observe
HSpec == HInit /\ [][HNext]_<<vars, historyVars>>

-----------------------------------------------------------------------------

(* hos-wallet hos_grant_spend, "Re-granting raises ceilings without        *)
(* clearing what was already spent.  Revoking is the way to reset the      *)
(* meter": between two revocations an extension never draws more of an     *)
(* asset than the highest budget it was given for it.                      *)
MeterHolds == \A e \in Accounts, t \in Metered : drawn[e][t] <= ceiling[e][t]

(* hos-wallet apply_rotation: every budget in force was written by the     *)
(* present owner.  A sale, a deposit, a recovery, a park and its revert    *)
(* all end the previous owner's grants, so what an agent draws was always  *)
(* allowed by whoever holds the name.                                      *)
GrantorStillOwns == \A e \in Accounts : Granted(e) => grantor[e] = owner

=============================================================================
