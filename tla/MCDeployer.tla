----------------------------- MODULE MCDeployer -----------------------------
(***************************************************************************)
(* Small instances of DeployerHistory and of ImplPin, for TLC.  They    *)
(* share only the time, so each behaviour moves one of them: the part.     *)
(***************************************************************************)
EXTENDS DeployerHistory, ImplPin, TLC

VARIABLE part

RestOfDeployer == UNCHANGED <<implVars, upgradeVars, councilVars, networkVars, shipped, ordered>>
RestOfPin == UNCHANGED <<pinVars, recordedAt, waited>>

MCInit == HistoryInit /\ PinHistoryInit /\ part \in {"deployer", "wallet"}

MCNext ==
    /\ UNCHANGED part
    /\ \/ part = "deployer" /\ HistoryNext /\ RestOfPin
       \/ part = "wallet" /\ PinHistoryNext /\ RestOfDeployer

MCSpec == MCInit /\ [][MCNext]_<<historyVars, pinHistoryVars, part>>

Symmetry == Permutations(Hashes) \cup Permutations(Impls)
=============================================================================
