---------------------------- MODULE MCRecovery ----------------------------
(* Small instances of RecoveryHistory: the scenarios of its run. *)
EXTENDS RecoveryHistory, TLC

CONSTANTS w1, w2, w3

(* The watchers of every scenario.                                         *)
Symmetry == Permutations({w1, w2})

(* The name changes hands twice; resets fail, are deferred and retried.    *)
Resets == [watchers |-> {w1, w2}, timelocks |-> {1}, gens |-> 2, rounds |-> 1, fails |-> TRUE]

(* The name changes hands between two rounds, beside recoveries.           *)
Rotations == [Resets EXCEPT !.gens = 1, !.rounds = 2, !.fails = FALSE]

(* Policies replaced by longer and shorter ones between two rounds.        *)
Replacements == [Rotations EXCEPT !.timelocks = {1, 2}, !.gens = 0]

(* A watcher set that changes while signatures are collected.              *)
Quorums == [Rotations EXCEPT !.watchers = {w1, w2, w3}, !.rounds = 1]

RecoveryScenarios == {Resets, Rotations, Replacements, Quorums}

=============================================================================
