------------------------- MODULE RecoveryHistory -------------------------
(***************************************************************************)
(* A name's recoveries observed: the rounds used, the holder the policy    *)
(* was installed under, and the holder's last abort.                       *)
(***************************************************************************)
EXTENDS MpcRecovery

VARIABLES
    usedRounds,     \* the rounds requests were opened with
    policyGen,      \* gen when the policy was installed
    brakeAt         \* when the holder last aborted under this policy, or -1

historyVars == <<recoveryVars, usedRounds, policyGen, brakeAt>>

Opened == requests' # requests

Observe ==
    /\ usedRounds' = IF Opened THEN usedRounds \cup {phase'.round} ELSE usedRounds
    /\ policyGen' = IF policy = NoPolicy \/ policy' = NoPolicy THEN gen' ELSE policyGen
    /\ brakeAt' = IF policy' = NoPolicy THEN -1
                  ELSE IF phase' # phase /\ phase'.kind = "Cooldown"
                          /\ phase'.at = now + HolderCooldown
                       THEN now ELSE brakeAt

HistoryInit == RecoveryInit /\ usedRounds = {} /\ policyGen = 0 /\ brakeAt = -1
HistoryNext == RecoveryNext /\ Observe
HistorySpec == HistoryInit /\ [][HistoryNext]_historyVars

-----------------------------------------------------------------------------

(* Every field of the recovery contract stays in its type.                 *)
RecoveryTypeOK ==
    /\ policy \in Timelocks \cup {NoPolicy}
    /\ armed \in Timelocks \cup {NoPolicy}
    /\ {round, roundFloor} \subseteq 0..scenario.rounds
    /\ phase \in Phase
    /\ watchers \subseteq Watchers
    /\ threshold \in MinThreshold..Cardinality(watchers)
    /\ resets \in Nat
    /\ answers \in Seq({"done", "deferred", "failed"})
    /\ resetPending \in BOOLEAN

(* README: "The round increments on every request, so a replayed request   *)
(* is stale".  A request never opens with a round that was used before,    *)
(* neither under this policy nor under one that a rotation removed: what   *)
(* was attested or signed for an earlier request serves no later one.      *)
RoundsFresh == [][Opened => phase'.round \notin usedRounds]_historyVars

(* README: "a quorum gathered for one round cannot settle another", and    *)
(* mpc-recovery: "no single watcher can carry a recovery on its own".  An  *)
(* approved recovery, native or of a name, was signed by at least the      *)
(* least threshold of watchers, each having seen this very request, and    *)
(* has waited for the timelock of the policy now in force.                 *)
ApprovalEarned ==
    phase.kind \in {"Approved", "Resolving", "NameResolving"} =>
        LET saw == {w \in Watchers : \E b \in ballots :
                        b.by = w /\ b.req = requests /\ b.verdict = "Approve"}
        IN  /\ Cardinality(saw) >= MinThreshold
            /\ timelock_over

(* on_signed, on_name_recovered and their rounds: an answer of the signer  *)
(* or of the registry moves the phase only of the request it was asked     *)
(* for, whatever was aborted, reset, reinstalled or claimed meanwhile.     *)
AnswersOwnRequest ==
    [][/\ \A s \in signing : on_signed(s) /\ phase' # phase => s.req = requests
       /\ \A c \in calls : on_name_recovered(c) /\ phase' # phase => c.req = requests
      ]_historyVars

(* on_wallet_transferred, after_recovery_reset and retry_recovery_reset:   *)
(* unless a reset is under way or noted as pending, the policy in force    *)
(* was installed under the present holder, whichever resets failed or were *)
(* deferred and however retries and rotations overlap.  hos-extension's    *)
(* tests.rs: "treating any Ok as done would drop the one case where the    *)
(* previous owner keeps their recovery policy".                            *)
NoStalePolicy ==
    /\ policy # NoPolicy
    /\ policyGen # gen
    => \/ resets > 0
       \/ answers # <<>> /\ answers[Len(answers)] # "done"
       \/ resetPending

(* abort_recovery by the holder: "the brake".  No request opens within the *)
(* holder's cooldown, even if the contract's owner replaces the policy.    *)
BrakeHolds ==
    [][Opened /\ brakeAt # -1 => now >= brakeAt + HolderCooldown]_historyVars

-----------------------------------------------------------------------------
(* A statement of the README that the code does not keep *)

(* README: "the registry call is followed by a callback that restores the  *)
(* request if the rotation fails rather than consuming it".                *)
FailureRestores ==
    [][\A c \in calls :
            /\ on_name_recovered(c)
            /\ ~c.rotated
            /\ phase.kind = "NameResolving" /\ phase.round = c.round /\ c.req = requests
            => phase'.kind = "NameRequested"]_historyVars

=============================================================================
