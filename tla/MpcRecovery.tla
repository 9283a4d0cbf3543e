--------------------------- MODULE MpcRecovery ---------------------------
(***************************************************************************)
(* Recovery of one leased name: its policy and its recovery's phase in     *)
(* contracts/mpc-recovery, the registry's answer to a name recovery        *)
(* (contracts/tla-registry marketplace.rs), and the reset that             *)
(* contracts/hos-extension sends after every rotation of the name.         *)
(*                                                                         *)
(* Keys are data: a request carries a valid attestation of the policy's    *)
(* key over the current round, and a policy is its timelock.  A watcher's  *)
(* signature is kept for ever once made and may be submitted at any time.  *)
(* The counters gen, requests and dispatched identify, for the properties, *)
(* a holder, a request and a call of the registry; no contract reads them. *)
(***************************************************************************)
EXTENDS Clock, FiniteSets, Sequences

CONSTANTS
    NewOwners,      \* the owners a recovery may name
    Nobody,         \* no pending owner
    Watchers,       \* every watcher there may be
    MinThreshold,   \* MIN_WATCHER_THRESHOLD
    Timelocks,      \* the timelocks a policy may have
    AbortCooldown,  \* ABORT_COOLDOWN_NS
    HolderCooldown, \* HOLDER_ABORT_COOLDOWN_NS
    Scenarios,      \* bound: what a run exercises, one scenario in each behaviour
    MaxDispatched,  \* bound: calls of the registry
    MaxResets       \* bound: resets under way when one is retried

ASSUME RecoveryAssumption ==
    /\ Nobody \notin NewOwners
    /\ MinThreshold \in Nat
    /\ Timelocks \subseteq Nat \ {0}
    /\ AbortCooldown \in Nat /\ HolderCooldown \in Nat /\ AbortCooldown < HolderCooldown
    /\ {MaxDispatched, MaxResets} \subseteq Nat
    /\ \A s \in Scenarios :
        /\ s.watchers \subseteq Watchers /\ MinThreshold <= Cardinality(s.watchers)
        /\ s.timelocks \subseteq Timelocks
        /\ {s.gens, s.rounds} \subseteq Nat
        /\ s.fails \in BOOLEAN

VARIABLES
    policy,         \* accounts[account].policy: its timelock, or NoPolicy
    round,          \* accounts[account].round
    phase,          \* accounts[account].phase
    roundFloor,     \* round_floor[account]
    armed,          \* armed[account]: the timelock consented to, or NoPolicy
    watchers, threshold,
    ballots,        \* the watchers' signatures
    signing,        \* the rounds of the MPC signatures asked for
    calls,          \* the calls of the registry's recover_sub_account
    resets,         \* how many on_wallet_transferred calls are on their way
    answers,        \* their answers on the way back, oldest first
    resetPending,   \* hos-extension: recovery_reset_pending
    gen,            \* how often the name has changed hands
    requests,       \* how many requests were opened
    dispatched,     \* how many calls of the registry were made
    scenario        \* never changes

policyVars == <<policy, round, phase, roundFloor, armed>>
quorumVars == <<watchers, threshold, ballots>>
nameVars == <<gen, calls, dispatched>>
resetVars == <<resets, answers, resetPending>>
recoveryVars == <<now, policy, round, phase, roundFloor, armed, watchers, threshold, ballots,
                  signing, calls, resets, answers, resetPending, gen, requests,
                  dispatched, scenario>>

NoPolicy == 0
PhaseKind == {"Idle", "Requested", "Approved", "Resolving", "NameRequested", "NameResolving",
              "Cooldown"}
Phase == [kind : PhaseKind, owner : NewOwners \cup {Nobody}, round : Nat, at : Nat]
Idle == [kind |-> "Idle", owner |-> Nobody, round |-> 0, at |-> 0]

settled == phase.kind \in {"Idle", "Cooldown"}
ResetsUnderWay == resets + Len(answers)
accepts_request == phase.kind = "Idle" \/ (phase.kind = "Cooldown" /\ now >= phase.at)

-----------------------------------------------------------------------------
(* Policies *)

arm_policy_install(timelock) ==
    /\ armed' = timelock
    /\ UNCHANGED <<now, policy, round, phase, roundFloor, quorumVars, signing, nameVars,
                   resetVars, requests>>

disarm_policy_install ==
    /\ armed # NoPolicy
    /\ armed' = NoPolicy
    /\ UNCHANGED <<now, policy, round, phase, roundFloor, quorumVars, signing, nameVars,
                   resetVars, requests>>

(* Variant: a new policy starts from round zero.                           *)
install_policy_from_zero(by_owner, timelock) ==
    /\ IF policy = NoPolicy
       THEN armed = timelock /\ armed' = NoPolicy /\ round' = 0 /\ phase' = Idle
       ELSE settled /\ by_owner /\ UNCHANGED <<armed, round, phase>>
    /\ policy' = timelock
    /\ UNCHANGED <<now, roundFloor, quorumVars, signing, nameVars, resetVars, requests>>

(* Variant: a policy is replaced under a recovery.                         *)
install_policy_unsettled(by_owner, timelock) ==
    /\ IF policy = NoPolicy
       THEN armed = timelock /\ armed' = NoPolicy /\ round' = roundFloor /\ phase' = Idle
       ELSE by_owner /\ UNCHANGED <<armed, round, phase>>
    /\ policy' = timelock
    /\ UNCHANGED <<now, roundFloor, quorumVars, signing, nameVars, resetVars, requests>>

(* Variant: a replaced policy ends the cooldown.                           *)
install_policy_fresh(by_owner, timelock) ==
    /\ IF policy = NoPolicy
       THEN armed = timelock /\ armed' = NoPolicy /\ round' = roundFloor
       ELSE settled /\ by_owner /\ UNCHANGED <<armed, round>>
    /\ phase' = Idle
    /\ policy' = timelock
    /\ UNCHANGED <<now, roundFloor, quorumVars, signing, nameVars, resetVars, requests>>

(* A first policy consumes the account's consent; only the contract's      *)
(* owner replaces one, keeping its round and its phase.                    *)
install_policy(by_owner, timelock) ==
    /\ IF policy = NoPolicy
       THEN /\ armed = timelock
            /\ armed' = NoPolicy
            /\ round' = roundFloor
            /\ phase' = Idle
       ELSE /\ settled
            /\ by_owner
            /\ UNCHANGED <<armed, round, phase>>
    /\ policy' = timelock
    /\ UNCHANGED <<now, roundFloor, quorumVars, signing, nameVars, resetVars, requests>>

set_watchers(ws, th) ==
    /\ th >= MinThreshold
    /\ th <= Cardinality(ws)
    /\ watchers' = ws
    /\ threshold' = th
    /\ UNCHANGED <<now, policyVars, ballots, signing, nameVars, resetVars, requests>>

-----------------------------------------------------------------------------
(* Requests and verdicts *)

(* A request that a policy's attestation opens.                            *)
opens_request(kind, to) ==
    /\ policy # NoPolicy
    /\ accepts_request
    /\ round < scenario.rounds
    /\ phase' = [kind |-> kind, owner |-> to, round |-> round, at |-> now]
    /\ round' = round + 1
    /\ requests' = requests + 1
    /\ UNCHANGED <<now, policy, roundFloor, armed, quorumVars, signing, nameVars, resetVars>>

request_recovery(to) == opens_request("Requested", to)

request_name_recovery(to) == opens_request("NameRequested", to)

(* A watcher signs a verdict on the request it sees pending.               *)
watcher_signs(w, verdict) ==
    /\ policy # NoPolicy
    /\ phase.kind \in {"Requested", "NameRequested"}
    /\ phase.kind = "NameRequested" => verdict = "Approve"
    /\ ballots' = ballots \cup {[by |-> w, kind |-> phase.kind, owner |-> phase.owner,
                                 round |-> phase.round, verdict |-> verdict, req |-> requests]}
    /\ UNCHANGED <<now, policyVars, watchers, threshold, signing, nameVars, resetVars, requests>>

(* Enough of the present watchers signed the verdict on the phase's owner  *)
(* and round.                                                              *)
verify_quorum(verdict) ==
    LET counted == {w \in watchers : \E b \in ballots :
                        /\ b.by = w
                        /\ b.kind = phase.kind
                        /\ b.owner = phase.owner
                        /\ b.round = phase.round
                        /\ b.verdict = verdict}
    IN  Cardinality(counted) >= threshold

timelock_over == now >= phase.at + policy

submit_verdict(verdict) ==
    /\ policy # NoPolicy
    /\ phase.kind = "Requested"
    /\ timelock_over
    /\ verify_quorum(verdict)
    /\ phase' = IF verdict = "Approve" THEN [phase EXCEPT !.kind = "Approved"] ELSE Idle
    /\ UNCHANGED <<now, policy, round, roundFloor, armed, quorumVars, signing, nameVars,
                   resetVars, requests>>

abort_recovery(by_holder) ==
    /\ policy # NoPolicy
    /\ phase.kind \in {"Requested", "Approved", "NameRequested"}
    /\ phase' = [Idle EXCEPT !.kind = "Cooldown",
                             !.at = now + (IF by_holder THEN HolderCooldown ELSE AbortCooldown)]
    /\ UNCHANGED <<now, policy, round, roundFloor, armed, quorumVars, signing, nameVars,
                   resetVars, requests>>

-----------------------------------------------------------------------------
(* A native recovery: the MPC network signs an AddKey transaction *)

finalize_recovery ==
    /\ policy # NoPolicy
    /\ phase.kind = "Approved"
    /\ phase' = [phase EXCEPT !.kind = "Resolving"]
    /\ signing' = signing \cup {[round |-> phase.round, req |-> requests]}
    /\ UNCHANGED <<now, policy, round, roundFloor, armed, quorumVars, nameVars, resetVars,
                   requests>>

(* on_signed: settle_resolving with done = false, signed or not.           *)
on_signed(s) ==
    /\ signing' = signing \ {s}
    /\ phase' = IF policy # NoPolicy /\ phase.kind = "Resolving" /\ phase.round = s.round
                THEN [phase EXCEPT !.kind = "Approved"]
                ELSE phase
    /\ UNCHANGED <<now, policy, round, roundFloor, armed, quorumVars, nameVars, resetVars,
                   requests>>

claim_native_finalized ==
    /\ policy # NoPolicy
    /\ phase.kind = "Approved"
    /\ phase' = Idle
    /\ UNCHANGED <<now, policy, round, roundFloor, armed, quorumVars, signing, nameVars,
                   resetVars, requests>>

-----------------------------------------------------------------------------
(* The recovery of a name through the registry *)

recover_name ==
    /\ policy # NoPolicy
    /\ phase.kind = "NameRequested"
    /\ timelock_over
    /\ verify_quorum("Approve")
    /\ dispatched < MaxDispatched
    /\ phase' = [phase EXCEPT !.kind = "NameResolving"]
    /\ dispatched' = dispatched + 1
    /\ calls' = calls \cup {[id |-> dispatched, round |-> phase.round, req |-> requests,
                             at |-> "registry", rotated |-> FALSE, answer |-> "none"]}
    /\ UNCHANGED <<now, policy, round, roundFloor, armed, quorumVars, signing, gen, resetVars,
                   requests>>

(* The wallet's owner changes: hos-extension's after_force_swap and        *)
(* after_re_rent send the reset in the same breath.                        *)
rotate_and_reset ==
    /\ gen < scenario.gens
    /\ gen' = gen + 1
    /\ resets' = resets + 1
    /\ UNCHANGED <<answers, resetPending>>

(* recover_sub_account and on_sub_account_recovered: the registry refuses  *)
(* (an Err), the wallet's rotation fails (the callback returns unit, hence *)
(* Ok), the name is rotated, or it is and the callback breaks.             *)
recover_sub_account(c) ==
    /\ c.at = "registry"
    /\ \E rotated \in BOOLEAN, answer \in {"Ok", "Err"} :
        /\ calls' = (calls \ {c}) \cup
                        {[c EXCEPT !.at = "back", !.rotated = rotated, !.answer = answer]}
        /\ IF rotated THEN rotate_and_reset ELSE UNCHANGED <<gen, resetVars>>
    /\ UNCHANGED <<now, policyVars, quorumVars, signing, requests, dispatched>>

(* Variant: the round of the answer is not compared.                       *)
settle_name_resolving_any(r, done) ==
    phase' = IF policy # NoPolicy /\ phase.kind = "NameResolving"
             THEN IF done THEN Idle ELSE [phase EXCEPT !.kind = "NameRequested"]
             ELSE phase

settle_name_resolving(r, done) ==
    phase' = IF policy # NoPolicy /\ phase.kind = "NameResolving" /\ phase.round = r
             THEN IF done THEN Idle ELSE [phase EXCEPT !.kind = "NameRequested"]
             ELSE phase

on_name_recovered(c) ==
    /\ c.at = "back"
    /\ calls' = calls \ {c}
    /\ settle_name_resolving(c.round, c.answer = "Ok")
    /\ UNCHANGED <<now, policy, round, roundFloor, armed, quorumVars, signing, gen, dispatched,
                   resetVars, requests>>

claim_name_finalized(done) ==
    /\ policy # NoPolicy
    /\ phase.kind = "NameResolving"
    /\ settle_name_resolving(phase.round, done)
    /\ UNCHANGED <<now, policy, round, roundFloor, armed, quorumVars, signing, nameVars,
                   resetVars, requests>>

-----------------------------------------------------------------------------
(* Resets: hos-extension after a rotation, and mpc-recovery's answer *)

(* A sale, a transfer, a reclaim or a re-rental of the name.               *)
name_rotated ==
    /\ rotate_and_reset
    /\ UNCHANGED <<now, policyVars, quorumVars, signing, calls, dispatched, requests>>

(* The reset is done, or deferred while a signature is being made, or its  *)
(* receipt fails.                                                          *)
on_wallet_transferred ==
    /\ resets > 0
    /\ resets' = resets - 1
    /\ \/ /\ policy # NoPolicy /\ phase.kind = "Resolving"
          /\ answers' = Append(answers, "deferred")
          /\ UNCHANGED policyVars
       \/ /\ ~(policy # NoPolicy /\ phase.kind = "Resolving")
          /\ answers' = Append(answers, "done")
          /\ roundFloor' = IF policy # NoPolicy THEN round ELSE roundFloor
          /\ policy' = NoPolicy
          /\ round' = 0
          /\ phase' = Idle
          /\ UNCHANGED armed
       \/ /\ scenario.fails
          /\ answers' = Append(answers, "failed")
          /\ UNCHANGED policyVars
    /\ UNCHANGED <<now, quorumVars, signing, nameVars, resetPending, requests>>

(* Variant: every Ok is taken for a reset that is done.                    *)
after_recovery_reset_ok ==
    /\ answers # <<>>
    /\ answers' = Tail(answers)
    /\ resetPending' = (Head(answers) = "failed")
    /\ UNCHANGED <<now, policyVars, quorumVars, signing, nameVars, resets, requests>>

(* Both ways between hos-extension and mpc-recovery, receipts keep their   *)
(* order.                                                                  *)
after_recovery_reset ==
    /\ answers # <<>>
    /\ answers' = Tail(answers)
    /\ resetPending' = (Head(answers) # "done")
    /\ UNCHANGED <<now, policyVars, quorumVars, signing, nameVars, resets, requests>>

retry_recovery_reset ==
    /\ resetPending
    /\ ResetsUnderWay < MaxResets
    /\ resets' = resets + 1
    /\ UNCHANGED <<now, policyVars, quorumVars, signing, nameVars, answers, resetPending,
                   requests>>

-----------------------------------------------------------------------------

(* A reset and its answer are two receipts; the shortest timelock is a     *)
(* minute (MIN_TIMELOCK_SECS), so they never span an instant of this       *)
(* clock.  The signer's and the registry's answers may.                    *)
Tick ==
    /\ ResetsUnderWay = 0
    /\ advance
    /\ UNCHANGED <<policyVars, quorumVars, signing, nameVars, resetVars, requests>>

RecoveryInit ==
    /\ now = Genesis
    /\ policy = NoPolicy
    /\ round = 0
    /\ phase = Idle
    /\ roundFloor = 0
    /\ armed = NoPolicy
    /\ scenario \in Scenarios
    /\ watchers = scenario.watchers
    /\ threshold = MinThreshold
    /\ ballots = {}
    /\ signing = {}
    /\ calls = {}
    /\ resets = 0
    /\ answers = <<>>
    /\ resetPending = FALSE
    /\ gen = 0
    /\ requests = 0
    /\ dispatched = 0

PolicyCall ==
    \/ \E t \in scenario.timelocks :
        \/ arm_policy_install(t)
        \/ \E by_owner \in BOOLEAN : install_policy(by_owner, t)
    \/ disarm_policy_install
    \/ \E ws \in SUBSET scenario.watchers : \E th \in 0..Cardinality(ws) + 1 : set_watchers(ws, th)

RequestCall ==
    \/ \E to \in NewOwners : request_recovery(to) \/ request_name_recovery(to)
    \/ \E verdict \in {"Approve", "Cancel"} :
        \/ \E w \in scenario.watchers : watcher_signs(w, verdict)
        \/ submit_verdict(verdict)
    \/ \E by_holder \in BOOLEAN : abort_recovery(by_holder)
    \/ finalize_recovery
    \/ claim_native_finalized
    \/ recover_name
    \/ \E done \in BOOLEAN : claim_name_finalized(done)

Answer ==
    \/ \E s \in signing : on_signed(s)
    \/ \E c \in calls : recover_sub_account(c) \/ on_name_recovered(c)
    \/ on_wallet_transferred
    \/ after_recovery_reset

RecoveryNext ==
    /\ \/ PolicyCall
       \/ RequestCall
       \/ Answer
       \/ name_rotated
       \/ retry_recovery_reset
       \/ Tick
    /\ UNCHANGED scenario

RecoverySpec == RecoveryInit /\ [][RecoveryNext]_recoveryVars

=============================================================================
