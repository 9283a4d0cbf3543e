---------------------------- MODULE OpenBatches ----------------------------
(***************************************************************************)
(* Opening top level accounts: contracts/registrar-opener.  The operator   *)
(* collects names in a batch, the admin approves the batch by the digest   *)
(* of its names, and the operator opens them; a name that could not be     *)
(* opened goes back to its batch, if the batch is still there.             *)
(*                                                                         *)
(* Calls take one name: a call of several does the same for each in one    *)
(* receipt.  A batch's digest determines its names and their setup, so an  *)
(* approval names the batch as it is.  LookupSets outlive a removed batch. *)
(***************************************************************************)
EXTENDS Integers, FiniteSets

CONSTANTS
    Names,          \* names that may be opened
    People,         \* accounts that may be the admin or the operator
    Nobody,         \* pending_admin = None
    FirstAdmin, FirstOperator,
    MaxLive,        \* MAX_LIVE_BATCHES
    MaxBatches,     \* bound: the batches ever created
    MaxOpening      \* bound: names being opened at once

ASSUME OpenerAssumption ==
    /\ {FirstAdmin, FirstOperator} \subseteq People
    /\ FirstAdmin # FirstOperator
    /\ Nobody \notin People
    /\ IsFiniteSet(Names)
    /\ {MaxLive, MaxBatches, MaxOpening} \subseteq Nat

VARIABLES
    admin, nominee, operator,
    nextId,         \* next_batch_id
    live,           \* the keys of batches
    approved,       \* the batches approved
    names,          \* each batch id's LookupSet, kept when the batch is removed
    remaining,      \* each batch's remaining
    opening,        \* the names being opened, with their batches
    accounts        \* the accounts that exist on the network

roleVars == <<admin, nominee, operator>>
batchVars == <<nextId, live, approved, names, remaining>>
openerVars == <<admin, nominee, operator, nextId, live, approved, names, remaining,
                opening, accounts>>

Ids == 0..(MaxBatches - 1)
NoBatch == MaxBatches       \* create_account opens a name outside any batch

-----------------------------------------------------------------------------
(* Roles *)

change_operator(caller, new) ==
    /\ caller = admin
    /\ new # admin
    /\ new # nominee
    /\ operator' = new
    /\ UNCHANGED <<admin, nominee, batchVars, opening, accounts>>

change_admin(caller, new) ==
    /\ caller = admin
    /\ new # operator
    /\ nominee' = new
    /\ UNCHANGED <<admin, operator, batchVars, opening, accounts>>

accept_admin(caller) ==
    /\ caller = nominee
    /\ nominee # operator
    /\ admin' = nominee
    /\ nominee' = Nobody
    /\ UNCHANGED <<operator, batchVars, opening, accounts>>

cancel_nomination(caller) ==
    /\ caller = admin
    /\ nominee # Nobody
    /\ nominee' = Nobody
    /\ UNCHANGED <<admin, operator, batchVars, opening, accounts>>

-----------------------------------------------------------------------------
(* Batches *)

create_batch(caller) ==
    /\ caller = operator
    /\ Cardinality(live) < MaxLive
    /\ nextId < MaxBatches
    /\ nextId' = nextId + 1
    /\ live' = live \cup {nextId}
    /\ remaining' = [remaining EXCEPT ![nextId] = 0]
    /\ UNCHANGED <<roleVars, approved, names, opening, accounts>>

(* Variant: an approved batch takes more names.                            *)
add_names_later(caller, b, n) ==
    /\ caller = operator
    /\ b \in live
    /\ n \notin names[b]
    /\ names' = [names EXCEPT ![b] = @ \cup {n}]
    /\ remaining' = [remaining EXCEPT ![b] = @ + 1]
    /\ UNCHANGED <<roleVars, nextId, live, approved, opening, accounts>>

add_names(caller, b, n) ==
    /\ caller = operator
    /\ b \in live
    /\ b \notin approved
    /\ n \notin names[b]
    /\ names' = [names EXCEPT ![b] = @ \cup {n}]
    /\ remaining' = [remaining EXCEPT ![b] = @ + 1]
    /\ UNCHANGED <<roleVars, nextId, live, approved, opening, accounts>>

approve_batch(caller, b) ==
    /\ caller = admin
    /\ b \in live
    /\ b \notin approved
    /\ remaining[b] > 0
    /\ approved' = approved \cup {b}
    /\ UNCHANGED <<roleVars, nextId, live, names, remaining, opening, accounts>>

discard_batch(caller, b) ==
    /\ caller \in {admin, operator}
    /\ b \in live
    /\ caller = admin \/ remaining[b] = 0 \/ b \notin approved
    /\ live' = live \ {b}
    /\ approved' = approved \ {b}
    /\ UNCHANGED <<roleVars, nextId, names, remaining, opening, accounts>>

(* Variant: a live batch may lose names.                                   *)
forget_names_live(caller, b, n) ==
    /\ caller \in {admin, operator}
    /\ b < nextId
    /\ names' = [names EXCEPT ![b] = @ \ {n}]
    /\ UNCHANGED <<roleVars, nextId, live, approved, remaining, opening, accounts>>

forget_names(caller, b, n) ==
    /\ caller \in {admin, operator}
    /\ b < nextId
    /\ b \notin live
    /\ names' = [names EXCEPT ![b] = @ \ {n}]
    /\ UNCHANGED <<roleVars, nextId, live, approved, remaining, opening, accounts>>

open_names(caller, b, n) ==
    /\ caller = operator
    /\ b \in live
    /\ b \in approved
    /\ n \in names[b]
    /\ Cardinality(opening) < MaxOpening
    /\ names' = [names EXCEPT ![b] = @ \ {n}]
    /\ remaining' = [remaining EXCEPT ![b] = @ - 1]
    /\ opening' = opening \cup {[batch |-> b, name |-> n, stage |-> "sent"]}
    /\ UNCHANGED <<roleVars, nextId, live, approved, accounts>>

(* Bound: one such opening of a name at a time.                            *)
create_account(caller, n) ==
    /\ caller = admin
    /\ [batch |-> NoBatch, name |-> n] \notin {[batch |-> o.batch, name |-> o.name] : o \in opening}
    /\ Cardinality(opening) < MaxOpening
    /\ opening' = opening \cup {[batch |-> NoBatch, name |-> n, stage |-> "sent"]}
    /\ UNCHANGED <<roleVars, batchVars, accounts>>

-----------------------------------------------------------------------------
(* The network and the callbacks *)

(* open_account's receipt: an account that exists cannot be created, and   *)
(* the setup call may fail for other reasons.                              *)
open_account(o, done) ==
    /\ o \in opening
    /\ o.stage = "sent"
    /\ done => o.name \notin accounts
    /\ accounts' = IF done THEN accounts \cup {o.name} ELSE accounts
    /\ opening' = (opening \ {o}) \cup {[o EXCEPT !.stage = IF done THEN "done" ELSE "failed"]}
    /\ UNCHANGED <<roleVars, batchVars>>

(* on_name_opened, and on_account_created, which only reports.             *)
on_name_opened(o) ==
    /\ o \in opening
    /\ o.stage # "sent"
    /\ opening' = opening \ {o}
    /\ IF o.stage = "failed" /\ o.batch \in live /\ o.name \notin names[o.batch]
       THEN /\ names' = [names EXCEPT ![o.batch] = @ \cup {o.name}]
            /\ remaining' = [remaining EXCEPT ![o.batch] = @ + 1]
       ELSE UNCHANGED <<names, remaining>>
    /\ UNCHANGED <<roleVars, nextId, live, approved, accounts>>

-----------------------------------------------------------------------------

OpenerInit ==
    /\ admin = FirstAdmin
    /\ nominee = Nobody
    /\ operator = FirstOperator
    /\ nextId = 0
    /\ live = {}
    /\ approved = {}
    /\ names = [b \in Ids |-> {}]
    /\ remaining = [b \in Ids |-> 0]
    /\ opening = {}
    /\ accounts = {}

RoleCall ==
    \E caller \in People :
        \/ \E new \in People : change_operator(caller, new) \/ change_admin(caller, new)
        \/ accept_admin(caller)
        \/ cancel_nomination(caller)

BatchCall ==
    \E caller \in People :
        \/ create_batch(caller)
        \/ \E n \in Names : create_account(caller, n)
        \/ \E b \in Ids :
            \/ approve_batch(caller, b)
            \/ discard_batch(caller, b)
            \/ \E n \in Names :
                \/ add_names(caller, b, n)
                \/ forget_names(caller, b, n)
                \/ open_names(caller, b, n)

Receipt ==
    \E o \in opening :
        \/ \E done \in BOOLEAN : open_account(o, done)
        \/ on_name_opened(o)

OpenerNext == RoleCall \/ BatchCall \/ Receipt

OpenerSpec == OpenerInit /\ [][OpenerNext]_openerVars

-----------------------------------------------------------------------------
(* Properties *)

(* new, change_operator, change_admin and accept_admin in any order: "the  *)
(* admin and operator must be different accounts", so no one approves the  *)
(* batches they fill.                                                      *)
RolesApart == admin # operator

(* add_names, open_names, on_name_opened and forget_names: the names a     *)
(* live batch still has to open are as many as it says, whichever openings *)
(* failed, so that an emptied batch, and only one, counts as spent.        *)
RemainingIsExact == \A b \in live : remaining[b] = Cardinality(names[b])

=============================================================================
