------------------------------ MODULE NameIndex ------------------------------
(***************************************************************************)
(* The registry's lists of names: the per-owner and per-TLA indexes kept   *)
(* beside the entries (indexes.rs), the paged views over them (nft.rs,     *)
(* views.rs), and the ring of recent activity (activity.rs).               *)
(***************************************************************************)
EXTENDS SequencesExt

CONSTANTS
    NameKeys,       \* the names
    TlaOf,          \* the TLA each name is under
    Holders,        \* the accounts that may own names
    Capacity,       \* ACTIVITY_CAPACITY
    NoCursor,       \* None
    UnknownCursor   \* the error

VARIABLES
    entries,        \* sub_accounts: the owner of each name that has an entry
    byOwner,        \* sub_accounts_by_owner: IterableSet, in iteration order
    byTla,          \* sub_accounts_by_tla
    ring,           \* recent_activity
    cursor          \* activity_cursor

indexVars == <<entries, byOwner, byTla, ring, cursor>>

Tlas == {TlaOf[key] : key \in NameKeys}

-----------------------------------------------------------------------------
(* IterableSet of near-sdk: insertion appends; removal puts the last       *)
(* element in the place of the removed one.                                *)

set_insert(keys, key) == IF Contains(keys, key) THEN keys ELSE Append(keys, key)

set_remove(keys, key) ==
    IF Contains(keys, key)
    THEN Front(ReplaceAt(keys, SelectInSeq(keys, LAMBDA k : k = key), Last(keys)))
    ELSE keys

index_add(index, id, key) == [index EXCEPT ![id] = set_insert(@, key)]
index_remove(index, id, key) == [index EXCEPT ![id] = set_remove(@, key)]

-----------------------------------------------------------------------------

(* Variant: once full, the ring is written from the slot after the oldest. *)
push_activity_ahead(key) ==
    IF Len(ring) < Capacity
    THEN ring' = Append(ring, key) /\ UNCHANGED cursor
    ELSE LET next == (cursor + 1) % Capacity
         IN ring' = [ring EXCEPT ![next + 1] = key] /\ cursor' = next

push_activity(key) ==
    IF Len(ring) < Capacity
    THEN ring' = Append(ring, key) /\ UNCHANGED cursor
    ELSE ring' = [ring EXCEPT ![cursor + 1] = key] /\ cursor' = (cursor + 1) % Capacity

(* skip and take.                                                          *)
page(keys, from, limit) ==
    SubSeq(keys, from + 1, IF from + limit < Len(keys) THEN from + limit ELSE Len(keys))

(* account NoCursor: no filter.                                            *)
list_recent_activity(from, limit, account) ==
    LET len == Len(ring)
        newest == [i \in 1..len |-> ring[((cursor + len - i) % len) + 1]]
        wanted == SelectSeq(newest, LAMBDA key : account \in {NoCursor, key})
    IN page(wanted, from, limit)

(* A page of the owner's names after a cursor, and the cursor of the next. *)
nft_tokens_for_owner_page(owner, after, limit) ==
    LET keys == byOwner[owner]
        start == IF after = NoCursor THEN 0 ELSE SelectInSeq(keys, LAMBDA k : k = after)
        stop == start + limit
    IN IF after # NoCursor /\ start = 0
       THEN UnknownCursor
       ELSE [tokens |-> SelectSeq(page(keys, start, limit), LAMBDA k : k \in DOMAIN entries),
             next |-> IF stop < Len(keys) THEN keys[stop] ELSE NoCursor]

-----------------------------------------------------------------------------

sub_account_insert(key, owner) ==
    /\ entries' = [k \in DOMAIN entries \cup {key} |-> IF k = key THEN owner ELSE entries[k]]
    /\ byOwner' = index_add(byOwner, owner, key)
    /\ byTla' = index_add(byTla, TlaOf[key], key)

sub_account_remove(key) ==
    /\ key \in DOMAIN entries
    /\ entries' = [k \in DOMAIN entries \ {key} |-> entries[k]]
    /\ byOwner' = index_remove(byOwner, entries[key], key)
    /\ byTla' = index_remove(byTla, TlaOf[key], key)

(* Variant: the name is not taken off the list of the owner it leaves.     *)
sub_account_reassign_adding(key, owner) ==
    /\ key \in DOMAIN entries
    /\ entries' = [entries EXCEPT ![key] = owner]
    /\ byOwner' = index_add(byOwner, owner, key)
    /\ UNCHANGED byTla

sub_account_reassign(key, owner) ==
    /\ key \in DOMAIN entries
    /\ entries' = [entries EXCEPT ![key] = owner]
    /\ byOwner' = IF entries[key] = owner THEN byOwner
                  ELSE index_add(index_remove(byOwner, entries[key], key), owner, key)
    /\ UNCHANGED byTla

-----------------------------------------------------------------------------
(* The callers, one per way the lists change.                              *)

open_lease(key, owner) ==
    /\ key \notin DOMAIN entries
    /\ sub_account_insert(key, owner)
    /\ UNCHANGED <<ring, cursor>>

(* settle_failed_mint, settle_stranded_mint                                *)
settle_mint(key) == sub_account_remove(key) /\ UNCHANGED <<ring, cursor>>

(* The rental or the renewal of a name is confirmed.                       *)
record_kept(key) ==
    /\ key \in DOMAIN entries
    /\ push_activity(key)
    /\ UNCHANGED <<entries, byOwner, byTla>>

(* A transfer, a return or a recovery is confirmed.                        *)
record_transfer(key, owner) == sub_account_reassign(key, owner) /\ push_activity(key)

on_reclaim_finalized(key) == sub_account_remove(key) /\ push_activity(key)

IndexInit ==
    /\ entries = [key \in {} |-> NoCursor]
    /\ byOwner = [owner \in Holders |-> <<>>]
    /\ byTla = [tla \in Tlas |-> <<>>]
    /\ ring = <<>> /\ cursor = 0

IndexStep(key) ==
    \/ \E owner \in Holders : open_lease(key, owner)
    \/ settle_mint(key)

IndexEvent(key) ==
    \/ \E owner \in Holders : record_transfer(key, owner)
    \/ record_kept(key)
    \/ on_reclaim_finalized(key)

=============================================================================
