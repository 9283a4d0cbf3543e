--------------------------- MODULE NameHistory ---------------------------
(* A name's life with every owner its wallet ever had observed. *)
EXTENDS NameLifecycle

VARIABLE pastOwners     \* the accounts that own or once owned the wallet

OwnersInit == LifeInit /\ pastOwners = {}
OwnersNext == LifeNext /\ pastOwners' = pastOwners \cup {owner'}
OwnersSpec == OwnersInit /\ [][OwnersNext]_<<lifeVars, pastOwners>>

(* on_sub_account_transferred, on_sub_account_recovered,                   *)
(* commit_nft_rotation, nft_on_return_resolved and the failed mints:       *)
(* whatever overlaps and in whatever order receipts arrive, the registry   *)
(* never records an owner the wallet was never rotated to.  Until a mint   *)
(* or a re-rental is answered the entry is a claim and not yet a record.   *)
RecordedOwnerHeld ==
    /\ Held
    /\ \A i \in DOMAIN flight : flight[i].op \notin {"Mint", "ReRent"}
    => entry.owner \in pastOwners

=============================================================================
