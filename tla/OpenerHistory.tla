--------------------------- MODULE OpenerHistory ---------------------------
(* OpenBatches with what the admin saw when approving each batch. *)
EXTENDS OpenBatches

VARIABLES
    granted,        \* the names each batch had when it was approved
    revoked         \* the batches that were discarded

historyVars == <<openerVars, granted, revoked>>

Observe ==
    /\ granted' = [b \in Ids |-> IF b \in approved' \ approved THEN names[b] ELSE granted[b]]
    /\ revoked' = revoked \cup (live \ live')

HistoryInit == OpenerInit /\ granted = [b \in Ids |-> {}] /\ revoked = {}
HistoryNext == OpenerNext /\ Observe
HistorySpec == HistoryInit /\ [][HistoryNext]_historyVars

-----------------------------------------------------------------------------

(* approve_batch by digest, add_names, open_names and discard_batch: a     *)
(* batch opens only names it had when the admin approved it, and a batch   *)
(* that was discarded is never back under its number.  tests.rs asserts it *)
(* when a batch is discarded and another made: "the new batch can open a   *)
(* name the council never approved for it".                                *)
OnlyGrantedOpens ==
    /\ \A o \in opening : o.batch # NoBatch => o.name \in granted[o.batch]
    /\ \A b \in approved : names[b] \subseteq granted[b]
    /\ revoked \cap live = {}

=============================================================================
