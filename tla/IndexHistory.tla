---------------------------- MODULE IndexHistory ----------------------------
(***************************************************************************)
(* The registry's lists as a client sees them: everything that happened,   *)
(* against the feed, and a walk over an owner's names one page at a time   *)
(* while names come and go.                                                *)
(***************************************************************************)
EXTENDS NameIndex

CONSTANTS
    PageLimits,     \* how many names a client asks for at a time
    MaxEvents       \* bound: how many events are recorded

VARIABLES
    happened,       \* every recorded event, oldest first
    walk            \* the walk in progress or last finished

indexHistoryVars == <<indexVars, happened, walk>>

names_of(owner) == {key \in DOMAIN entries : entries[key] = owner}

NoWalk == [owner |-> NoCursor, after |-> NoCursor, got |-> <<>>, held |-> {}]

(* A client starts a walk, or reads the page after the one it has.         *)
ReadPage(owner, limit) ==
    LET going == walk.owner = owner /\ walk.after # NoCursor
        result == nft_tokens_for_owner_page(owner, IF going THEN walk.after ELSE NoCursor, limit)
    IN /\ walk' = IF result = UnknownCursor
                  THEN NoWalk
                  ELSE [owner |-> owner, after |-> result.next, held |-> names_of(owner),
                        got |-> (IF going THEN walk.got ELSE <<>>) \o result.tokens]
       /\ UNCHANGED <<indexVars, happened>>

(* A walk is given up when a name leaves the owner in the middle of it.    *)
Watch ==
    LET interrupted ==
            /\ walk.after # NoCursor
            /\ \E key \in names_of(walk.owner) : key \notin DOMAIN entries' \/ entries'[key] # walk.owner
    IN walk' = IF interrupted THEN NoWalk ELSE walk

IndexHistoryInit == IndexInit /\ happened = <<>> /\ walk = NoWalk

IndexCall ==
    \E key \in NameKeys :
        \/ IndexStep(key) /\ UNCHANGED happened /\ Watch
        \/ Len(happened) < MaxEvents /\ IndexEvent(key) /\ happened' = Append(happened, key) /\ Watch

IndexHistoryNext ==
    \/ IndexCall
    \/ \E owner \in Holders, limit \in PageLimits : ReadPage(owner, limit)

IndexHistorySpec == IndexHistoryInit /\ [][IndexHistoryNext]_indexHistoryVars

-----------------------------------------------------------------------------

(* sub_account_insert, _remove, _reassign and nft_tokens_for_owner_page:   *)
(* a client that pages through an owner's names with the cursor of each    *)
(* page, while names come and none leaves that owner, ends with every name *)
(* the owner then holds, each of them once; and the list of a TLA is       *)
(* always its names, once.                                                 *)
ListsExact ==
    /\ walk.owner # NoCursor /\ walk.after = NoCursor =>
        IsInjective(walk.got) /\ ToSet(walk.got) = walk.held
    /\ \A tla \in Tlas :
        /\ IsInjective(byTla[tla])
        /\ ToSet(byTla[tla]) = {key \in DOMAIN entries : TlaOf[key] = tla}

(* push_activity and list_recent_activity: whatever page is asked for, the *)
(* feed is the last events that happened, newest first, before and after   *)
(* the ring has wrapped.                                                   *)
FeedNewestFirst ==
    LET n == Len(happened)
        last == SubSeq(happened, IF n > Capacity THEN n - Capacity + 1 ELSE 1, n)
    IN \A account \in NameKeys \cup {NoCursor}, from \in 0..Capacity, limit \in PageLimits :
        list_recent_activity(from, limit, account) =
            page(SelectSeq(Reverse(last), LAMBDA key : account \in {NoCursor, key}), from, limit)

=============================================================================
