---------------------------- MODULE MCRegistry ----------------------------
(***************************************************************************)
(* The registry's clock, its prices and its lists, for TLC.  They share    *)
(* only the time, so each behaviour moves one of them: the part.           *)
(***************************************************************************)
EXTENDS ClockHistory, RateHistory, IndexHistory

CONSTANTS
    Parts,              \* of {"clock", "rates", "feed", "walk"}
    WalkEvents,         \* bound: how many events a walk is observed over
    FeedNames           \* the names of the feed's part

VARIABLE part

registryVars == <<historyVars, rateHistoryVars, indexHistoryVars, part>>

MCFirstConfig ==
    [tiers |-> <<21, 9, 9, 5>>, move |-> 3, slippage |-> 2, floor |-> 4, ceiling |-> 12,
     cooldown |-> 1, maxAge |-> 2]

(* Accepted, and refused for one reason each unless the rate allows.       *)
MCConfigs ==
    {MCFirstConfig,
     [MCFirstConfig EXCEPT !.floor = 6],
     [MCFirstConfig EXCEPT !.cooldown = 4],
     [MCFirstConfig EXCEPT !.cooldown = 2, !.slippage = 5],
     [MCFirstConfig EXCEPT !.tiers = <<9, 21, 5, 5>>]}

MCTlaOf == [key \in NameKeys |-> IF key = "a" THEN "tla" ELSE "other"]

RestOfClock == UNCHANGED <<pauseVars, tlaVars, lastPaused, pausedSince>>
RestOfRates == UNCHANGED <<rate, rateAt, sequence, fees, oracle, tlaRent, quoted>>

MCInit ==
    /\ HistoryInit /\ RateHistoryInit /\ IndexHistoryInit
    /\ part \in Parts

MCNext ==
    /\ UNCHANGED part
    /\ \/ part = "clock" /\ HistoryNext /\ RestOfRates /\ UNCHANGED indexHistoryVars
       \/ part = "rates" /\ RateHistoryNext /\ RestOfClock /\ UNCHANGED indexHistoryVars
       \/ /\ RestOfClock /\ RestOfRates /\ UNCHANGED now
          /\ \/ part = "feed" /\ IndexCall /\ DOMAIN entries' \subseteq FeedNames
             \/ part = "walk" /\ IndexHistoryNext /\ Len(happened') <= WalkEvents

MCSpec == MCInit /\ [][MCNext]_registryVars

=============================================================================
