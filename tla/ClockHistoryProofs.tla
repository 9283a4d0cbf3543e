------------------------ MODULE ClockHistoryProofs ------------------------
(***************************************************************************)
(* Nothing is reclaimable inside a fresh grace period after a pause, for   *)
(* any grace, hold and expiries: proofs about ClockHistory.                *)
(***************************************************************************)
EXTENDS ClockHistory, TLAPS

(* The end of the last pause, which reclaim_floor_ns counts the grace      *)
(* from, is never before the last instant the registry was paused at.      *)
FloorInv ==
    /\ ClockTypeOK
    /\ lastPaused <= now
    /\ lastPaused # -1 =>
        IF paused THEN lastPaused < pausedUntil ELSE lastPaused <= unpausedAt

(* The parameters are natural numbers.                                     *)
LEMMA ParameterTypes ==
    /\ Grace \in Nat /\ MaxHold \in Nat /\ MaxHold > 0 /\ TlaTerm \in Nat
    /\ TlaEnds \subseteq Nat
    /\ Genesis \in Nat /\ MaxTime \in Nat /\ Genesis <= MaxTime
    /\ Expiries \subseteq Nat
BY ClockAssumption, RegistryClockAssumption, ExpiriesAssumption

(* The invariant of the floor holds at the start.                          *)
LEMMA FloorInit == HistoryInit => FloorInv
<1> SUFFICES ASSUME HistoryInit PROVE FloorInv
  OBVIOUS
<1>1. paused \in BOOLEAN /\ tlaSuspended \in BOOLEAN
  BY DEF HistoryInit, ClockInit
<1> QED BY <1>1, ParameterTypes DEF HistoryInit, ClockInit, FloorInv, ClockTypeOK

(* The clock's own fields keep their types.                                *)
LEMMA ClockTypesKept ==
    ASSUME ClockTypeOK, ClockNext
    PROVE  /\ now' \in Genesis..MaxTime /\ now' >= now
           /\ paused' \in BOOLEAN /\ tlaSuspended' \in BOOLEAN
           /\ pausedUntil' \in Nat /\ unpausedAt' \in Nat
           /\ suspendedUntil' \in Nat /\ tlaExpires' \in Nat
<1> USE ParameterTypes DEF ClockTypeOK, pauseVars, tlaVars
<1>0. paused' \in BOOLEAN /\ tlaSuspended' \in BOOLEAN
  BY Zenon DEF ClockNext, pause, unpause, suspend_tla, unsuspend_tla, renew_tla
<1>1. CASE pause \/ unpause
  BY <1>0, <1>1 DEF pause, unpause
<1>2. CASE suspend_tla \/ unsuspend_tla
  BY <1>0, <1>2 DEF suspend_tla, unsuspend_tla
<1>3. CASE renew_tla
  BY <1>3 DEF renew_tla, later
<1>4. CASE advance /\ UNCHANGED <<pauseVars, tlaVars>>
  BY <1>4 DEF advance
<1> QED BY <1>1, <1>2, <1>3, <1>4 DEF ClockNext

(* Every step keeps the invariant of the floor.                            *)
LEMMA FloorStep ==
    FloorInv /\ [HistoryNext]_historyVars => FloorInv'
<1> SUFFICES ASSUME FloorInv, [HistoryNext]_historyVars PROVE FloorInv'
  OBVIOUS
<1>1. CASE UNCHANGED historyVars
  BY <1>1 DEF FloorInv, ClockTypeOK, historyVars
<1>2. CASE HistoryNext
  <2>1. /\ now' \in Genesis..MaxTime /\ now' >= now
        /\ paused' \in BOOLEAN /\ tlaSuspended' \in BOOLEAN
        /\ pausedUntil' \in Nat /\ unpausedAt' \in Nat
        /\ suspendedUntil' \in Nat /\ tlaExpires' \in Nat
    BY <1>2, ClockTypesKept DEF HistoryNext, FloorInv
  <2>2. /\ lastPaused' = IF effective_paused' THEN now' ELSE lastPaused
        /\ pausedSince' = IF ~effective_paused' THEN -1
                          ELSE IF pausedSince = -1 THEN now' ELSE pausedSince
    BY <1>2 DEF HistoryNext, Observe
  <2>3. /\ now \in Nat /\ now' \in Nat
        /\ lastPaused \in Nat \cup {-1} /\ pausedSince \in Nat \cup {-1}
        /\ paused \in BOOLEAN /\ pausedUntil \in Nat /\ unpausedAt \in Nat
        /\ lastPaused <= now
    BY <2>1, ParameterTypes DEF FloorInv, ClockTypeOK
  <2>4. lastPaused' <= now' /\ lastPaused' \in Nat \cup {-1} /\ pausedSince' \in Nat \cup {-1}
    BY <2>1, <2>2, <2>3
  <2>5. ClockTypeOK'
    BY <2>1, <2>4 DEF ClockTypeOK
  <2>6. ASSUME lastPaused' # -1
        PROVE  IF paused' THEN lastPaused' < pausedUntil' ELSE lastPaused' <= unpausedAt'
    <3>1. CASE effective_paused'
      BY <3>1, <2>2 DEF effective_paused
    <3>2. CASE ~effective_paused'
      <4>1. lastPaused' = lastPaused /\ lastPaused # -1
        BY <3>2, <2>2, <2>6
      <4>2. IF paused THEN lastPaused < pausedUntil ELSE lastPaused <= unpausedAt
        BY <4>1 DEF FloorInv
      <4>3. CASE pause
        BY <4>3, <3>2, <2>3, ParameterTypes DEF pause, effective_paused
      <4>4. CASE unpause
        BY <4>4, <4>1, <2>3 DEF unpause
      <4>5. CASE UNCHANGED pauseVars
        BY <4>5, <4>1, <4>2 DEF pauseVars
      <4> QED
        BY <1>2, <4>3, <4>4, <4>5
        DEF HistoryNext, ClockNext, suspend_tla, unsuspend_tla, renew_tla
    <3> QED BY <3>1, <3>2
  <2> QED BY <2>4, <2>5, <2>6 DEF FloorInv
<1> QED BY <1>1, <1>2

-----------------------------------------------------------------------------

(* The floor's invariant holds in every reachable state.                   *)
THEOREM FloorInvariant == HistorySpec => []FloorInv
BY FloorInit, FloorStep, PTL DEF HistorySpec

(* Type correctness of the registry's clock.                               *)
THEOREM ClockTypeCorrect == HistorySpec => []ClockTypeOK
<1>1. FloorInv => ClockTypeOK
  BY DEF FloorInv
<1> QED BY <1>1, FloorInvariant, PTL

(* time_lifecycle and reclaim_floor_ns: every pause, however it ends, is   *)
(* followed by a whole grace period in which nothing is reclaimable.       *)
THEOREM GraceIsAlwaysFresh == HistorySpec => []FreshGrace
<1>1. FloorInv => FreshGrace
  <2> SUFFICES ASSUME FloorInv, NEW expires \in Expiries \cup {tlaExpires},
                      time_lifecycle(expires) = "Reclaimable"
               PROVE  /\ now >= expires + Grace
                      /\ lastPaused # -1 => now >= lastPaused + Grace
    BY DEF FreshGrace
  <2>1. /\ now \in Nat /\ now <= MaxTime /\ expires \in Nat
        /\ lastPaused \in Nat \cup {-1}
        /\ paused \in BOOLEAN /\ pausedUntil \in Nat /\ unpausedAt \in Nat
    BY ParameterTypes DEF FloorInv, ClockTypeOK
  <2>2. reclaim_floor \in Nat
    BY <2>1, ParameterTypes DEF reclaim_floor, Never
  <2>3. reclaimable_at(expires) \in Nat /\ now >= reclaimable_at(expires)
    <3>1. reclaimable_at(expires) \in Nat
      BY <2>1, <2>2, ParameterTypes DEF reclaimable_at, later
    <3>2. ~(now < expires) /\ ~(now >= expires /\ now < reclaimable_at(expires))
      BY DEF time_lifecycle
    <3> QED BY <2>1, <3>1, <3>2
  <2>4. now >= expires + Grace /\ now >= reclaim_floor
    BY <2>1, <2>2, <2>3, ParameterTypes DEF reclaimable_at, later
  <2>5. ~effective_paused
    BY <2>1, <2>4, ParameterTypes DEF reclaim_floor, Never
  <2>6. lastPaused # -1 => now >= lastPaused + Grace
    BY <2>1, <2>4, <2>5, ParameterTypes DEF reclaim_floor, FloorInv
  <2> QED BY <2>4, <2>6
<1> QED BY <1>1, FloorInvariant, PTL

=============================================================================
