----------------------------- MODULE PinProofs -----------------------------
(***************************************************************************)
(* A wallet is bound only to code that was on record for the whole delay,  *)
(* and says what it runs, for any implementations and delays: proofs about *)
(* ImplPin.                                                                *)
(***************************************************************************)
EXTENDS ImplPin, TLAPS

(* hash has been on record since time or before.                           *)
Since(hash, time) == recordedAt[hash] \in Nat /\ recordedAt[hash] <= time

(* A binding in flight is young, was sent for after its delay, and has     *)
(* been on record since its approval until it is bound; an approval on the *)
(* wallet meanwhile is younger.                                            *)
Underway(p) ==
    /\ p.born <= now /\ now <= p.born + PinLag
    /\ p.at + PinDelay <= p.born
    /\ approvedImpl = NoPin \/ approvedImpl.at >= p.born
    /\ IF p.stage = "bound" THEN bound = p.what ELSE pinned = bound /\ Since(p.what, p.at)

(* The inductive invariant: at most one binding is in flight, since an     *)
(* approval given under it cannot have stood the delay before it is over.  *)
PinInv ==
    /\ now \in Nat
    /\ approvedImpl \in PinApproval \cup {NoPin}
    /\ pins \subseteq Pin
    /\ bound \in Impls \cup {NoImpl} /\ pinned \in Impls \cup {NoImpl}
    /\ recordedAt \in [Impls -> Int]
    /\ \A hash \in Impls : recordedAt[hash] = -1 \/ Since(hash, now)
    /\ approvedImpl # NoPin => Since(approvedImpl.what, approvedImpl.at)
    /\ \A p, q \in pins : p = q
    /\ \A p \in pins : Underway(p)
    /\ PinIsNoticed

-----------------------------------------------------------------------------

LEMMA PinInvInit == PinHistoryInit => PinInv
BY PinAssumption, ClockAssumption
DEF PinHistoryInit, PinInit, PinInv, PinIsNoticed, NoPin, PinApproval, Pin, Since, Underway

(* What is still on record keeps its date, and what is new has today's.    *)
LEMMA Recorded ==
    ASSUME PinInv, PinObserve, NEW hash \in Impls, OnRecord(hash)'
    PROVE  /\ recordedAt[hash] # -1 => recordedAt'[hash] = recordedAt[hash]
           /\ recordedAt[hash] = -1 => recordedAt'[hash] = now
BY DEF PinInv, PinObserve

LEMMA RecordType ==
    ASSUME PinInv, PinObserve, now' \in Nat, now <= now'
    PROVE  /\ recordedAt' \in [Impls -> Int]
           /\ \A hash \in Impls : recordedAt'[hash] = -1 \/ Since(hash, now)'
BY DEF PinInv, PinObserve, Since

(* Nothing is sent while a binding is in flight.                           *)
LEMMA OnePin == ASSUME PinInv, hos_pin_impl PROVE pins = {}
<1>1. SUFFICES ASSUME NEW p \in pins PROVE FALSE
  OBVIOUS
<1>2. approvedImpl \in PinApproval /\ approvedImpl.at >= p.born
  BY DEF PinInv, hos_pin_impl, Underway
<1>3. now >= approvedImpl.at + PinDelay /\ now <= p.born + PinLag
  BY DEF PinInv, hos_pin_impl, Underway
<1>4. p.born \in Nat /\ approvedImpl.at \in Nat /\ now \in Nat
  BY <1>2 DEF PinInv, Pin, PinApproval
<1> QED
  BY <1>2, <1>3, <1>4, PinAssumption

(* What was on record by a time and still is, was by that time.            *)
LEMMA RecordKept ==
    ASSUME PinInv, PinObserve, NEW hash \in Impls, OnRecord(hash)', NEW time, Since(hash, time)
    PROVE  recordedAt'[hash] \in Nat /\ recordedAt'[hash] <= time
BY Recorded DEF Since

-----------------------------------------------------------------------------
(* Each action preserves the invariant.                                    *)

(* hos_approve_impl *)
LEMMA ApproveStep ==
    ASSUME PinInv, PinObserve, NEW hash \in Impls, hos_approve_impl(hash)
    PROVE  PinInv'
<1>1. /\ approvedImpl' = [what |-> hash, at |-> now] /\ now \in Nat
      /\ UNCHANGED <<now, pinned, bound, pins>>
  BY DEF hos_approve_impl, PinInv
<1>2. approvedImpl' \in PinApproval
  BY <1>1 DEF PinApproval
<1>3. Since(hash, now)'
  <2>1. OnRecord(hash)'
    BY <1>1 DEF OnRecord
  <2> QED
    BY <1>1, <2>1, Recorded DEF Since, PinInv
<1>4. \A p \in pins' : Underway(p)'
  <2>1. SUFFICES ASSUME NEW p \in pins PROVE Underway(p)'
    BY <1>1
  <2>2. Underway(p) /\ p \in Pin
    BY DEF PinInv
  <2>3. p.stage # "bound" => Since(p.what, p.at)'
    <3>1. p.stage # "bound" => OnRecord(p.what)'
      BY <1>1 DEF OnRecord
    <3> QED
      BY <1>1, <2>2, <3>1, RecordKept DEF Underway, Since, Pin
  <2> QED
    BY <1>1, <2>2, <2>3 DEF Underway, Pin
<1>5. PinIsNoticed'
  BY <1>1 DEF PinInv, PinIsNoticed, PinObserve
<1> QED
  BY <1>1, <1>2, <1>3, <1>4, <1>5, RecordType DEF PinInv

(* hos_cancel_impl *)
LEMMA CancelStep ==
    ASSUME PinInv, PinObserve, hos_cancel_impl
    PROVE  PinInv'
<1>1. approvedImpl' = NoPin /\ UNCHANGED <<now, pinned, bound, pins>> /\ now \in Nat
  BY DEF hos_cancel_impl, PinInv
<1>2. \A p \in pins' : Underway(p)'
  <2>1. SUFFICES ASSUME NEW p \in pins PROVE Underway(p)'
    BY <1>1
  <2>2. Underway(p) /\ p \in Pin
    BY DEF PinInv
  <2>3. p.stage # "bound" => OnRecord(p.what)'
    BY <1>1 DEF OnRecord
  <2> QED
    BY <1>1, <2>2, <2>3, RecordKept DEF Underway, Since, Pin
<1>3. PinIsNoticed'
  BY <1>1 DEF PinInv, PinIsNoticed, PinObserve
<1> QED
  BY <1>1, <1>2, <1>3, RecordType DEF PinInv

(* hos_pin_impl *)
LEMMA SendStep ==
    ASSUME PinInv, PinObserve, hos_pin_impl
    PROVE  PinInv'
<1>0. PICK p : p = [what |-> approvedImpl.what, at |-> approvedImpl.at, born |-> now,
                    stage |-> "sent"]
  OBVIOUS
<1>1. pins = {} /\ pins' = {p} /\ approvedImpl' = NoPin /\ UNCHANGED <<now, pinned, bound>>
  BY <1>0, OnePin DEF hos_pin_impl
<1>2. approvedImpl \in PinApproval /\ now \in Nat /\ now >= approvedImpl.at + PinDelay
  BY DEF hos_pin_impl, PinInv
<1>3. /\ p \in Pin
      /\ p.what = approvedImpl.what /\ p.at = approvedImpl.at /\ p.born = now /\ p.stage = "sent"
  BY <1>0, <1>2 DEF PinApproval, Pin
<1>4. Since(p.what, p.at)'
  <2>1. OnRecord(p.what)' /\ p.what \in Impls
    BY <1>1, <1>3 DEF OnRecord, Pin
  <2>2. Since(p.what, p.at)
    BY <1>3 DEF PinInv, hos_pin_impl
  <2> QED
    BY <2>1, <2>2, RecordKept DEF Since
<1>5. Underway(p)'
  <2>1. pinned = bound
    BY <1>1 DEF PinInv, PinIsNoticed
  <2> QED
    BY <1>1, <1>2, <1>3, <1>4, <2>1, PinAssumption DEF Underway, Pin
<1>6. PinIsNoticed'
  <2>1. waited' = waited
    BY <1>1, <1>3 DEF PinObserve
  <2> QED
    BY <1>1, <2>1 DEF PinInv, PinIsNoticed
<1> QED
  BY <1>1, <1>2, <1>3, <1>5, <1>6, RecordType DEF PinInv

(* The binding, and its failure *)
LEMMA BindStep ==
    ASSUME PinInv, PinObserve, NEW p \in pins, NEW done \in BOOLEAN, bind(p, done)
    PROVE  PinInv'
<1> DEFINE q == [p EXCEPT !.stage = IF done THEN "bound" ELSE "failed"]
<1>1. pins = {p} /\ p \in Pin /\ Underway(p) /\ now \in Nat /\ p.stage = "sent"
  BY DEF PinInv, bind
<1>2. pins' = {q} /\ UNCHANGED <<now, approvedImpl, pinned>>
  BY <1>1 DEF bind
<1>3. /\ q \in Pin /\ q.what = p.what /\ q.at = p.at /\ q.born = p.born
      /\ q.stage = IF done THEN "bound" ELSE "failed"
  BY <1>1 DEF Pin
<1> HIDE DEF q
<1>4. Since(p.what, p.at) /\ p.what \in Impls /\ {p.at, p.born} \subseteq Nat
  BY <1>1 DEF Underway, Pin
<1>5. approvedImpl # NoPin => Since(approvedImpl.what, approvedImpl.at)'
  <2>1. SUFFICES ASSUME approvedImpl # NoPin
                 PROVE  Since(approvedImpl.what, approvedImpl.at)'
    OBVIOUS
  <2>2. OnRecord(approvedImpl.what)' /\ approvedImpl.what \in Impls
    BY <1>2, <2>1 DEF OnRecord, PinInv, PinApproval
  <2>3. Since(approvedImpl.what, approvedImpl.at)
    BY <2>1 DEF PinInv
  <2> QED
    BY <1>2, <2>2, <2>3, RecordKept DEF Since
<1>6. CASE done
  <2>1. bound' = p.what
    BY <1>6 DEF bind
  <2>2. Underway(q)'
    BY <1>1, <1>2, <1>3, <1>6, <2>1 DEF Underway
  <2>3. waited' >= PinDelay
    <3>1. q \in pins' \ pins /\ q.stage = "bound"
      BY <1>1, <1>2, <1>3, <1>6
    <3>2. recordedAt[p.what] \in Nat /\ recordedAt[p.what] <= p.at
      BY <1>4 DEF Since
    <3>3. waited' = now - recordedAt[p.what]
      BY <2>1, <3>1, <3>2 DEF PinObserve
    <3>4. p.at + PinDelay <= p.born /\ p.born <= now
      BY <1>1 DEF Underway
    <3> QED
      BY <1>1, <1>4, <3>2, <3>3, <3>4, PinAssumption
  <2>4. PinIsNoticed'
    BY <1>2, <2>3 DEF PinIsNoticed
  <2> QED
    BY <1>1, <1>2, <1>3, <1>4, <1>5, <2>1, <2>2, <2>4, RecordType DEF PinInv
<1>7. CASE ~done
  <2>1. bound' = bound
    BY <1>7 DEF bind
  <2>2. OnRecord(p.what)'
    BY <1>2, <1>3, <1>7 DEF OnRecord
  <2>3. Since(p.what, p.at)'
    BY <1>4, <2>2, RecordKept DEF Since
  <2>4. Underway(q)'
    BY <1>1, <1>2, <1>3, <1>7, <2>1, <2>3 DEF Underway
  <2>5. PinIsNoticed'
    <3>1. waited' = waited
      BY <1>2, <1>3, <1>7 DEF PinObserve
    <3> QED
      BY <1>2, <2>1, <3>1 DEF PinInv, PinIsNoticed
  <2> QED
    BY <1>1, <1>2, <1>3, <1>5, <2>1, <2>4, <2>5, RecordType DEF PinInv
<1> QED
  BY <1>6, <1>7

(* hos_on_pinned *)
LEMMA CallbackStep ==
    ASSUME PinInv, PinObserve, NEW p \in pins, hos_on_pinned(p)
    PROVE  PinInv'
<1>1. pins = {p} /\ p \in Pin /\ Underway(p) /\ now \in Nat /\ p.stage # "sent"
  BY DEF PinInv, hos_on_pinned
<1>2. pins' = {} /\ UNCHANGED <<now, bound>>
  BY <1>1 DEF hos_on_pinned
<1>3. waited' = waited
  BY <1>2 DEF PinObserve
<1>4. CASE p.stage = "failed"
  <2>1. approvedImpl' = [what |-> p.what, at |-> p.at] /\ pinned' = pinned
    BY <1>4 DEF hos_on_pinned
  <2>2. approvedImpl' \in PinApproval /\ p.what \in Impls
    BY <1>1, <2>1 DEF Pin, PinApproval
  <2>3. OnRecord(p.what)'
    BY <2>1 DEF OnRecord
  <2>4. Since(p.what, p.at) /\ pinned = bound
    BY <1>1, <1>4 DEF Underway
  <2>5. recordedAt'[p.what] \in Nat /\ recordedAt'[p.what] <= p.at
    BY <2>2, <2>3, <2>4, RecordKept
  <2>6. (approvedImpl # NoPin => Since(approvedImpl.what, approvedImpl.at))'
    BY <2>1, <2>5 DEF Since
  <2>7. PinIsNoticed'
    BY <1>2, <1>3, <2>1, <2>4 DEF PinInv, PinIsNoticed
  <2> QED
    BY <1>1, <1>2, <2>1, <2>2, <2>6, <2>7, RecordType DEF PinInv
<1>5. CASE p.stage = "bound"
  <2>1. pinned' = p.what /\ approvedImpl' = approvedImpl /\ bound = p.what
    BY <1>1, <1>5 DEF hos_on_pinned, Underway
  <2>2. approvedImpl # NoPin => Since(approvedImpl.what, approvedImpl.at)'
    <3>1. SUFFICES ASSUME approvedImpl # NoPin
                   PROVE  Since(approvedImpl.what, approvedImpl.at)'
      OBVIOUS
    <3>2. OnRecord(approvedImpl.what)' /\ approvedImpl.what \in Impls
      BY <2>1, <3>1 DEF OnRecord, PinInv, PinApproval
    <3>3. Since(approvedImpl.what, approvedImpl.at)
      BY <3>1 DEF PinInv
    <3> QED
      BY <2>1, <3>2, <3>3, RecordKept DEF Since
  <2>3. PinIsNoticed'
    BY <1>2, <1>3, <2>1 DEF PinInv, PinIsNoticed
  <2> QED
    BY <1>1, <1>2, <2>1, <2>2, <2>3, RecordType DEF PinInv
<1> QED
  BY <1>1, <1>4, <1>5 DEF Pin

(* Freezes and time *)
LEMMA QuietStep ==
    ASSUME PinInv, PinObserve, freeze_changes \/ PinTick
    PROVE  PinInv'
<1>1. /\ UNCHANGED <<approvedImpl, pinned, bound, pins>>
      /\ now \in Nat /\ now' \in Nat /\ now <= now'
      /\ \A p \in pins : p \in Pin /\ now' <= p.born + PinLag
  <2>1. CASE freeze_changes
    BY <2>1 DEF freeze_changes, PinInv, Underway
  <2>2. CASE PinTick
    BY <2>2, PinAssumption DEF PinTick, pinVars, advance, PinInv, Pin
  <2> QED
    BY <2>1, <2>2
<1>2. approvedImpl # NoPin => Since(approvedImpl.what, approvedImpl.at)'
  <2>1. SUFFICES ASSUME approvedImpl # NoPin
                 PROVE  Since(approvedImpl.what, approvedImpl.at)'
    OBVIOUS
  <2>2. OnRecord(approvedImpl.what)' /\ approvedImpl.what \in Impls
    BY <1>1, <2>1 DEF OnRecord, PinInv, PinApproval
  <2>3. Since(approvedImpl.what, approvedImpl.at)
    BY <2>1 DEF PinInv
  <2> QED
    BY <1>1, <2>2, <2>3, RecordKept DEF Since
<1>3. \A p \in pins' : Underway(p)'
  <2>1. SUFFICES ASSUME NEW p \in pins PROVE Underway(p)'
    BY <1>1
  <2>2. Underway(p) /\ p \in Pin
    BY DEF PinInv
  <2>3. p.stage # "bound" => OnRecord(p.what)'
    BY <1>1 DEF OnRecord
  <2> QED
    BY <1>1, <2>2, <2>3, RecordKept DEF Underway, Since, Pin
<1>4. PinIsNoticed'
  BY <1>1 DEF PinInv, PinIsNoticed, PinObserve
<1> QED
  BY <1>1, <1>2, <1>3, <1>4, RecordType DEF PinInv

-----------------------------------------------------------------------------

(* A wallet is only ever bound to code that has been on record for the     *)
(* whole delay without a break, and with no binding in flight              *)
(* hos_impl_pin tells what it runs.                                        *)
THEOREM PinAlwaysNoticed == PinHistorySpec => []PinIsNoticed
<1>1. PinInv /\ [PinHistoryNext]_pinHistoryVars => PinInv'
  <2>1. SUFFICES ASSUME PinInv, [PinHistoryNext]_pinHistoryVars PROVE PinInv'
    OBVIOUS
  <2>2. CASE PinNext /\ PinObserve
    BY <2>1, <2>2, ApproveStep, CancelStep, SendStep, BindStep, CallbackStep, QuietStep
    DEF PinNext
  <2>3. CASE UNCHANGED pinHistoryVars
    BY <2>1, <2>3
    DEF PinInv, PinIsNoticed, Underway, Since, pinHistoryVars, pinVars
  <2> QED
    BY <2>1, <2>2, <2>3 DEF PinHistoryNext
<1>2. PinInv => PinIsNoticed
  BY DEF PinInv
<1> QED
  BY PinInvInit, <1>1, <1>2, PTL DEF PinHistorySpec

=============================================================================
