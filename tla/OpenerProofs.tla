---------------------------- MODULE OpenerProofs ----------------------------
(***************************************************************************)
(* Batches count what is left in them and open only what the admin saw,    *)
(* for any names, people and number of batches: proofs about               *)
(* OpenerHistory.                                                          *)
(***************************************************************************)
EXTENDS OpenerHistory, FiniteSetTheorems, TLAPS

(* An opening under way was granted; one of a live batch is of an approved *)
(* one, so that an approval yet to come cannot change what was granted.    *)
Opening(o) ==
    /\ o.name \in Names
    /\ o.batch = NoBatch \/ o.batch \in 0..(nextId - 1)
    /\ o.batch # NoBatch => o.name \in granted[o.batch]
    /\ o.batch \in live => o.batch \in approved

(* The inductive invariant.  Numbers are given out in turn: what was never *)
(* created holds no names, and what was discarded has been created.        *)
OpenInv ==
    /\ RolesApart
    /\ nextId \in Nat /\ nextId <= MaxBatches
    /\ live \subseteq 0..(nextId - 1) /\ approved \subseteq live
    /\ revoked \subseteq 0..(nextId - 1) /\ revoked \cap live = {}
    /\ names \in [Ids -> SUBSET Names] /\ remaining \in [Ids -> Int]
    /\ granted \in [Ids -> SUBSET Names]
    /\ \A b \in Ids : b >= nextId => names[b] = {}
    /\ \A o \in opening : Opening(o)
    /\ \A b \in approved : names[b] \subseteq granted[b]
    /\ RemainingIsExact

(* It holds at the start, and says what is to be shown.                    *)
LEMMA OpenInvInit == HistoryInit => OpenInv
BY OpenerAssumption
DEF HistoryInit, OpenerInit, OpenInv, RolesApart, RemainingIsExact, Opening, Ids

LEMMA OpenInvShows == OpenInv => RemainingIsExact /\ OnlyGrantedOpens /\ RolesApart
BY DEF OpenInv, OnlyGrantedOpens, Opening

(* A batch's names are finite.                                             *)
LEMMA FewNames == ASSUME NEW S \in SUBSET Names
                  PROVE  IsFiniteSet(S) /\ Cardinality(S) \in Nat
BY FS_Subset, FS_CardinalityType, OpenerAssumption

(* What counting a name in or out does.                                    *)
LEMMA OneMore == ASSUME NEW S \in SUBSET Names, NEW n, n \notin S
                 PROVE  Cardinality(S \cup {n}) = Cardinality(S) + 1
BY FewNames, FS_AddElement

LEMMA OneLess == ASSUME NEW S \in SUBSET Names, NEW n \in S
                 PROVE  Cardinality(S \ {n}) = Cardinality(S) - 1
BY FewNames, FS_RemoveElement

-----------------------------------------------------------------------------
(* Each action preserves the invariant.                                    *)

(* change_operator, change_admin, accept_admin and cancel_nomination       *)
LEMMA RoleStep == ASSUME OpenInv, Observe, RoleCall PROVE OpenInv'
<1>1. UNCHANGED <<batchVars, opening, accounts>> /\ RolesApart'
  BY DEF RoleCall, change_operator, change_admin, accept_admin, cancel_nomination, OpenInv,
         RolesApart
<1>2. UNCHANGED <<granted, revoked>>
  BY <1>1 DEF Observe, batchVars, OpenInv
<1> QED
  BY <1>1, <1>2 DEF OpenInv, Opening, RemainingIsExact, batchVars

LEMMA CreateStep == ASSUME OpenInv, Observe, NEW caller, create_batch(caller) PROVE OpenInv'
<1>1. /\ nextId \in Ids /\ nextId' = nextId + 1 /\ live' = live \cup {nextId}
      /\ remaining' = [remaining EXCEPT ![nextId] = 0]
      /\ UNCHANGED <<roleVars, approved, names, opening, accounts>>
  BY OpenerAssumption DEF create_batch, OpenInv, Ids
<1>2. UNCHANGED <<granted, revoked>>
  BY <1>1 DEF Observe, OpenInv
<1>3. RemainingIsExact'
  <2>1. remaining'[nextId] = 0 /\ names[nextId] = {} /\ Cardinality(names[nextId]) = 0
    BY <1>1, FS_EmptySet DEF OpenInv
  <2>2. \A b \in live : b # nextId /\ b \in Ids
    BY OpenerAssumption DEF OpenInv, Ids
  <2>3. \A b \in live : remaining'[b] = remaining[b]
    BY <1>1, <2>2 DEF OpenInv
  <2> QED
    BY <1>1, <2>1, <2>3 DEF OpenInv, RemainingIsExact
<1>4. \A o \in opening : Opening(o)'
  <2>1. SUFFICES ASSUME NEW o \in opening PROVE Opening(o)'
    OBVIOUS
  <2>2. Opening(o)
    BY DEF OpenInv
  <2>3. o.batch # nextId
    BY <1>1, <2>2, OpenerAssumption DEF Opening, NoBatch, Ids, OpenInv
  <2>4. o.batch = NoBatch \/ o.batch \in 0..(nextId' - 1)
    BY <1>1, <2>2 DEF Opening, OpenInv
  <2> QED
    BY <1>1, <1>2, <2>2, <2>3, <2>4 DEF Opening
<1> QED
  BY <1>1, <1>2, <1>3, <1>4, OpenerAssumption DEF OpenInv, RolesApart, roleVars, Ids

LEMMA AddStep ==
    ASSUME OpenInv, Observe, NEW caller, NEW b \in Ids, NEW n \in Names, add_names(caller, b, n)
    PROVE  OpenInv'
<1>1. /\ b \in live /\ b \notin approved /\ n \notin names[b] /\ b < nextId
      /\ names' = [names EXCEPT ![b] = names[b] \cup {n}]
      /\ remaining' = [remaining EXCEPT ![b] = remaining[b] + 1]
      /\ UNCHANGED <<roleVars, nextId, live, approved, opening, accounts>>
  BY DEF add_names, OpenInv
<1>2. UNCHANGED <<granted, revoked>>
  BY <1>1 DEF Observe, OpenInv
<1>3. RemainingIsExact'
  BY <1>1, OneMore DEF OpenInv, RemainingIsExact, Ids
<1>4. names' \in [Ids -> SUBSET Names] /\ remaining' \in [Ids -> Int]
  BY <1>1 DEF OpenInv
<1>5. \A c \in Ids : c # b => names'[c] = names[c]
  BY <1>1 DEF OpenInv
<1>6. \A o \in opening : Opening(o)'
  BY <1>1, <1>2 DEF OpenInv, Opening
<1>7. approved \subseteq Ids
  BY OpenerAssumption DEF OpenInv, Ids
<1> QED
  BY <1>1, <1>2, <1>3, <1>4, <1>5, <1>6, <1>7 DEF OpenInv, RolesApart, roleVars

LEMMA ApproveStep ==
    ASSUME OpenInv, Observe, NEW caller, NEW b \in Ids, approve_batch(caller, b)
    PROVE  OpenInv'
<1>1. /\ b \in live /\ b \notin approved /\ approved' = approved \cup {b}
      /\ UNCHANGED <<roleVars, nextId, live, names, remaining, opening, accounts>>
  BY DEF approve_batch
<1>2. granted' = [granted EXCEPT ![b] = names[b]] /\ revoked' = revoked
  BY <1>1 DEF Observe, OpenInv
<1>3. granted' \in [Ids -> SUBSET Names] /\ approved \subseteq Ids
  BY <1>2, OpenerAssumption DEF OpenInv, Ids
<1>4. \A o \in opening : Opening(o)'
  BY <1>1, <1>2, OpenerAssumption DEF OpenInv, Opening, Ids, NoBatch
<1>5. \A c \in approved' : names[c] \subseteq granted'[c]
  BY <1>1, <1>2, <1>3 DEF OpenInv
<1> QED
  BY <1>1, <1>2, <1>3, <1>4, <1>5 DEF OpenInv, RolesApart, RemainingIsExact, roleVars

LEMMA DiscardStep ==
    ASSUME OpenInv, Observe, NEW caller, NEW b \in Ids, discard_batch(caller, b)
    PROVE  OpenInv'
<1>1. /\ b \in live /\ live' = live \ {b} /\ approved' = approved \ {b}
      /\ UNCHANGED <<roleVars, nextId, names, remaining, opening, accounts>>
  BY DEF discard_batch
<1>2. granted' = granted /\ revoked' = revoked \cup {b}
  BY <1>1 DEF Observe, OpenInv
<1>3. \A o \in opening : Opening(o)'
  BY <1>1, <1>2 DEF OpenInv, Opening
<1> QED
  BY <1>1, <1>2, <1>3 DEF OpenInv, RolesApart, RemainingIsExact, roleVars

LEMMA ForgetStep ==
    ASSUME OpenInv, Observe, NEW caller, NEW b \in Ids, NEW n \in Names, forget_names(caller, b, n)
    PROVE  OpenInv'
<1>1. /\ b \notin live /\ names' = [names EXCEPT ![b] = names[b] \ {n}]
      /\ UNCHANGED <<roleVars, nextId, live, approved, remaining, opening, accounts>>
  BY DEF forget_names
<1>2. UNCHANGED <<granted, revoked>>
  BY <1>1 DEF Observe, OpenInv
<1>3. /\ names' \in [Ids -> SUBSET Names]
      /\ \A c \in Ids : names'[c] \subseteq names[c] /\ (c # b => names'[c] = names[c])
  BY <1>1 DEF OpenInv
<1>4. live \subseteq Ids /\ approved \subseteq Ids
  BY OpenerAssumption DEF OpenInv, Ids
<1>5. \A o \in opening : Opening(o)'
  BY <1>1, <1>2 DEF OpenInv, Opening
<1>6. RemainingIsExact'
  BY <1>1, <1>3, <1>4 DEF OpenInv, RemainingIsExact
<1>7. \A c \in Ids : c >= nextId => names'[c] = {}
  BY <1>3 DEF OpenInv
<1>8. \A c \in approved : names'[c] \subseteq granted[c]
  BY <1>3, <1>4 DEF OpenInv
<1> QED
  BY <1>1, <1>2, <1>3, <1>5, <1>6, <1>7, <1>8 DEF OpenInv, RolesApart, roleVars

LEMMA OpenStep ==
    ASSUME OpenInv, Observe, NEW caller, NEW b \in Ids, NEW n \in Names, open_names(caller, b, n)
    PROVE  OpenInv'
<1>0. PICK o : o = [batch |-> b, name |-> n, stage |-> "sent"]
  OBVIOUS
<1>1. /\ b \in live /\ b \in approved /\ n \in names[b] /\ b < nextId
      /\ names' = [names EXCEPT ![b] = names[b] \ {n}]
      /\ remaining' = [remaining EXCEPT ![b] = remaining[b] - 1]
      /\ opening' = opening \cup {o}
      /\ UNCHANGED <<roleVars, nextId, live, approved, accounts>>
  BY <1>0 DEF open_names, OpenInv
<1>2. UNCHANGED <<granted, revoked>>
  BY <1>1 DEF Observe, OpenInv
<1>3. /\ names' \in [Ids -> SUBSET Names] /\ remaining' \in [Ids -> Int]
      /\ \A c \in Ids : names'[c] \subseteq names[c] /\ (c # b => names'[c] = names[c])
  BY <1>1 DEF OpenInv
<1>4. live \subseteq Ids /\ approved \subseteq Ids
  BY OpenerAssumption DEF OpenInv, Ids
<1>5. \A q \in opening : Opening(q)'
  BY <1>1, <1>2 DEF OpenInv, Opening
<1>6. Opening(o)'
  <2>1. o.batch = b /\ o.name = n
    BY <1>0
  <2>2. n \in granted[b]
    BY <1>1 DEF OpenInv
  <2>3. b \in 0..(nextId - 1)
    BY <1>1 DEF OpenInv
  <2> QED
    BY <1>1, <1>2, <2>1, <2>2, <2>3 DEF Opening
<1>7. RemainingIsExact'
  BY <1>1, <1>4, OneLess DEF OpenInv, RemainingIsExact
<1>8. \A c \in Ids : c >= nextId => names'[c] = {}
  BY <1>3 DEF OpenInv
<1>9. \A c \in approved : names'[c] \subseteq granted[c]
  BY <1>3, <1>4 DEF OpenInv
<1> QED
  BY <1>1, <1>2, <1>3, <1>5, <1>6, <1>7, <1>8, <1>9 DEF OpenInv, RolesApart, roleVars

(* create_account and the receipt of an opening                            *)
LEMMA ReceiptStep ==
    ASSUME OpenInv, Observe,
           \/ \E caller \in People, n \in Names : create_account(caller, n)
           \/ \E o \in opening, done \in BOOLEAN : open_account(o, done)
    PROVE  OpenInv'
<1>1. UNCHANGED <<roleVars, batchVars>>
  BY DEF create_account, open_account
<1>2. UNCHANGED <<granted, revoked>>
  BY <1>1 DEF Observe, OpenInv, batchVars
<1>3. \A q \in opening' : Opening(q)
  <2>1. CASE \E caller \in People, n \in Names : create_account(caller, n)
    <3>1. PICK n \in Names : opening' = opening \cup {[batch |-> NoBatch, name |-> n, stage |-> "sent"]}
      BY <2>1 DEF create_account
    <3>2. PICK q : q = [batch |-> NoBatch, name |-> n, stage |-> "sent"]
      OBVIOUS
    <3>3. NoBatch \notin live
      BY OpenerAssumption DEF OpenInv, NoBatch
    <3>4. Opening(q)
      BY <3>2, <3>3 DEF Opening
    <3> QED
      BY <3>1, <3>2, <3>4 DEF OpenInv
  <2>2. CASE \E o \in opening, done \in BOOLEAN : open_account(o, done)
    <3>1. PICK o \in opening, stage \in {"done", "failed"} :
            opening' = (opening \ {o}) \cup {[o EXCEPT !.stage = stage]}
      BY <2>2 DEF open_account
    <3>2. PICK q : q = [o EXCEPT !.stage = stage]
      OBVIOUS
    <3>3. q.batch = o.batch /\ q.name = o.name
      BY <3>2
    <3>4. Opening(q)
      BY <3>3 DEF Opening, OpenInv
    <3> QED
      BY <3>1, <3>2, <3>4 DEF OpenInv
  <2> QED
    BY <2>1, <2>2
<1>4. \A q \in opening' : Opening(q)'
  BY <1>1, <1>2, <1>3 DEF Opening, batchVars
<1> QED
  BY <1>1, <1>2, <1>4 DEF OpenInv, RolesApart, RemainingIsExact, roleVars, batchVars

LEMMA CallbackStep ==
    ASSUME OpenInv, Observe, NEW o \in opening, on_name_opened(o)
    PROVE  OpenInv'
<1>1. opening' = opening \ {o} /\ UNCHANGED <<roleVars, nextId, live, approved, accounts>>
  BY DEF on_name_opened
<1>2. UNCHANGED <<granted, revoked>>
  BY <1>1 DEF Observe, OpenInv
<1>3. \A q \in opening' : Opening(q)'
  BY <1>1, <1>2 DEF OpenInv, Opening
<1>4. CASE UNCHANGED <<names, remaining>>
  BY <1>1, <1>2, <1>3, <1>4 DEF OpenInv, RolesApart, RemainingIsExact, roleVars
<1>5. CASE /\ o.batch \in live /\ o.name \notin names[o.batch]
           /\ names' = [names EXCEPT ![o.batch] = names[o.batch] \cup {o.name}]
           /\ remaining' = [remaining EXCEPT ![o.batch] = remaining[o.batch] + 1]
  <2>1. live \subseteq Ids /\ approved \subseteq Ids /\ NoBatch \notin Ids
    BY OpenerAssumption DEF OpenInv, Ids, NoBatch
  <2>2. /\ o.batch \in Ids /\ o.batch < nextId /\ o.name \in Names
        /\ o.name \in granted[o.batch]
    <3>1. Opening(o) /\ o.batch \in Ids /\ o.batch # NoBatch
      BY <1>5, <2>1 DEF OpenInv
    <3>2. o.batch \in 0..(nextId - 1) /\ nextId \in Nat
      BY <3>1 DEF Opening, OpenInv
    <3> QED
      BY <3>1, <3>2 DEF Opening
  <2>3. /\ names' \in [Ids -> SUBSET Names] /\ remaining' \in [Ids -> Int]
        /\ \A c \in Ids : c # o.batch => names'[c] = names[c]
        /\ names'[o.batch] = names[o.batch] \cup {o.name}
    BY <1>5, <2>2 DEF OpenInv
  <2>4. RemainingIsExact'
    BY <1>1, <1>5, <2>1, <2>2, OneMore DEF OpenInv, RemainingIsExact
  <2>5. \A c \in Ids : c >= nextId => names'[c] = {}
    BY <2>2, <2>3, OpenerAssumption DEF OpenInv, Ids
  <2>6. \A c \in approved : names'[c] \subseteq granted[c]
    BY <2>1, <2>2, <2>3 DEF OpenInv
  <2> QED
    BY <1>1, <1>2, <1>3, <2>3, <2>4, <2>5, <2>6 DEF OpenInv, RolesApart, roleVars
<1> QED
  BY <1>4, <1>5 DEF on_name_opened

LEMMA OpenInvStep == OpenInv /\ [HistoryNext]_historyVars => OpenInv'
<1>1. SUFFICES ASSUME OpenInv, [HistoryNext]_historyVars PROVE OpenInv'
  OBVIOUS
<1>2. CASE OpenerNext /\ Observe
  BY <1>1, <1>2, RoleStep, CreateStep, AddStep, ApproveStep, DiscardStep, ForgetStep, OpenStep,
     ReceiptStep, CallbackStep
  DEF OpenerNext, BatchCall, Receipt
<1>3. CASE UNCHANGED historyVars
  BY <1>1, <1>3
  DEF OpenInv, Opening, RolesApart, RemainingIsExact, historyVars, openerVars
<1> QED
  BY <1>1, <1>2, <1>3 DEF HistoryNext

-----------------------------------------------------------------------------

(* add_names, open_names, on_name_opened and forget_names keep the count   *)
(* of a live batch exact, whichever openings fail and whenever they answer.*)
THEOREM CountAlwaysExact == HistorySpec => []RemainingIsExact
BY OpenInvInit, OpenInvStep, OpenInvShows, PTL DEF HistorySpec

(* A batch opens only names it had when approve_batch saw it, and no       *)
(* number is given out twice.                                              *)
THEOREM OnlyGrantedEver == HistorySpec => []OnlyGrantedOpens
BY OpenInvInit, OpenInvStep, OpenInvShows, PTL DEF HistorySpec

(* change_operator, change_admin and accept_admin never give one account   *)
(* both roles.                                                             *)
THEOREM RolesAlwaysApart == HistorySpec => []RolesApart
BY OpenInvInit, OpenInvStep, OpenInvShows, PTL DEF HistorySpec

=============================================================================
