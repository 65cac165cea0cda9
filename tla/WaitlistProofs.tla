---------------------------- MODULE WaitlistProofs ----------------------------
(***************************************************************************)
(* Proofs about the waitlists: who is on them, that their heads wait for   *)
(* pools that are full, that nobody overtakes, and what the promotion loop *)
(* does.                                                                   *)
(***************************************************************************)
EXTENDS BookingLedgerProofs

------------------------------------------------------------------------------
(* What the calls do to the waitlists. *)

\* A booking waits or does not as before, and what is cancelled stays cancelled.
Stays(o) ==
  /\ booking'[o].state = "waitlisted" <=> Waiting(o)
  /\ StateOf(o) = "cancelled" => booking'[o].state = "cancelled"
  /\ Exists(o) => booking'[o].voyage = booking[o].voyage /\ booking'[o].kind = booking[o].kind

\* Calls that change no waitlist and free no slot.
Quiet ==
  /\ \A v \in Voyages :
       /\ voyage'[v].waitlist = voyage[v].waitlist
       /\ \A k \in Kinds : CanAllocateHold(voyage'[v], k) => CanAllocateHold(voyage[v], k)
  /\ \A o \in Bookings : Stays(o)

\* A new voyage has an empty waitlist, and nobody has asked for it before.
Opens(v) ==
  /\ ~VoyageExists(v)
  /\ voyage'[v].waitlist = <<>>
  /\ \A u \in Voyages \ {v} : voyage'[u] = voyage[u]
  /\ booking' = booking

\* The loser of a deposit race goes to the end of the list.
Joins(b) ==
  LET v == VoyageOf(b) IN
  /\ v \in Voyages
  /\ StateOf(b) = "space_allocated" /\ booking'[b].state = "waitlisted"
  /\ SameCargo(b) /\ Only(b)
  /\ \A u \in Voyages \ {v} : voyage'[u] = voyage[u]
  /\ voyage'[v].waitlist = IF OnWaitlist(voyage[v], b) THEN voyage[v].waitlist
                           ELSE Append(voyage[v].waitlist, b)
  /\ \A k \in Kinds : CanAllocateHold(voyage'[v], k) => CanAllocateHold(voyage[v], k)
  /\ ~CanAllocateHold(voyage'[v], booking[b].kind)

\* A rollback of b takes the first n entries off the list.
Drops(b, n) ==
  LET v == VoyageOf(b)
      L == voyage[v].waitlist
  IN
  /\ v \in Voyages
  /\ Exists(b) /\ StateOf(b) # "cancelled"
  /\ booking'[b].state = "cancelled" \/ (booking'[b].state = "pending_review" /\ Paid(b))
  /\ SameCargo(b)
  /\ \A u \in Voyages \ {v} : voyage'[u] = voyage[u]
  /\ voyage'[v].waitlist = SubSeq(L, n + 1, Len(L))
  /\ voyage'[v].capacity = voyage[v].capacity
  /\ \A k \in Kinds : InPool(voyage'[v].confirmed, k) = InPool(voyage[v].confirmed, k) \ {b}
  /\ \A i \in 1..n : Waiting(L[i]) => CanAllocateHold(voyage'[v], booking[L[i]].kind)
  /\ n < Len(L) => Waiting(L[n + 1]) /\ ~CanAllocateHold(voyage'[v], booking[L[n + 1]].kind)
  /\ \A o \in Bookings \ {b} :
       IF Waiting(o) /\ \E i \in 1..n : L[i] = o
       THEN booking'[o].state = "space_allocated" /\ SameCargo(o)
       ELSE booking'[o] = booking[o]

\* A booking that has not paid has no confirmed slot.
LEMMA UnpaidHasNoSlot ==
  ASSUME SpaceInv, NEW v \in Voyages, NEW b \in Bookings, ~Paid(b)
  PROVE  voyage[v].confirmed[b] = NoSlot
  BY DEF SpaceInv, SpaceFollowsState

\* The confirmed slots decide who gets a hold.
LEMMA SameRoom ==
  ASSUME NEW r, NEW w, NEW k, w.capacity = r.capacity, w.confirmed = r.confirmed
  PROVE  CanAllocateHold(w, k) <=> CanAllocateHold(r, k)
  BY DEF CanAllocateHold, confirmedCountFor

\* The loser of a deposit race joins the list.
LEMMA LoserJoins ==
  ASSUME SpaceInv, NEW b \in Bookings, NEW key \in DepositKeys \cup {None}, PayAndLose(b, key)
  PROVE  Joins(b)
<1> DEFINE v == VoyageOf(b)
           r == voyage[v]
           f == ReleaseSpace(r, b)
<1>1. TypeInv /\ StateOf(b) = "space_allocated"
  BY DEF SpaceInv, PayAndLose, MayPay
<1>2. v \in Voyages /\ r \in VoyageRecord
  BY <1>1 DEF TypeInv, TypeOK, Placed, Exists, StateOf
<1>3. /\ \A u \in Voyages \ {v} : voyage'[u] = voyage[u]
      /\ voyage'[v] = AddToWaitlist(f, b)
  BY <1>1, <1>2 DEF PayAndLose, TypeInv, TypeOK
<1>4. f.confirmed = r.confirmed /\ f.capacity = r.capacity /\ f.waitlist = r.waitlist
  <2>1. r.confirmed[b] = NoSlot
    BY <1>1, <1>2, UnpaidHasNoSlot DEF Paid
  <2>2. f.confirmed = [r.confirmed EXCEPT ![b] = NoSlot] /\ f.capacity = r.capacity
        /\ f.waitlist = r.waitlist
    BY <1>2 DEF ReleaseSpace, VoyageRecord
  <2>3. r.confirmed \in [Bookings -> Slot]
    BY <1>2 DEF VoyageRecord
  <2>4. QED
    BY <2>1, <2>2, <2>3
<1>5. /\ voyage'[v].confirmed = r.confirmed /\ voyage'[v].capacity = r.capacity
      /\ voyage'[v].waitlist = IF OnWaitlist(r, b) THEN r.waitlist ELSE Append(r.waitlist, b)
  <2>1. f \in VoyageRecord
    BY <1>2, ReleaseSpaceType
  <2>2. OnWaitlist(f, b) <=> OnWaitlist(r, b)
    BY <1>4 DEF OnWaitlist
  <2>3. QED
    BY <1>3, <1>4, <2>1, <2>2 DEF AddToWaitlist, VoyageRecord
<1>6. \A k : CanAllocateHold(voyage'[v], k) <=> CanAllocateHold(r, k)
  BY <1>5, SameRoom
<1>7. ~CanAllocateHold(r, booking[b].kind)
  <2>1. r.holds[b] # NoSlot /\ r.holds[b].kind \in {booking[b].kind, "none"}
    BY <1>1, <1>2 DEF SpaceInv, SpaceFollowsState
  <2>2. r.holds[b] \in Slot
    BY <1>2 DEF VoyageRecord
  <2>3. r.holds[b].kind = booking[b].kind /\ booking[b].kind \in Kinds
    BY <2>1, <2>2 DEF Slot, NoSlot, Kinds
  <2>4. confirmedCountFor(r, booking[b].kind) >= r.capacity[booking[b].kind]
    BY <2>3 DEF PayAndLose, Saturated
  <2>5. confirmedCountFor(r, booking[b].kind) \in Nat /\ r.capacity[booking[b].kind] \in Nat
    BY <1>2, <2>3, PoolFinite DEF confirmedCountFor, VoyageRecord
  <2>6. QED
    BY <2>4, <2>5 DEF CanAllocateHold
<1>8. booking'[b].state = "waitlisted" /\ SameCargo(b) /\ Only(b)
  BY <1>1, LoseEffect DEF Moves
<1>9. QED
  BY <1>1, <1>2, <1>3, <1>5, <1>6, <1>7, <1>8 DEF Joins

\* A rollback works off the list until it meets a booking whose pool is full.
LEMMA RollbackDrops ==
  ASSUME SpaceInv, NEW b \in Bookings, NEW target, RollsBack(b, target)
  PROVE  \E n \in 0..Len(voyage[VoyageOf(b)].waitlist) : Drops(b, n)
<1> DEFINE v == VoyageOf(b)
           r == voyage[v]
           L == r.waitlist
           f == ReleaseSpace(r, b)
<1>1. TypeInv /\ StateOf(b) # "absent" /\ StateOf(b) # "cancelled"
  BY DEF SpaceInv, RollsBack
<1>2. v \in Voyages /\ r \in VoyageRecord /\ voyage \in [Voyages -> VoyageRecord]
  BY <1>1 DEF TypeInv, TypeOK, Placed, Exists, StateOf
<1>3. f.waitlist = L /\ f \in VoyageRecord
  <2>1. f \in VoyageRecord
    BY <1>2, ReleaseSpaceType
  <2>2. f.waitlist = L
    BY <1>2 DEF ReleaseSpace, VoyageRecord
  <2>3. QED
    BY <2>1, <2>2
<1>4. PICK n \in 0..Len(L) :
        /\ LoopStopsAt(f, n)
        /\ voyage' = [voyage EXCEPT ![v] = PromoteWaitlist(f, n)]
        /\ booking' = [o \in Bookings |->
             IF o = b THEN [booking[b] EXCEPT !.state = target, !.locked = FALSE]
             ELSE IF o \in Promoted(f, n)
                  THEN [booking[o] EXCEPT !.state = "space_allocated"]
                  ELSE booking[o]]
  BY <1>3 DEF RollsBack, RollbackTo
<1>5. n \in Nat /\ Len(L) \in Nat /\ L \in Seq(Bookings)
  BY <1>2 DEF VoyageRecord
<1>6. voyage'[v] = PromoteWaitlist(f, n) /\ \A u \in Voyages \ {v} : voyage'[u] = voyage[u]
  BY <1>2, <1>4
<1>7. /\ voyage'[v].waitlist = SubSeq(L, n + 1, Len(L))
      /\ voyage'[v].confirmed = f.confirmed /\ voyage'[v].capacity = f.capacity
  BY <1>3, <1>6 DEF PromoteWaitlist, AllocateHolds, VoyageRecord
<1>8. ASSUME n < Len(L)
      PROVE  Waiting(L[n + 1]) /\ ~CanAllocateHold(voyage'[v], booking[L[n + 1]].kind)
  <2>1. Waiting(L[n + 1]) /\ ~CanAllocateHold(f, booking[L[n + 1]].kind)
    BY <1>3, <1>4, <1>8 DEF LoopStopsAt, Stuck
  <2>2. QED
    BY <1>7, <2>1, SameRoom
<1>9. ASSUME NEW o \in Bookings \ {b}
      PROVE  IF Waiting(o) /\ \E i \in 1..n : L[i] = o
             THEN booking'[o].state = "space_allocated" /\ SameCargo(o)
             ELSE booking'[o] = booking[o]
  <2>1. o \in Promoted(f, n) <=> (Waiting(o) /\ \E i \in 1..n : L[i] = o)
    BY <1>3 DEF Promoted
  <2>2. booking[o] \in BookingRecord
    BY <1>1 DEF TypeInv, TypeOK
  <2>3. booking'[o] = IF o \in Promoted(f, n)
                      THEN [booking[o] EXCEPT !.state = "space_allocated"] ELSE booking[o]
    BY <1>4
  <2>4. QED
    BY <2>1, <2>2, <2>3 DEF SameCargo, BookingRecord
<1>10. booking'[b].state = target /\ SameCargo(b)
  BY <1>1, RollbackBookings
<1>11. target = "cancelled" \/ (target = "pending_review" /\ Paid(b))
  BY DEF RollsBack
<1>12. ASSUME NEW i \in 1..n, Waiting(L[i])
       PROVE  CanAllocateHold(voyage'[v], booking[L[i]].kind)
  <2>1. CanAllocateHold(f, booking[L[i]].kind)
    BY <1>3, <1>4, <1>12 DEF LoopStopsAt, Stuck
  <2>2. QED
    BY <1>7, <2>1, SameRoom
<1>13. voyage'[v].capacity = r.capacity
  BY <1>2, <1>7 DEF ReleaseSpace, VoyageRecord
<1>14. ASSUME NEW k \in Kinds
       PROVE  InPool(voyage'[v].confirmed, k) = InPool(r.confirmed, k) \ {b}
  <2>1. f.confirmed = [r.confirmed EXCEPT ![b] = NoSlot] /\ r.confirmed \in [Bookings -> Slot]
    BY <1>2 DEF ReleaseSpace, VoyageRecord
  <2>2. NoSlot.kind # k
    BY DEF NoSlot, Kinds
  <2>3. QED
    BY <1>7, <2>1, <2>2 DEF InPool
<1>15. Drops(b, n)
  BY <1>1, <1>2, <1>6, <1>7, <1>8, <1>9, <1>10, <1>11, <1>12, <1>13, <1>14
    DEF Drops, Exists, StateOf
<1>16. QED
  BY <1>15

\* Calls that move b on keep everybody's place in the lists.
LEMMA MovesStays ==
  ASSUME NEW b \in Bookings, NEW from, NEW to, Moves(b, from, to),
         from = to \/ (from \notin {"waitlisted", "cancelled"} /\ to # "waitlisted"),
         NEW o \in Bookings
  PROVE  Stays(o)
<1>1. CASE o = b
  BY <1>1 DEF Moves, Stays, SameCargo, Waiting, StateOf
<1>2. CASE o # b
  BY <1>2 DEF Moves, Only, Stays, Waiting, StateOf
<1>3. QED
  BY <1>1, <1>2

\* A step along the flow neither takes a booking off the list nor puts it on.
LEMMA AdvanceStays ==
  ASSUME TypeInv, NEW b \in Bookings, Advance(b), NEW o \in Bookings
  PROVE  Stays(o)
<1>1. CASE \E cert \in Certificates \cup {None} : SubmitDocuments(b, cert)
  BY <1>1, SubmitEffect DEF Only, Stays, SameCargo, Waiting, StateOf
<1>2. CASE \E bill \in Bills : BindBill(b, bill)
  BY <1>2, BillEffect DEF Only, Stays, SameCargo, Waiting, StateOf
<1>3. CASE Requeue(b)
  BY <1>3, RequeueEffect DEF Only, Stays, SameCargo, Waiting, StateOf
<1>4. CASE \/ Moves(b, "docs_submitted", "storage_verified")
           \/ Moves(b, "storage_verified", "space_allocated")
           \/ Moves(b, "deposit_paid", "customs_released")
           \/ Moves(b, "customs_released", "confirmed")
           \/ Moves(b, StateOf(b), StateOf(b))
  BY <1>4, MovesStays
<1>5. QED
  BY <1>1, <1>2, <1>3, <1>4 DEF Advance

\* A hold that is given leaves the confirmed slots as they are.
LEMMA AllocateIsQuiet ==
  ASSUME SpaceInv, NEW b \in Bookings, AllocateSpace(b)
  PROVE  Quiet
<1> DEFINE v == VoyageOf(b)
           w == AllocateHolds(voyage[v], {b}, KindOf, now + HoldDuration)
<1>1. TypeInv /\ voyage \in [Voyages -> VoyageRecord]
  BY DEF SpaceInv, TypeInv, TypeOK
<1>2. voyage' = [voyage EXCEPT ![v] = w]
  BY DEF AllocateSpace, MayAllocate
<1>3. ASSUME NEW u \in Voyages
      PROVE  /\ voyage'[u].waitlist = voyage[u].waitlist
             /\ voyage'[u].confirmed = voyage[u].confirmed
             /\ voyage'[u].capacity = voyage[u].capacity
  BY <1>1, <1>2 DEF AllocateHolds, VoyageRecord
<1>4. Moves(b, "storage_verified", "space_allocated")
  BY <1>1, MovesBy DEF AllocateSpace, MayAllocate
<1>5. \A o \in Bookings : Stays(o)
  BY <1>4, MovesStays
<1>6. QED
  BY <1>3, <1>5, SameRoom DEF Quiet

\* A deposit that wins uses up a slot.
LEMMA WinIsQuiet ==
  ASSUME SpaceInv, NEW b \in Bookings, NEW key \in DepositKeys \cup {None}, PayAndWin(b, key)
  PROVE  Quiet
<1> DEFINE v == VoyageOf(b)
           r == voyage[v]
           w == ConfirmSpace(r, b)
<1>1. TypeInv /\ voyage \in [Voyages -> VoyageRecord] /\ StateOf(b) = "space_allocated"
  BY DEF SpaceInv, TypeInv, TypeOK, PayAndWin, MayPay
<1>2. v \in Voyages /\ r \in VoyageRecord
  BY <1>1 DEF TypeInv, TypeOK, Placed, Exists, StateOf
<1>3. voyage'[v] = w /\ \A u \in Voyages \ {v} : voyage'[u] = voyage[u]
  BY <1>1, <1>2 DEF PayAndWin
<1>4. /\ w.waitlist = r.waitlist /\ w.capacity = r.capacity
      /\ \A a \in Bookings \ {b} : w.confirmed[a] = r.confirmed[a]
  BY <1>2 DEF ConfirmSpace, VoyageRecord
<1>5. r.confirmed[b] = NoSlot
  BY <1>1, <1>2, UnpaidHasNoSlot DEF Paid
<1>6. ASSUME NEW k \in Kinds, CanAllocateHold(w, k)
      PROVE  CanAllocateHold(r, k)
  <2>1. \A a \in Bookings : r.confirmed[a].kind = k => w.confirmed[a].kind = k
    BY <1>4, <1>5 DEF NoSlot, Kinds
  <2>2. Cardinality(InPool(r.confirmed, k)) <= Cardinality(InPool(w.confirmed, k))
    BY <2>1, PoolMonotone
  <2>3. /\ Cardinality(InPool(r.confirmed, k)) \in Nat
        /\ Cardinality(InPool(w.confirmed, k)) \in Nat
        /\ r.capacity[k] \in Nat
    BY <1>2, PoolFinite DEF VoyageRecord
  <2>4. QED
    BY <1>4, <1>6, <2>2, <2>3 DEF CanAllocateHold, confirmedCountFor
<1>7. \A o \in Bookings : Stays(o)
  <2>1. Moves(b, "space_allocated", "deposit_paid")
    BY <1>1, WinEffect
  <2>2. QED
    BY <2>1, MovesStays
<1>8. ASSUME NEW u \in Voyages
      PROVE  /\ voyage'[u].waitlist = voyage[u].waitlist
             /\ \A k \in Kinds : CanAllocateHold(voyage'[u], k) => CanAllocateHold(voyage[u], k)
  BY <1>3, <1>4, <1>6
<1>9. QED
  BY <1>7, <1>8 DEF Quiet

\* Every step is one of these.
LEMMA QueueCases ==
  ASSUME SpaceInv, [Next]_vars
  PROVE  \/ Quiet
         \/ \E v \in Voyages : Opens(v)
         \/ \E b \in Bookings :
              \/ Joins(b)
              \/ \E n \in 0..Len(voyage[VoyageOf(b)].waitlist) : Drops(b, n)
<1> DEFINE Goal == \/ Quiet
                   \/ \E v \in Voyages : Opens(v)
                   \/ \E b \in Bookings :
                        \/ Joins(b)
                        \/ \E n \in 0..Len(voyage[VoyageOf(b)].waitlist) : Drops(b, n)
<1>1. TypeInv /\ voyage \in [Voyages -> VoyageRecord]
  BY DEF SpaceInv, TypeInv, TypeOK
<1>2. ASSUME NEW b \in Bookings, NEW key \in DepositKeys \cup {None},
             PayAndWin(b, key) \/ PayAndLose(b, key)
      PROVE  Goal
  BY <1>2, WinIsQuiet, LoserJoins
<1>3. ASSUME NEW b \in Bookings, NEW target, RollsBack(b, target)
      PROVE  Goal
  BY <1>3, RollbackDrops
<1>4. CASE voyage' = voyage
  <2>1. ASSUME \A o \in Bookings : Stays(o)
        PROVE  Quiet
    BY <1>4, <2>1 DEF Quiet
  <2>2. CASE Surroundings
    BY <2>1, <2>2 DEF Surroundings, Stays, Waiting, StateOf
  <2>3. ASSUME NEW b \in Bookings, NEW req \in Requests, Create(b, req)
        PROVE  Quiet
    BY <1>1, <2>1, <2>3, CreateEffect DEF Only, Stays, Waiting, Exists, StateOf
  <2>4. ASSUME NEW b \in Bookings, NEW s \in Locations, VerifyDangerous(b, s)
        PROVE  Quiet
    BY <1>1, <2>1, <2>4, VerifyEffect DEF Only, Stays, SameCargo, Waiting, StateOf
  <2>5. ASSUME NEW b \in Bookings, Advance(b)
        PROVE  Quiet
    BY <1>1, <2>1, <2>5, AdvanceStays
  <2>6. QED
    BY <1>1, <1>2, <1>3, <2>2, <2>3, <2>4, <2>5, StepCases
<1>5. ASSUME NEW v \in Voyages, NEW req \in VoyageRequests, CreateVoyage(v, req)
      PROVE  Goal
  <2>1. Opens(v)
    BY <1>1, <1>5 DEF CreateVoyage, NewVoyage, Opens
  <2>2. QED
    BY <2>1
<1>6. QED
  BY <1>1, <1>2, <1>3, <1>4, <1>5, AllocateIsQuiet, VoyageCases

------------------------------------------------------------------------------
(* Who is on the lists. *)

\* Nobody waits unlisted.
Listed == \A v \in Voyages, b \in Bookings :
            Waiting(b) /\ VoyageOf(b) = v => OnWaitlist(voyage[v], b)

\* An entry is a waiting or a cancelled booking of the voyage, and listed once.
EntryOf(v, i) ==
  LET b == voyage[v].waitlist[i] IN
  /\ VoyageOf(b) = v
  /\ StateOf(b) \in {"waitlisted", "cancelled"}
  /\ \A j \in DOMAIN voyage[v].waitlist : voyage[v].waitlist[j] = b => j = i

Entries == \A v \in Voyages : \A i \in DOMAIN voyage[v].waitlist : EntryOf(v, i)

\* The two halves of WaitlistFollowsState.
LEMMA WaitlistParts == WaitlistFollowsState <=> (Listed /\ Entries)
  BY DEF WaitlistFollowsState, Listed, Entries, EntryOf

\* The list after n entries have been dropped.
LEMMA Dropped ==
  ASSUME NEW L \in Seq(Bookings), NEW n \in 0..Len(L), NEW q, q = SubSeq(L, n + 1, Len(L))
  PROVE  /\ n \in Nat /\ Len(L) \in Nat /\ DOMAIN L = 1..Len(L)
         /\ DOMAIN q = 1..(Len(L) - n) /\ Len(q) = Len(L) - n
         /\ \A i \in DOMAIN q : n + i \in DOMAIN L /\ q[i] = L[n + i]
         /\ \A j \in DOMAIN L : j > n => j - n \in DOMAIN q /\ q[j - n] = L[j]
<1>1. Len(L) \in Nat /\ DOMAIN L = 1..Len(L) /\ n \in Nat
  BY LenProperties
<1>2. /\ DOMAIN q = 1..(Len(L) - n)
      /\ \A i \in 1..(Len(L) - n) : q[i] = L[n + i]
  BY <1>1, SubSeqProperties
<1>3. Len(q) = Len(L) - n
  <2>1. q \in Seq(Bookings)
    BY DropFirst
  <2>2. DOMAIN q = 1..Len(q) /\ Len(q) \in Nat
    BY <2>1, LenProperties
  <2>3. QED
    BY <1>1, <1>2, <2>2
<1>4. ASSUME NEW i \in 1..(Len(L) - n)
      PROVE  n + i \in 1..Len(L)
  BY <1>1
<1>5. ASSUME NEW j \in 1..Len(L), j > n
      PROVE  j - n \in 1..(Len(L) - n) /\ q[j - n] = L[j]
  <2>1. j - n \in 1..(Len(L) - n) /\ n + (j - n) = j
    BY <1>1, <1>5
  <2>2. QED
    BY <1>2, <2>1
<1>6. QED
  BY <1>1, <1>2, <1>3, <1>4, <1>5

\* The list after b has been appended to it.
LEMMA Appended ==
  ASSUME NEW L \in Seq(Bookings), NEW b, NEW q, q = Append(L, b)
  PROVE  /\ Len(L) \in Nat /\ DOMAIN L = 1..Len(L) /\ DOMAIN q = 1..(Len(L) + 1)
         /\ \A i \in DOMAIN L : q[i] = L[i]
         /\ q[Len(L) + 1] = b
  BY LenProperties

\* A list that does not change, of bookings that stay.
LEMMA SameList ==
  ASSUME SpaceInv, Listed, Entries, NEW v \in Voyages, voyage'[v].waitlist = voyage[v].waitlist,
         \A o \in Bookings : VoyageOf(o) = v => Stays(o),
         \A o \in Bookings : Exists(o) => booking'[o].voyage = booking[o].voyage,
         \A o \in Bookings : booking'[o].state = "waitlisted" => Exists(o)
  PROVE  /\ \A o \in Bookings : Waiting(o)' /\ VoyageOf(o)' = v => OnWaitlist(voyage[v], o)'
         /\ \A i \in DOMAIN voyage'[v].waitlist : EntryOf(v, i)'
<1>1. ASSUME NEW o \in Bookings, Waiting(o)', VoyageOf(o)' = v
      PROVE  OnWaitlist(voyage[v], o)'
  <2>1. VoyageOf(o) = v
    BY <1>1 DEF Waiting, StateOf, VoyageOf
  <2>2. Waiting(o)
    BY <1>1, <2>1 DEF Stays, Waiting, StateOf
  <2>3. QED
    BY <2>1, <2>2 DEF Listed, OnWaitlist
<1>2. ASSUME NEW i \in DOMAIN voyage'[v].waitlist
      PROVE  EntryOf(v, i)'
  <2>1. EntryOf(v, i) /\ i \in DOMAIN voyage[v].waitlist
    BY <1>2 DEF Entries
  <2>2. PICK b \in Bookings : b = voyage[v].waitlist[i] /\ Exists(b)
    BY <2>1, ListedBookings DEF Exists
  <2>3. booking'[b].voyage = v /\ booking'[b].state \in {"waitlisted", "cancelled"}
    BY <2>1, <2>2 DEF EntryOf, Stays, VoyageOf, StateOf, Waiting
  <2>4. QED
    BY <2>1, <2>2, <2>3 DEF EntryOf, VoyageOf, StateOf
<1>3. QED
  BY <1>1, <1>2

\* Nobody's entry changes when everybody stays.
LEMMA QuietLists ==
  ASSUME SpaceInv, Listed, Entries, Quiet
  PROVE  Listed' /\ Entries'
<1>1. \A o \in Bookings : /\ Stays(o)
                          /\ Exists(o) => booking'[o].voyage = booking[o].voyage
                          /\ booking'[o].state = "waitlisted" => Exists(o)
  BY DEF Quiet, Stays, Waiting, Exists, StateOf
<1>2. \A v \in Voyages : voyage'[v].waitlist = voyage[v].waitlist
  BY DEF Quiet
<1>3. ASSUME NEW v \in Voyages
      PROVE  /\ \A o \in Bookings : Waiting(o)' /\ VoyageOf(o)' = v => OnWaitlist(voyage[v], o)'
             /\ \A i \in DOMAIN voyage'[v].waitlist : EntryOf(v, i)'
  BY <1>1, <1>2, SameList
<1>4. QED
  BY <1>3 DEF Listed, Entries

\* A new voyage has nobody to list.
LEMMA OpensLists ==
  ASSUME SpaceInv, Listed, Entries, NEW v \in Voyages, Opens(v)
  PROVE  Listed' /\ Entries'
<1>1. \A o \in Bookings : Stays(o) /\ (booking'[o].state = "waitlisted" => Exists(o))
  BY DEF Opens, Stays, Waiting, Exists, StateOf
<1>2. ASSUME NEW u \in Voyages \ {v}
      PROVE  /\ \A o \in Bookings : Waiting(o)' /\ VoyageOf(o)' = u => OnWaitlist(voyage[u], o)'
             /\ \A i \in DOMAIN voyage'[u].waitlist : EntryOf(u, i)'
  <2>1. voyage'[u].waitlist = voyage[u].waitlist /\ booking' = booking
    BY DEF Opens
  <2>2. QED
    BY <1>1, <2>1, SameList
<1>3. ASSUME NEW o \in Bookings
      PROVE  ~(Waiting(o)' /\ VoyageOf(o)' = v)
  BY DEF Opens, Waiting, StateOf, VoyageOf, SpaceInv, Sails, Exists
<1>4. voyage'[v].waitlist = <<>>
  BY DEF Opens
<1>5. Listed'
  BY <1>2, <1>3 DEF Listed
<1>6. Entries'
  BY <1>2, <1>4 DEF Entries
<1>7. QED
  BY <1>5, <1>6

\* The loser of a deposit race was not on the list and is now.
LEMMA JoinsLists ==
  ASSUME SpaceInv, Listed, Entries, NEW b \in Bookings, Joins(b),
         NEW v \in Voyages, VoyageOf(b) = v
  PROVE  Listed' /\ Entries'
<1> DEFINE L == voyage[v].waitlist
           q == voyage'[v].waitlist
<1>1. v \in Voyages /\ L \in Seq(Bookings)
  BY DEF Joins, SpaceInv, TypeInv, TypeOK, VoyageRecord
<1>2. \A i \in DOMAIN L : L[i] # b
  BY <1>1 DEF Joins, Entries, EntryOf, StateOf
<1>3. q = Append(L, b)
  BY <1>2 DEF Joins, OnWaitlist
<1>4. /\ Len(L) \in Nat /\ DOMAIN L = 1..Len(L) /\ DOMAIN q = 1..(Len(L) + 1)
      /\ \A i \in DOMAIN L : q[i] = L[i]
      /\ q[Len(L) + 1] = b
  BY <1>1, <1>3, Appended
<1>5. /\ booking'[b].state = "waitlisted" /\ booking'[b].voyage = v
      /\ \A o \in Bookings \ {b} : booking'[o] = booking[o]
  BY DEF Joins, SameCargo, Only, VoyageOf
<1>6. \A o \in Bookings : /\ o # b => Stays(o)
                          /\ booking'[o].voyage = booking[o].voyage
                          /\ booking'[o].state = "waitlisted" => Exists(o)
  BY <1>5 DEF Joins, Stays, Waiting, Exists, StateOf, VoyageOf
<1>7. ASSUME NEW u \in Voyages \ {v}
      PROVE  /\ \A o \in Bookings : Waiting(o)' /\ VoyageOf(o)' = u => OnWaitlist(voyage[u], o)'
             /\ \A i \in DOMAIN voyage'[u].waitlist : EntryOf(u, i)'
  <2>1. voyage'[u].waitlist = voyage[u].waitlist
    BY DEF Joins
  <2>2. QED
    BY <1>6, <2>1, SameList
<1>8. ASSUME NEW o \in Bookings, Waiting(o)', VoyageOf(o)' = v
      PROVE  OnWaitlist(voyage[v], o)'
  <2>1. CASE o = b
    <3>1. Len(L) + 1 \in DOMAIN q
      BY <1>4
    <3>2. QED
      BY <1>4, <2>1, <3>1 DEF OnWaitlist, VoyageOf
  <2>2. CASE o # b
    <3>1. Waiting(o) /\ VoyageOf(o) = v
      BY <1>5, <1>8, <2>2 DEF Waiting, StateOf, VoyageOf
    <3>2. PICK i \in DOMAIN L : L[i] = o
      BY <1>1, <3>1 DEF Listed, OnWaitlist
    <3>3. i \in DOMAIN q /\ q[i] = o
      BY <1>4, <3>2
    <3>4. QED
      BY <3>3 DEF OnWaitlist
  <2>3. QED
    BY <2>1, <2>2
<1>9. ASSUME NEW i \in DOMAIN q
      PROVE  EntryOf(v, i)'
  <2>1. CASE i = Len(L) + 1
    <3>1. q[i] = b /\ \A j \in DOMAIN q : q[j] = b => j = i
      BY <1>2, <1>4, <2>1
    <3>2. QED
      BY <1>5, <3>1 DEF EntryOf, VoyageOf, StateOf
  <2>2. CASE i \in DOMAIN L
    <3>1. PICK o \in Bookings : o = L[i]
      BY <1>1, <2>2, ListedBookings
    <3>2. /\ VoyageOf(o) = v /\ StateOf(o) \in {"waitlisted", "cancelled"}
          /\ \A j \in DOMAIN L : L[j] = o => j = i
      BY <1>1, <2>2, <3>1 DEF Entries, EntryOf
    <3>3. o # b /\ booking'[o] = booking[o]
      BY <1>2, <1>5, <2>2, <3>1
    <3>4. q[i] = o /\ \A j \in DOMAIN q : q[j] = o => j = i
      BY <1>4, <2>2, <3>1, <3>2, <3>3
    <3>5. QED
      BY <3>2, <3>3, <3>4 DEF EntryOf, VoyageOf, StateOf
  <2>3. QED
    BY <1>4, <2>1, <2>2
<1>10. Listed'
  BY <1>7, <1>8 DEF Listed
<1>11. Entries'
  BY <1>7, <1>9 DEF Entries
<1>12. QED
  BY <1>10, <1>11

\* A rollback drops entries that are promoted or were cancelled, and keeps the rest.
LEMMA DropsLists ==
  ASSUME SpaceInv, Listed, Entries, NEW b \in Bookings,
         NEW v \in Voyages, VoyageOf(b) = v,
         NEW n \in 0..Len(voyage[v].waitlist), Drops(b, n)
  PROVE  Listed' /\ Entries'
<1> DEFINE L == voyage[v].waitlist
           q == voyage'[v].waitlist
           Taken(o) == \E i \in 1..n : L[i] = o
<1>1. L \in Seq(Bookings) /\ q = SubSeq(L, n + 1, Len(L)) /\ n \in 0..Len(L)
  BY DEF Drops, SpaceInv, TypeInv, TypeOK, VoyageRecord
<1>2. /\ n \in Nat /\ Len(L) \in Nat /\ DOMAIN L = 1..Len(L)
      /\ DOMAIN q = 1..(Len(L) - n)
      /\ \A i \in DOMAIN q : n + i \in DOMAIN L /\ q[i] = L[n + i]
      /\ \A j \in DOMAIN L : j > n => j - n \in DOMAIN q /\ q[j - n] = L[j]
  <2> HIDE DEF L, q
  <2>1. QED
    BY <1>1, Dropped
<1>3. /\ booking'[b].state = "cancelled" \/ (booking'[b].state = "pending_review" /\ Paid(b))
      /\ booking'[b].voyage = v /\ StateOf(b) # "cancelled" /\ Exists(b)
  BY DEF Drops, SameCargo, VoyageOf
<1>4. \A o \in Bookings \ {b} :
        IF Waiting(o) /\ Taken(o)
        THEN booking'[o].state = "space_allocated" /\ booking'[o].voyage = booking[o].voyage
        ELSE booking'[o] = booking[o]
  BY DEF Drops, SameCargo
<1>5. \A o \in Bookings : Taken(o) => VoyageOf(o) = v
  <2>1. \A i \in 1..n : i \in DOMAIN L
    BY <1>2
  <2>2. QED
    BY <2>1 DEF Entries, EntryOf
<1>6. \A o \in Bookings :
        /\ booking'[o].voyage = booking[o].voyage
        /\ booking'[o].state = "waitlisted" => Waiting(o) /\ booking'[o] = booking[o]
  BY <1>3, <1>4 DEF Waiting, StateOf, VoyageOf
<1>7. ASSUME NEW u \in Voyages \ {v}
      PROVE  /\ \A o \in Bookings : Waiting(o)' /\ VoyageOf(o)' = u => OnWaitlist(voyage[u], o)'
             /\ \A i \in DOMAIN voyage'[u].waitlist : EntryOf(u, i)'
  <2>1. voyage'[u].waitlist = voyage[u].waitlist
    BY DEF Drops
  <2>2. \A o \in Bookings : VoyageOf(o) = u => Stays(o)
    BY <1>4, <1>5 DEF Stays, Waiting, StateOf, VoyageOf
  <2>3. \A o \in Bookings : booking'[o].state = "waitlisted" => Exists(o)
    BY <1>6 DEF Waiting, Exists, StateOf
  <2>4. QED
    BY <1>6, <2>1, <2>2, <2>3, SameList
<1>8. ASSUME NEW o \in Bookings, Waiting(o)', VoyageOf(o)' = v
      PROVE  OnWaitlist(voyage[v], o)'
  <2>1. Waiting(o) /\ VoyageOf(o) = v /\ o # b
    BY <1>3, <1>6, <1>8 DEF Waiting, StateOf, VoyageOf
  <2>2. ~Taken(o)
    BY <1>4, <1>8, <2>1 DEF Waiting, StateOf
  <2>3. PICK j \in DOMAIN L : L[j] = o
    BY <2>1 DEF Listed, OnWaitlist
  <2>4. j > n
    BY <1>2, <2>2, <2>3
  <2>5. j - n \in DOMAIN q /\ q[j - n] = o
    BY <1>2, <2>3, <2>4
  <2>6. QED
    BY <2>5 DEF OnWaitlist
<1>9. ASSUME NEW i \in DOMAIN q
      PROVE  EntryOf(v, i)'
  <2>1. n + i \in DOMAIN L /\ q[i] = L[n + i]
    BY <1>2
  <2>2. PICK o \in Bookings : o = L[n + i]
    BY <2>1, ListedBookings
  <2>3. /\ VoyageOf(o) = v /\ StateOf(o) \in {"waitlisted", "cancelled"}
        /\ \A j \in DOMAIN L : L[j] = o => j = n + i
    BY <2>1, <2>2 DEF Entries, EntryOf
  <2>4. ~Taken(o)
    <3>1. ASSUME NEW j \in 1..n, L[j] = o
          PROVE  FALSE
      <4>1. j \in DOMAIN L
        BY <1>2
      <4>2. j = n + i
        BY <2>3, <3>1, <4>1
      <4>3. QED
        BY <1>2, <4>2
    <3>2. QED
      BY <3>1
  <2>5. booking'[o].voyage = v /\ booking'[o].state \in {"waitlisted", "cancelled"}
    <3>1. CASE o = b
      BY <1>3, <2>3, <3>1 DEF Paid, StateOf
    <3>2. CASE o # b
      BY <1>4, <2>3, <2>4, <3>2 DEF StateOf, VoyageOf
    <3>3. QED
      BY <3>1, <3>2
  <2>6. ASSUME NEW j \in DOMAIN q, q[j] = o
        PROVE  j = i
    <3>1. n + j \in DOMAIN L /\ L[n + j] = o
      BY <1>2, <2>6
    <3>2. n + j = n + i
      BY <2>3, <3>1
    <3>3. QED
      BY <1>2, <3>2
  <2>7. q[i] = o
    BY <2>1, <2>2
  <2>8. QED
    BY <2>5, <2>6, <2>7 DEF EntryOf, VoyageOf, StateOf
<1>10. Listed'
  BY <1>7, <1>8 DEF Listed
<1>11. Entries'
  BY <1>7, <1>9 DEF Entries
<1>12. QED
  BY <1>10, <1>11

\* Every step keeps the lists in line with the bookings.
LEMMA WaitlistStep == SpaceInv /\ WaitlistFollowsState /\ [Next]_vars => WaitlistFollowsState'
<1> SUFFICES ASSUME SpaceInv, WaitlistFollowsState, [Next]_vars
             PROVE  WaitlistFollowsState'
  OBVIOUS
<1>1. Listed /\ Entries
  BY WaitlistParts
<1>2. ASSUME NEW b \in Bookings, Joins(b)
      PROVE  Listed' /\ Entries'
  <2>1. VoyageOf(b) \in Voyages
    BY <1>2 DEF Joins
  <2>2. QED
    BY <1>1, <1>2, <2>1, JoinsLists
<1>3. ASSUME NEW b \in Bookings, NEW n \in 0..Len(voyage[VoyageOf(b)].waitlist), Drops(b, n)
      PROVE  Listed' /\ Entries'
  <2>1. VoyageOf(b) \in Voyages
    BY <1>3 DEF Drops
  <2>2. QED
    BY <1>1, <1>3, <2>1, DropsLists
<1>4. Listed' /\ Entries'
  BY <1>1, <1>2, <1>3, QuietLists, OpensLists, QueueCases
<1>5. QED
  BY <1>4 DEF WaitlistFollowsState, Listed, Entries, EntryOf

\* Nobody waits unlisted and nobody is listed twice, whoever loses, cancels,
\* is rejected or is promoted in whatever order.
THEOREM WaitlistFollowsBookings == Spec => []WaitlistFollowsState
<1>1. Init => WaitlistFollowsState
  BY DEF Init, NoBooking, NoVoyage, NewVoyage, WaitlistFollowsState, Waiting, StateOf
<1>2. QED
  BY <1>1, SpaceInit, SpaceStep, WaitlistStep, PTL DEF Spec

------------------------------------------------------------------------------
(* The heads of the lists. *)

\* One conjunct of HeadIsBlocked.
HeadOf(v) ==
  voyage[v].waitlist # <<>> => ~CanAllocateHold(voyage[v], booking[Head(voyage[v].waitlist)].kind)

\* The first entry of a list is a booking with a cargo class.
LEMMA HeadIsBooking ==
  ASSUME SpaceInv, NEW v \in Voyages, NEW i \in DOMAIN voyage[v].waitlist
  PROVE  \E o \in Bookings : o = voyage[v].waitlist[i] /\ Exists(o) /\ booking[o].kind \in Kinds
<1>1. PICK o \in Bookings : o = voyage[v].waitlist[i] /\ Exists(o)
  BY ListedBookings DEF Exists
<1>2. booking[o].kind \in Kinds
  BY <1>1 DEF SpaceInv, TypeInv, Placed
<1>3. QED
  BY <1>1, <1>2

\* A list whose head stays and whose pool does not get room.
LEMMA HeadFrame ==
  ASSUME SpaceInv, NEW v \in Voyages, HeadOf(v),
         voyage'[v].waitlist # <<>> =>
           voyage[v].waitlist # <<>> /\ Head(voyage'[v].waitlist) = Head(voyage[v].waitlist),
         \A k \in Kinds : CanAllocateHold(voyage'[v], k) => CanAllocateHold(voyage[v], k),
         \A o \in Bookings : Exists(o) => booking'[o].kind = booking[o].kind
  PROVE  HeadOf(v)'
<1> SUFFICES ASSUME voyage'[v].waitlist # <<>>
             PROVE  ~CanAllocateHold(voyage'[v], booking'[Head(voyage'[v].waitlist)].kind)
  BY DEF HeadOf
<1>1. voyage[v].waitlist \in Seq(Bookings) /\ voyage[v].waitlist # <<>>
  BY DEF SpaceInv, TypeInv, TypeOK, VoyageRecord
<1>2. 1 \in DOMAIN voyage[v].waitlist /\ Head(voyage[v].waitlist) = voyage[v].waitlist[1]
  BY <1>1
<1>3. PICK o \in Bookings : o = Head(voyage[v].waitlist) /\ Exists(o) /\ booking[o].kind \in Kinds
  BY <1>2, HeadIsBooking
<1>4. ~CanAllocateHold(voyage'[v], booking[o].kind)
  BY <1>1, <1>3 DEF HeadOf
<1>5. QED
  BY <1>3, <1>4

\* Every step leaves the heads blocked: a rollback stops at the first waiting
\* booking whose pool is full, and whoever joins an empty list lost to a full pool.
LEMMA HeadStep == SpaceInv /\ HeadIsBlocked /\ [Next]_vars => HeadIsBlocked'
<1> SUFFICES ASSUME SpaceInv, HeadIsBlocked, [Next]_vars, NEW v \in Voyages
             PROVE  HeadOf(v)'
  BY DEF HeadIsBlocked, HeadOf
<1> DEFINE L == voyage[v].waitlist
           q == voyage'[v].waitlist
<1>1. HeadOf(v) /\ L \in Seq(Bookings)
  BY DEF HeadIsBlocked, HeadOf, SpaceInv, TypeInv, TypeOK, VoyageRecord
<1>2. CASE /\ voyage'[v] = voyage[v]
           /\ \A o \in Bookings : Exists(o) => booking'[o].kind = booking[o].kind
  BY <1>1, <1>2, HeadFrame
<1>3. CASE Quiet
  BY <1>1, <1>3, HeadFrame DEF Quiet, Stays
<1>4. ASSUME NEW u \in Voyages, Opens(u)
      PROVE  HeadOf(v)'
  BY <1>2, <1>4 DEF Opens, HeadOf
<1>5. ASSUME NEW b \in Bookings, Joins(b)
      PROVE  HeadOf(v)'
  <2>1. \A o \in Bookings : booking'[o].kind = booking[o].kind
    BY <1>5 DEF Joins, SameCargo, Only
  <2>2. CASE VoyageOf(b) # v
    BY <1>2, <1>5, <2>1, <2>2 DEF Joins
  <2>3. CASE VoyageOf(b) = v /\ L = <<>>
    <3>1. ~OnWaitlist(voyage[v], b)
      BY <2>3 DEF OnWaitlist
    <3>2. q = Append(<<>>, b)
      BY <1>5, <2>3, <3>1 DEF Joins
    <3>3. Head(q) = b
      BY <3>2
    <3>4. ~CanAllocateHold(voyage'[v], booking[b].kind)
      BY <1>5, <2>3 DEF Joins
    <3>5. QED
      BY <2>1, <3>3, <3>4 DEF HeadOf
  <2>4. CASE VoyageOf(b) = v /\ L # <<>>
    <3>1. q = L \/ q = Append(L, b)
      BY <1>5, <2>4 DEF Joins
    <3>2. Head(q) = Head(L)
      BY <1>1, <2>4, <3>1
    <3>3. \A k \in Kinds : CanAllocateHold(voyage'[v], k) => CanAllocateHold(voyage[v], k)
      BY <1>5, <2>4 DEF Joins
    <3>4. QED
      BY <1>1, <2>1, <2>4, <3>2, <3>3, HeadFrame
  <2>5. QED
    BY <2>2, <2>3, <2>4
<1>6. ASSUME NEW b \in Bookings, NEW n \in 0..Len(voyage[VoyageOf(b)].waitlist), Drops(b, n)
      PROVE  HeadOf(v)'
  <2>1. \A o \in Bookings : booking'[o].kind = booking[o].kind
    BY <1>6 DEF Drops, SameCargo
  <2>2. CASE VoyageOf(b) # v
    BY <1>2, <1>6, <2>1, <2>2 DEF Drops
  <2>3. CASE VoyageOf(b) = v
    <3>1. /\ q = SubSeq(L, n + 1, Len(L)) /\ n \in 0..Len(L)
          /\ n < Len(L) => ~CanAllocateHold(voyage'[v], booking[L[n + 1]].kind)
      BY <1>6, <2>3 DEF Drops
    <3>2. /\ n \in Nat /\ Len(L) \in Nat /\ Len(q) = Len(L) - n /\ DOMAIN q = 1..(Len(L) - n)
          /\ \A i \in DOMAIN q : n + i \in DOMAIN L /\ q[i] = L[n + i]
      <4> HIDE DEF L, q
      <4>1. QED
        BY <1>1, <3>1, Dropped
    <3>3. CASE q # <<>>
      <4>1. q \in Seq(Bookings)
        BY <1>1, <3>1, DropFirst
      <4>2. Head(q) = q[1] /\ 1 \in DOMAIN q /\ n < Len(L)
        BY <3>2, <3>3, <4>1
      <4>3. Head(q) = L[n + 1] /\ n + 1 \in DOMAIN L
        BY <3>2, <4>2
      <4>4. PICK o \in Bookings : o = L[n + 1]
        BY <4>3, ListedBookings
      <4>5. ~CanAllocateHold(voyage'[v], booking'[o].kind)
        BY <2>1, <3>1, <4>2, <4>4
      <4>6. QED
        BY <4>3, <4>4, <4>5 DEF HeadOf
    <3>4. QED
      BY <3>3 DEF HeadOf
  <2>4. QED
    BY <2>2, <2>3
<1>7. QED
  BY <1>3, <1>4, <1>5, <1>6, QueueCases

\* Every release of space promotes as far as it can: whenever somebody is on a
\* waitlist, the pool the first entry waits for is full.
THEOREM HeadsAreBlocked == Spec => []HeadIsBlocked
<1>1. Init => HeadIsBlocked
  BY DEF Init, NoVoyage, NewVoyage, HeadIsBlocked
<1>2. QED
  BY <1>1, SpaceInit, SpaceStep, HeadStep, PTL DEF Spec

\* Where a booking that is the first to wait on a list is not served although its
\* pool has room, the list is headed by a booking of the other class that was
\* cancelled while it waited: Cancel (service.go:454) is the only call that leaves
\* the line behind it unserved.
OnlyCancelledBlock ==
  \A v \in Voyages : \A i \in DOMAIN voyage[v].waitlist :
    LET b == voyage[v].waitlist[i]
        h == Head(voyage[v].waitlist)
    IN
    /\ Waiting(b) /\ CanAllocateHold(voyage[v], booking[b].kind)
    /\ \A j \in 1..(i - 1) : ~Waiting(voyage[v].waitlist[j])
    => StateOf(h) = "cancelled" /\ booking[h].kind # booking[b].kind

LEMMA FirstIsServed ==
  SpaceInv /\ WaitlistFollowsState /\ HeadIsBlocked => OnlyCancelledBlock
<1> SUFFICES ASSUME SpaceInv, WaitlistFollowsState, HeadIsBlocked,
                    NEW v \in Voyages, NEW i \in DOMAIN voyage[v].waitlist,
                    Waiting(voyage[v].waitlist[i]),
                    CanAllocateHold(voyage[v], booking[voyage[v].waitlist[i]].kind),
                    \A j \in 1..(i - 1) : ~Waiting(voyage[v].waitlist[j])
             PROVE  /\ StateOf(Head(voyage[v].waitlist)) = "cancelled"
                    /\ booking[Head(voyage[v].waitlist)].kind # booking[voyage[v].waitlist[i]].kind
  BY DEF OnlyCancelledBlock
<1>1. voyage[v].waitlist \in Seq(Bookings)
  BY DEF SpaceInv, TypeInv, TypeOK, VoyageRecord
<1>2. /\ i \in Nat /\ i >= 1 /\ voyage[v].waitlist # <<>>
      /\ 1 \in DOMAIN voyage[v].waitlist
      /\ Head(voyage[v].waitlist) = voyage[v].waitlist[1]
  BY <1>1
<1>3. ~CanAllocateHold(voyage[v], booking[voyage[v].waitlist[1]].kind)
  BY <1>2 DEF HeadIsBlocked
<1>4. i # 1 /\ 1 \in 1..(i - 1)
  BY <1>2, <1>3
<1>5. StateOf(voyage[v].waitlist[1]) \in {"waitlisted", "cancelled"}
  BY <1>2 DEF WaitlistFollowsState
<1>6. StateOf(voyage[v].waitlist[1]) = "cancelled"
  BY <1>4, <1>5 DEF Waiting
<1>7. QED
  BY <1>2, <1>3, <1>6

\* For any waitlist of any length: nothing but the cancellation of a waiting booking of
\* the other class keeps the first in line from a pool with room.
THEOREM OnlyCancelledBlocks == Spec => []OnlyCancelledBlock
<1>1. Spec => []SpaceInv
  BY SpaceInit, SpaceStep, PTL DEF Spec
<1>2. QED
  BY <1>1, FirstIsServed, HeadsAreBlocked, WaitlistFollowsBookings, PTL

------------------------------------------------------------------------------
(* The order of the lists. *)

\* What NoOvertaking says of two bookings of a voyage.
Fair(v, a, b) ==
  /\ Ahead(v, b, a)' => Ahead(v, b, a)
  /\ Waiting(b) /\ VoyageOf(b) = v /\ booking'[b].state = "space_allocated" => Ahead(v, b, a)

\* A list that does not change, and nobody promoted.
LEMMA FairFrame ==
  ASSUME NEW v \in Voyages, NEW a \in Bookings, NEW b \in Bookings,
         voyage'[v].waitlist = voyage[v].waitlist,
         Waiting(b) => booking'[b].state # "space_allocated"
  PROVE  Fair(v, a, b)
  BY DEF Fair, Ahead

\* Joining at the end gets nobody ahead of those who wait.
LEMMA FairJoin ==
  ASSUME SpaceInv, NEW c \in Bookings, Joins(c),
         NEW v \in Voyages, NEW a \in Bookings, NEW b \in Bookings,
         VoyageOf(a) = v, Waiting(a)
  PROVE  Fair(v, a, b)
<1> DEFINE L == voyage[v].waitlist
           q == voyage'[v].waitlist
<1>1. L \in Seq(Bookings)
  BY DEF SpaceInv, TypeInv, TypeOK, VoyageRecord
<1>2. a # c
  BY DEF Joins, Waiting
<1>3. Waiting(b) => booking'[b].state # "space_allocated"
  BY DEF Joins, Only, Waiting, StateOf
<1>4. CASE q = L
  BY <1>3, <1>4, FairFrame
<1>5. CASE q = Append(L, c)
  <2>1. /\ Len(L) \in Nat /\ DOMAIN L = 1..Len(L) /\ DOMAIN q = 1..(Len(L) + 1)
        /\ \A i \in DOMAIN L : q[i] = L[i]
        /\ q[Len(L) + 1] = c
    BY <1>1, <1>5, Appended
  <2>2. ASSUME NEW i \in DOMAIN q, NEW j \in DOMAIN q, i < j, q[i] = b, q[j] = a
        PROVE  Ahead(v, b, a)
    <3>1. j \in DOMAIN L /\ i \in DOMAIN L
      BY <1>2, <2>1, <2>2
    <3>2. QED
      BY <2>1, <2>2, <3>1 DEF Ahead
  <2>3. QED
    BY <1>3, <2>2 DEF Fair, Ahead
<1>6. q = L \/ q = Append(L, c)
  BY DEF Joins
<1>7. QED
  BY <1>4, <1>5, <1>6

\* A rollback takes from the front: it reorders nobody, and who is promoted was
\* ahead of those who keep waiting.
LEMMA FairDrop ==
  ASSUME SpaceInv, WaitlistFollowsState, NEW c \in Bookings,
         NEW v \in Voyages, NEW n \in 0..Len(voyage[v].waitlist), VoyageOf(c) = v, Drops(c, n),
         NEW a \in Bookings, NEW b \in Bookings,
         a # b, VoyageOf(a) = v, Waiting(a), booking'[a].state = "waitlisted"
  PROVE  Fair(v, a, b)
<1> DEFINE L == voyage[v].waitlist
           q == voyage'[v].waitlist
<1>1. L \in Seq(Bookings) /\ q = SubSeq(L, n + 1, Len(L)) /\ n \in 0..Len(L)
  BY DEF Drops, SpaceInv, TypeInv, TypeOK, VoyageRecord
<1>2. /\ n \in Nat /\ Len(L) \in Nat /\ DOMAIN L = 1..Len(L)
      /\ DOMAIN q = 1..(Len(L) - n)
      /\ \A i \in DOMAIN q : n + i \in DOMAIN L /\ q[i] = L[n + i]
  <2> HIDE DEF L, q
  <2>1. QED
    BY <1>1, Dropped
<1>3. ASSUME NEW i \in DOMAIN q, NEW j \in DOMAIN q, i < j, q[i] = b, q[j] = a
      PROVE  Ahead(v, b, a)
  <2>1. n + i \in DOMAIN L /\ n + j \in DOMAIN L /\ L[n + i] = b /\ L[n + j] = a
    BY <1>2, <1>3
  <2>2. n + i < n + j
    BY <1>2, <1>3
  <2>3. QED
    BY <2>1, <2>2 DEF Ahead
<1>4. ASSUME Waiting(b), VoyageOf(b) = v, booking'[b].state = "space_allocated"
      PROVE  Ahead(v, b, a)
  <2>1. a # c /\ b # c
    BY <1>4 DEF Drops
  <2>2. PICK i \in 1..n : L[i] = b
    BY <1>4, <2>1 DEF Drops, Waiting, StateOf
  <2>3. ~(\E j \in 1..n : L[j] = a)
    BY <2>1 DEF Drops
  <2>4. PICK j \in DOMAIN L : L[j] = a
    BY DEF WaitlistFollowsState, OnWaitlist
  <2>5. i \in DOMAIN L /\ i < j
    BY <1>2, <2>2, <2>3, <2>4
  <2>6. QED
    BY <2>2, <2>4, <2>5 DEF Ahead
<1>5. QED
  BY <1>3, <1>4 DEF Fair, Ahead

\* First come, first served: while a booking waits nobody gets ahead of it, and
\* only who was ahead of it is promoted.
THEOREM NobodyOvertakes == Spec => NoOvertaking
<1>1. ASSUME SpaceInv, WaitlistFollowsState, [Next]_vars, NEW v \in Voyages,
             NEW a \in Bookings, NEW b \in Bookings,
             a # b, VoyageOf(a) = v, Waiting(a), booking'[a].state = "waitlisted"
      PROVE  Fair(v, a, b)
  <2>1. CASE Quiet
    BY <2>1, FairFrame DEF Quiet, Stays
  <2>2. ASSUME NEW u \in Voyages, Opens(u)
        PROVE  Fair(v, a, b)
    <3>1. Waiting(b) => booking'[b].state # "space_allocated"
      BY <2>2 DEF Opens, Waiting, StateOf
    <3>2. u # v
      BY <1>1, <2>2 DEF Opens, Waiting, SpaceInv, Sails, Exists, StateOf
    <3>3. QED
      BY <2>2, <3>1, <3>2, FairFrame DEF Opens
  <2>3. ASSUME NEW c \in Bookings, Joins(c)
        PROVE  Fair(v, a, b)
    BY <1>1, <2>3, FairJoin
  <2>4. ASSUME NEW c \in Bookings, NEW n \in 0..Len(voyage[VoyageOf(c)].waitlist), Drops(c, n)
        PROVE  Fair(v, a, b)
    <3>1. CASE VoyageOf(c) = v
      BY <1>1, <2>4, <3>1, FairDrop
    <3>2. CASE VoyageOf(c) # v
      <4>1. voyage'[v] = voyage[v]
        BY <2>4, <3>2 DEF Drops
      <4>2. CASE VoyageOf(b) = v /\ Waiting(b)
        <5>1. b # c
          BY <3>2, <4>2
        <5>2. ~(\E i \in 1..n : voyage[VoyageOf(c)].waitlist[i] = b)
          <6>1. ASSUME NEW i \in 1..n, voyage[VoyageOf(c)].waitlist[i] = b
                PROVE  FALSE
            <7>1. VoyageOf(c) \in Voyages /\ voyage[VoyageOf(c)].waitlist \in Seq(Bookings)
              BY <1>1, <2>4 DEF Drops, SpaceInv, TypeInv, TypeOK, VoyageRecord
            <7>2. i \in DOMAIN voyage[VoyageOf(c)].waitlist
              BY <7>1, LenProperties
            <7>3. VoyageOf(b) = VoyageOf(c)
              BY <1>1, <6>1, <7>1, <7>2 DEF WaitlistFollowsState
            <7>4. QED
              BY <3>2, <4>2, <7>3
          <6>2. QED
            BY <6>1
        <5>3. booking'[b] = booking[b]
          BY <2>4, <5>1, <5>2 DEF Drops
        <5>4. QED
          BY <4>1, <4>2, <5>3, FairFrame DEF Waiting, StateOf
      <4>3. CASE ~(VoyageOf(b) = v /\ Waiting(b))
        BY <4>1, <4>3 DEF Fair, Ahead
      <4>4. QED
        BY <4>2, <4>3
    <3>3. QED
      BY <3>1, <3>2
  <2>5. QED
    BY <1>1, <2>1, <2>2, <2>3, <2>4, QueueCases
<1>2. SpaceInv /\ WaitlistFollowsState /\ [Next]_vars =>
        [\A v \in Voyages, a, b \in Bookings :
           /\ a # b
           /\ VoyageOf(a) = v
           /\ Waiting(a)
           /\ booking'[a].state = "waitlisted"
           => /\ Ahead(v, b, a)' => Ahead(v, b, a)
              /\ Waiting(b) /\ VoyageOf(b) = v /\ booking'[b].state = "space_allocated"
                 => Ahead(v, b, a)]_vars
  BY <1>1 DEF Fair
<1>3. QED
  BY <1>2, SpaceInit, SpaceStep, WaitlistFollowsBookings, PTL DEF Spec, NoOvertaking

------------------------------------------------------------------------------
(* The queries. *)

\* The class on a hold is the class of the booking that holds it.
LEMMA HoldHasKind ==
  ASSUME SpaceInv, NEW b \in Bookings, StateOf(b) = "space_allocated"
  PROVE  /\ VoyageOf(b) \in Voyages /\ booking[b].kind \in Kinds
         /\ voyage[VoyageOf(b)].holds[b] # NoSlot
         /\ voyage[VoyageOf(b)].holds[b].kind = booking[b].kind
<1> DEFINE r == voyage[VoyageOf(b)]
<1>1. VoyageOf(b) \in Voyages /\ booking[b].kind \in Kinds
  BY DEF SpaceInv, TypeInv, Placed, Exists, StateOf
<1>2. r.holds[b] # NoSlot /\ r.holds[b].kind \in {booking[b].kind, "none"}
  BY <1>1 DEF SpaceInv, SpaceFollowsState
<1>3. r.holds[b] \in Slot
  BY <1>1 DEF SpaceInv, TypeInv, TypeOK, VoyageRecord
<1>4. r.holds[b].kind = booking[b].kind
  BY <1>2, <1>3 DEF Slot, NoSlot, Kinds
<1>5. QED
  BY <1>1, <1>2, <1>4

\* The report and the services count the same.
LEMMA ReportedRoom ==
  ASSUME SpaceInv, NEW v \in Voyages, NEW k \in Kinds
  PROVE  /\ Capacity(v).available[k] > 0 <=> CanAllocateHold(voyage[v], k)
         /\ Capacity(v).available[k] <= 0 <=> Saturated(voyage[v], k)
<1>1. confirmedCountFor(voyage[v], k) \in Nat /\ voyage[v].capacity[k] \in Nat
  BY PoolFinite DEF SpaceInv, TypeInv, TypeOK, VoyageRecord, confirmedCountFor
<1>2. Capacity(v).available[k] = voyage[v].capacity[k] - confirmedCountFor(voyage[v], k)
  BY DEF Capacity, AvailableFor
<1>3. QED
  BY <1>1, <1>2 DEF CanAllocateHold, Saturated

\* Everyone in space_allocated is among the holds the report counts.
LEMMA ReportedHolds ==
  ASSUME SpaceInv, NEW v \in Voyages, NEW k \in Kinds
  PROVE  Capacity(v).holds[k] >= Cardinality({o \in Bookings : /\ VoyageOf(o) = v
                                                              /\ booking[o].kind = k
                                                              /\ StateOf(o) = "space_allocated"})
<1> DEFINE holders == {o \in Bookings : /\ VoyageOf(o) = v
                                        /\ booking[o].kind = k
                                        /\ StateOf(o) = "space_allocated"}
<1>1. holders \subseteq InPool(voyage[v].holds, k)
  BY HoldHasKind DEF InPool
<1>2. Cardinality(holders) <= Cardinality(InPool(voyage[v].holds, k))
  BY <1>1, PoolFinite, FS_Subset
<1>3. Capacity(v).holds[k] = Cardinality(InPool(voyage[v].holds, k))
  BY DEF Capacity, HoldCountFor
<1>4. Cardinality(holders) \in Nat /\ Cardinality(InPool(voyage[v].holds, k)) \in Nat
  BY <1>1, PoolFinite, FS_Subset, FS_CardinalityType
<1>5. QED
  BY <1>2, <1>3, <1>4

\* The deposit query shows a confirmed deposit exactly for the paid bookings.
LEMMA ShownDeposit ==
  ASSUME TypeInv, DepositFollowsState, NEW b \in Bookings
  PROVE  Paid(b) <=> \E d \in GetByBooking(b) : d.status = "confirmed"
<1> DEFINE mine == ConfirmedDeposits(deposit[b])
<1>1. Cardinality(mine) = IF Paid(b) THEN 1 ELSE 0
  BY DEF DepositFollowsState
<1>2. IsFiniteSet(mine)
  BY DepositsFinite DEF TypeInv, TypeOK
<1>3. Paid(b) <=> mine # {}
  BY <1>1, <1>2, FS_EmptySet
<1>4. mine # {} <=> \E d \in GetByBooking(b) : d.status = "confirmed"
  BY DEF GetByBooking, ConfirmedDeposits
<1>5. QED
  BY <1>3, <1>4

\* Whoever asks before calling is not misled: in every state the capacity report
\* predicts who gets a hold and who wins, somebody only waits where it shows a full
\* pool, and the deposit shown is a confirmed one exactly while the booking is paid.
THEOREM QueriesAreRight == Spec => []QueriesPredictCalls
<1> DEFINE Inv == SpaceInv /\ DepositFollowsState /\ WaitlistFollowsState /\ HeadIsBlocked
<1>1. Inv => QueriesPredictCalls
  <2> SUFFICES ASSUME Inv PROVE QueriesPredictCalls
    OBVIOUS
  <2>1. ASSUME NEW b \in Bookings, Exists(b)
        PROVE  VoyageOf(b) \in Voyages /\ booking[b].kind \in Kinds
    BY <2>1 DEF SpaceInv, TypeInv, Placed
  <2>2. ASSUME NEW b \in Bookings, Exists(b), StateOf(b) = "storage_verified"
        PROVE  Capacity(VoyageOf(b)).available[booking[b].kind] > 0 <=> MayAllocate(b)
    <3>1. ~HasAllocation(voyage[VoyageOf(b)], b)
      BY <2>1, <2>2 DEF SpaceInv, SpaceFollowsState, HasAllocation, Paid
    <3>2. QED
      BY <2>1, <2>2, <3>1, ReportedRoom DEF MayAllocate
  <2>3. ASSUME NEW b \in Bookings, Exists(b), StateOf(b) = "space_allocated"
        PROVE  Capacity(VoyageOf(b)).available[booking[b].kind] <= 0
                 <=> Saturated(voyage[VoyageOf(b)], voyage[VoyageOf(b)].holds[b].kind)
    BY <2>1, <2>3, HoldHasKind, ReportedRoom
  <2>4. ASSUME NEW b \in Bookings, Exists(b), Waiting(b)
        PROVE  \E k \in Kinds : Capacity(VoyageOf(b)).available[k] <= 0
    <3> DEFINE L == voyage[VoyageOf(b)].waitlist
    <3>1. VoyageOf(b) \in Voyages /\ L \in Seq(Bookings) /\ OnWaitlist(voyage[VoyageOf(b)], b)
      BY <2>1, <2>4 DEF SpaceInv, TypeInv, TypeOK, VoyageRecord, WaitlistFollowsState
    <3>2. L # <<>> /\ 1 \in DOMAIN L /\ Head(L) = L[1]
      BY <3>1 DEF OnWaitlist
    <3>3. PICK o \in Bookings : o = Head(L) /\ Exists(o) /\ booking[o].kind \in Kinds
      BY <3>1, <3>2, HeadIsBooking
    <3>4. ~CanAllocateHold(voyage[VoyageOf(b)], booking[o].kind)
      BY <3>1, <3>2, <3>3 DEF HeadIsBlocked
    <3>5. confirmedCountFor(voyage[VoyageOf(b)], booking[o].kind) \in Nat
          /\ voyage[VoyageOf(b)].capacity[booking[o].kind] \in Nat
      BY <3>1, <3>3, PoolFinite DEF SpaceInv, TypeInv, TypeOK, VoyageRecord, confirmedCountFor
    <3>6. Saturated(voyage[VoyageOf(b)], booking[o].kind)
      BY <3>4, <3>5 DEF CanAllocateHold, Saturated
    <3>7. QED
      BY <3>1, <3>3, <3>6, ReportedRoom
  <2>5. \A b \in Bookings : Paid(b) <=> \E d \in GetByBooking(b) : d.status = "confirmed"
    BY ShownDeposit DEF SpaceInv
  <2>6. ASSUME NEW b \in Bookings, Exists(b)
        PROVE  Capacity(VoyageOf(b)).holds[booking[b].kind] >=
                 Cardinality({o \in Bookings : /\ VoyageOf(o) = VoyageOf(b)
                                               /\ booking[o].kind = booking[b].kind
                                               /\ StateOf(o) = "space_allocated"})
    BY <2>1, <2>6, ReportedHolds
  <2>7. QED
    BY <2>2, <2>3, <2>4, <2>5, <2>6 DEF QueriesPredictCalls
<1>2. Spec => []SpaceInv
  BY SpaceInit, SpaceStep, PTL DEF Spec
<1>3. QED
  BY <1>1, <1>2, DepositsFollowBookings, WaitlistFollowsBookings, HeadsAreBlocked, PTL

------------------------------------------------------------------------------
(* The promotion loop. *)

\* Every set of natural numbers has a least element.
LEMMA LeastNatural ==
  ASSUME NEW T \in SUBSET Nat, T # {}
  PROVE  \E m \in T : \A k \in T : m <= k
<1> DEFINE U == {S \in FiniteSubsetsOf(Nat) : \E n \in T : S = 0..n}
<1>1. U \subseteq FiniteSubsetsOf(Nat)
  OBVIOUS
<1>2. U # {}
  <2>1. PICK n \in T : TRUE
    OBVIOUS
  <2>2. 0..n \in FiniteSubsetsOf(Nat)
    BY FS_Interval DEF FiniteSubsetsOf
  <2>3. QED
    BY <2>2
<1>3. IsWellFoundedOn(StrictSubsetOrdering(Nat), FiniteSubsetsOf(Nat))
  BY FS_StrictSubsetOrderingWellFounded
<1>4. PICK S \in U : \A R \in U : ~(<<R, S>> \in StrictSubsetOrdering(Nat))
  <2> HIDE DEF U
  <2>1. QED
    BY <1>1, <1>2, <1>3, WFMin
<1>5. PICK m \in T : S = 0..m
  OBVIOUS
<1>6. ASSUME NEW k \in T
      PROVE  m <= k
  <2>1. SUFFICES ASSUME k < m PROVE FALSE
    OBVIOUS
  <2>2. 0..k \in U
    BY FS_Interval DEF FiniteSubsetsOf
  <2>3. 0..k \subseteq 0..m /\ 0..k # 0..m
    <3>1. \A i \in 0..k : i \in 0..m
      BY <2>1
    <3>2. m \in 0..m /\ m \notin 0..k
      BY <2>1
    <3>3. QED
      BY <3>1, <3>2
  <2>4. <<0..k, 0..m>> \in StrictSubsetOrdering(Nat)
    BY <2>3 DEF StrictSubsetOrdering
  <2>5. QED
    BY <1>4, <1>5, <2>2, <2>4
<1>7. QED
  BY <1>6

\* The loop is the only solution of its recursion, if there is one.
LEMMA LoopSolved ==
  ASSUME NEW v, Len(v.waitlist) \in Nat, NEW h,
         h = [n \in 0..Len(v.waitlist) |->
                IF n = 0 THEN [v |-> v, going |-> TRUE, taken |-> {}] ELSE Iteration(h[n - 1])]
  PROVE  Loop(v) = h[Len(v.waitlist)]
<1> DEFINE N == Len(v.waitlist)
           F == CHOOSE f : f = [n \in 0..N |->
                  IF n = 0 THEN [v |-> v, going |-> TRUE, taken |-> {}] ELSE Iteration(f[n - 1])]
<1>1. Loop(v) = F[N]
  BY DEF Loop
<1>2. F = [n \in 0..N |->
             IF n = 0 THEN [v |-> v, going |-> TRUE, taken |-> {}] ELSE Iteration(F[n - 1])]
  BY Zenon
<1>3. \A n \in 0..N : F[n] = h[n]
  <2> DEFINE T == {n \in 0..N : F[n] # h[n]}
  <2> HIDE DEF F
  <2>1. SUFFICES ASSUME T # {} PROVE FALSE
    OBVIOUS
  <2>2. T \in SUBSET Nat
    OBVIOUS
  <2>3. PICK m \in T : \A k \in T : m <= k
    <3> HIDE DEF T
    <3>1. QED
      BY <2>1, <2>2, LeastNatural
  <2>4. m # 0
    BY <1>2
  <2>5. m \in 0..N /\ m - 1 \in 0..N /\ m - 1 \notin T
    <3>1. m \in 0..N /\ m \in Nat /\ m - 1 \in 0..N
      BY <2>3, <2>4
    <3>2. ~(m <= m - 1)
      BY <3>1
    <3>3. QED
      BY <2>3, <3>1, <3>2
  <2>6. F[m - 1] = h[m - 1]
    BY <2>5
  <2>7. F[m] = Iteration(F[m - 1]) /\ h[m] = Iteration(h[m - 1])
    BY <1>2, <2>4, <2>5
  <2>8. QED
    BY <2>3, <2>6, <2>7
<1>4. QED
  BY <1>1, <1>3

\* What the loop has done after i iterations when it stops at s.
LoopState(f, s, i) ==
  IF i <= s
  THEN [v |-> PromoteWaitlist(f, i), going |-> TRUE, taken |-> Promoted(f, i)]
  ELSE [v |-> PromoteWaitlist(f, s), going |-> FALSE, taken |-> Promoted(f, s)]

\* A state of the loop with another voyage.
LEMMA LoopFieldV ==
  ASSUME NEW w, NEW g, NEW t, NEW p
  PROVE  [[v |-> w, going |-> g, taken |-> t] EXCEPT !.v = p] = [v |-> p, going |-> g, taken |-> t]
  OBVIOUS

\* An iteration after the loop has stopped, and the three kinds before: an entry
\* is dropped, blocks the loop or is promoted.
LEMMA StoppedIteration ==
  ASSUME NEW w, NEW t
  PROVE  Iteration([v |-> w, going |-> FALSE, taken |-> t]) = [v |-> w, going |-> FALSE, taken |-> t]
<1> DEFINE l == [v |-> w, going |-> FALSE, taken |-> t]
<1>1. ~l.going
  OBVIOUS
<1>2. l.v = w /\ l.taken = t
  OBVIOUS
<1> HIDE DEF l
<1>3. Iteration(l) = [v |-> w, going |-> FALSE, taken |-> t]
  BY <1>1, <1>2 DEF Iteration
<1>4. QED
  BY <1>3 DEF l

LEMMA DroppingIteration ==
  ASSUME NEW w, NEW t, NEW b, w.waitlist # <<>>, Head(w.waitlist) = b, ~Waiting(b) \/ b \in t
  PROVE  Iteration([v |-> w, going |-> TRUE, taken |-> t])
           = [v |-> [w EXCEPT !.waitlist = Tail(@)], going |-> TRUE, taken |-> t]
<1> DEFINE l == [v |-> w, going |-> TRUE, taken |-> t]
           p == [w EXCEPT !.waitlist = Tail(@)]
<1>1. l.v = w /\ l.taken = t
  OBVIOUS
<1>2. l.going
  OBVIOUS
<1>3. [l EXCEPT !.v = p] = [v |-> p, going |-> TRUE, taken |-> t]
  <2> HIDE DEF p
  <2>1. QED
    BY LoopFieldV
<1> HIDE DEF l
<1>4. Iteration(l) = [l EXCEPT !.v = p]
  BY <1>1, <1>2 DEF Iteration
<1>5. QED
  BY <1>3, <1>4 DEF l

LEMMA BlockedIteration ==
  ASSUME NEW w, NEW t, NEW b, w.waitlist # <<>>, Head(w.waitlist) = b, Waiting(b), b \notin t,
         ~CanAllocateHold(w, booking[b].kind)
  PROVE  Iteration([v |-> w, going |-> TRUE, taken |-> t]) = [v |-> w, going |-> FALSE, taken |-> t]
<1> DEFINE l == [v |-> w, going |-> TRUE, taken |-> t]
<1>1. l.v = w /\ l.taken = t
  OBVIOUS
<1> HIDE DEF l
<1>2. Iteration(l) = [v |-> w, going |-> FALSE, taken |-> t]
  BY <1>1 DEF Iteration
<1>3. QED
  BY <1>2 DEF l

LEMMA PromotingIteration ==
  ASSUME NEW w, NEW t, NEW b, w.waitlist # <<>>, Head(w.waitlist) = b, Waiting(b), b \notin t,
         CanAllocateHold(w, booking[b].kind), ~HasAllocation([w EXCEPT !.waitlist = Tail(@)], b)
  PROVE  Iteration([v |-> w, going |-> TRUE, taken |-> t])
           = [v |-> AllocateHolds([w EXCEPT !.waitlist = Tail(@)], {b}, KindOf, now + HoldDuration),
              going |-> TRUE, taken |-> t \cup {b}]
<1> DEFINE l == [v |-> w, going |-> TRUE, taken |-> t]
<1>1. l.v = w /\ l.taken = t
  OBVIOUS
<1>2. l.going
  OBVIOUS
<1> HIDE DEF l
<1>3. QED
  <2>1. Iteration(l)
          = [v |-> AllocateHolds([w EXCEPT !.waitlist = Tail(@)], {b}, KindOf, now + HoldDuration),
             going |-> TRUE, taken |-> t \cup {b}]
    BY <1>1, <1>2 DEF Iteration
  <2>2. QED
    BY <2>1 DEF l

\* The voyage a rollback hands to the loop, and the fields of it after n entries.
LEMMA LoopFields ==
  ASSUME NEW f \in VoyageRecord, NEW n \in 0..Len(f.waitlist)
  PROVE  PromoteWaitlist(f, n) =
           [f EXCEPT !.holds = [o \in Bookings |->
                                  IF o \in Promoted(f, n)
                                  THEN [kind |-> booking[o].kind, expires |-> now + HoldDuration]
                                  ELSE f.holds[o]],
                     !.waitlist = SubSeq(f.waitlist, n + 1, Len(f.waitlist))]
  BY DEF PromoteWaitlist, AllocateHolds, KindOf, VoyageRecord, Promoted

\* One more entry: dropped, promoted already, or promoted now.
LEMMA PromotedNext ==
  ASSUME NEW f, NEW i \in Nat, NEW b \in Bookings, f.waitlist[i + 1] = b
  PROVE  Promoted(f, i + 1) = IF Waiting(b) THEN Promoted(f, i) \cup {b} ELSE Promoted(f, i)
<1>1. 1..(i + 1) = (1..i) \cup {i + 1}
  OBVIOUS
<1>2. QED
  BY <1>1 DEF Promoted

\* The head and the rest of what is left of a list.
LEMMA RestOf ==
  ASSUME NEW L \in Seq(Bookings), NEW i \in 0..Len(L), i # Len(L)
  PROVE  /\ SubSeq(L, i + 1, Len(L)) # <<>>
         /\ Head(SubSeq(L, i + 1, Len(L))) = L[i + 1]
         /\ L[i + 1] \in Bookings
         /\ i + 1 \in 0..Len(L)
         /\ Tail(SubSeq(L, i + 1, Len(L))) = SubSeq(L, (i + 1) + 1, Len(L))
<1>1. Len(L) \in Nat /\ i \in Nat /\ i + 1 \in 1..Len(L) /\ i + 1 \in 0..Len(L)
      /\ Len(L) \in (i + 1)..Len(L) /\ L[i + 1] \in Bookings
  BY LenProperties
<1>2. /\ Head(SubSeq(L, i + 1, Len(L))) = L[i + 1]
      /\ Tail(SubSeq(L, i + 1, Len(L))) = SubSeq(L, (i + 1) + 1, Len(L))
  BY <1>1, HeadTailOfSubSeq
<1>3. SubSeq(L, i + 1, Len(L)) # <<>>
  <2>1. Len(SubSeq(L, i + 1, Len(L))) # 0
    BY <1>1, Dropped
  <2>2. QED
    BY <2>1, EmptySeq
<1>4. QED
  BY <1>1, <1>2, <1>3

\* One iteration of the loop.
LEMMA OneIteration ==
  ASSUME NEW f \in VoyageRecord, NEW s \in 0..Len(f.waitlist), LoopStopsAt(f, s),
         \A o \in Bookings : Waiting(o) => ~HasAllocation(f, o),
         NEW i \in 0..Len(f.waitlist), i # Len(f.waitlist)
  PROVE  Iteration(LoopState(f, s, i)) = LoopState(f, s, i + 1)
<1> DEFINE L == f.waitlist
           b == L[i + 1]
           w == PromoteWaitlist(f, i)
           p == [w EXCEPT !.waitlist = Tail(@)]
           holds(set) == [o \in Bookings |->
                            IF o \in set
                            THEN [kind |-> booking[o].kind, expires |-> now + HoldDuration]
                            ELSE f.holds[o]]
           l == LoopState(f, s, i)
<1>1. L \in Seq(Bookings) /\ Len(L) \in Nat /\ s \in Nat /\ i \in Nat /\ i + 1 \in 0..Len(L)
      /\ i < Len(L)
  BY LenProperties DEF VoyageRecord
<1>2. /\ SubSeq(L, i + 1, Len(L)) # <<>>
      /\ Head(SubSeq(L, i + 1, Len(L))) = b
      /\ b \in Bookings
      /\ Tail(SubSeq(L, i + 1, Len(L))) = SubSeq(L, (i + 1) + 1, Len(L))
  BY <1>1, RestOf
<1>3. w = [f EXCEPT !.holds = holds(Promoted(f, i)), !.waitlist = SubSeq(L, i + 1, Len(L))]
  BY LoopFields
<1>4. /\ w.waitlist = SubSeq(L, i + 1, Len(L)) /\ w.capacity = f.capacity
      /\ w.confirmed = f.confirmed
  BY <1>3 DEF VoyageRecord
<1>5. p = [f EXCEPT !.holds = holds(Promoted(f, i)), !.waitlist = SubSeq(L, (i + 1) + 1, Len(L))]
  BY <1>2, <1>3 DEF VoyageRecord
<1>6. PromoteWaitlist(f, i + 1)
        = [f EXCEPT !.holds = holds(Promoted(f, i + 1)),
                    !.waitlist = SubSeq(L, (i + 1) + 1, Len(L))]
  BY <1>1, LoopFields
<1>7. Promoted(f, i + 1) = IF Waiting(b) THEN Promoted(f, i) \cup {b} ELSE Promoted(f, i)
  BY <1>1, <1>2, PromotedNext
<1>8. CASE i > s
  <2>1. /\ LoopState(f, s, i) = [v |-> PromoteWaitlist(f, s), going |-> FALSE, taken |-> Promoted(f, s)]
        /\ LoopState(f, s, i + 1) = LoopState(f, s, i)
    BY <1>1, <1>8 DEF LoopState
  <2>2. QED
    BY <2>1, StoppedIteration
<1>9. CASE i <= s
  <2>1. LoopState(f, s, i) = [v |-> w, going |-> TRUE, taken |-> Promoted(f, i)]
    BY <1>9 DEF LoopState
  <2>2. w.waitlist # <<>> /\ Head(w.waitlist) = b
    BY <1>2, <1>4
  <2>3. CanAllocateHold(w, booking[b].kind) <=> CanAllocateHold(f, booking[b].kind)
    BY <1>4, SameRoom
  <2>4. CASE i = s
    <3>1. Stuck(f, b)
      BY <1>1, <2>4 DEF LoopStopsAt
    <3>2. Waiting(b) /\ ~CanAllocateHold(f, booking[b].kind)
      BY <3>1 DEF Stuck
    <3>3. b \notin Promoted(f, i)
      BY <2>4, <3>1 DEF Promoted, LoopStopsAt
    <3>4. LoopState(f, s, i + 1) = [v |-> w, going |-> FALSE, taken |-> Promoted(f, i)]
      BY <1>1, <2>4 DEF LoopState
    <3> HIDE DEF b, w, p
    <3>5. Iteration([v |-> w, going |-> TRUE, taken |-> Promoted(f, i)])
            = [v |-> w, going |-> FALSE, taken |-> Promoted(f, i)]
      BY <2>2, <2>3, <3>2, <3>3, BlockedIteration
    <3>6. QED
      BY <2>1, <3>4, <3>5
  <2>5. CASE i < s
    <3>1. LoopState(f, s, i + 1)
            = [v |-> PromoteWaitlist(f, i + 1), going |-> TRUE, taken |-> Promoted(f, i + 1)]
      BY <1>1, <2>5 DEF LoopState
    <3>2. ~Stuck(f, b)
      BY <1>1, <2>5 DEF LoopStopsAt
    <3>3. CASE ~Waiting(b) \/ b \in Promoted(f, i)
      <4>1. Promoted(f, i + 1) = Promoted(f, i)
        BY <1>7, <3>3
      <4>2. PromoteWaitlist(f, i + 1) = p
        BY <1>5, <1>6, <4>1
      <4>3. p = [w EXCEPT !.waitlist = Tail(@)]
        OBVIOUS
      <4> HIDE DEF b, w, p
      <4>4. Iteration([v |-> w, going |-> TRUE, taken |-> Promoted(f, i)])
              = [v |-> p, going |-> TRUE, taken |-> Promoted(f, i)]
        BY <2>2, <3>3, <4>3, DroppingIteration
      <4>5. QED
        BY <2>1, <3>1, <4>1, <4>2, <4>4
    <3>4. CASE Waiting(b) /\ b \notin Promoted(f, i)
      <4>1. Promoted(f, i + 1) = Promoted(f, i) \cup {b}
        BY <1>7, <3>4
      <4>2. CanAllocateHold(w, booking[b].kind)
        BY <2>3, <3>2, <3>4 DEF Stuck
      <4>3. p.holds = holds(Promoted(f, i)) /\ p.confirmed = f.confirmed
        BY <1>5 DEF VoyageRecord
      <4>4. ~HasAllocation(p, b)
        <5>1. p.holds[b] = f.holds[b]
          BY <1>2, <3>4, <4>3
        <5>2. ~HasAllocation(f, b)
          BY <1>2, <3>4
        <5> HIDE DEF p, b
        <5>3. QED
          BY <4>3, <5>1, <5>2 DEF HasAllocation
      <4>5. AllocateHolds(p, {b}, KindOf, now + HoldDuration) = PromoteWaitlist(f, i + 1)
        <5>1. AllocateHolds(p, {b}, KindOf, now + HoldDuration)
                = [p EXCEPT !.holds = [o \in Bookings |->
                     IF o \in {b} THEN [kind |-> KindOf[o], expires |-> now + HoldDuration]
                                  ELSE p.holds[o]]]
          BY DEF AllocateHolds
        <5>2. [o \in Bookings |-> IF o \in {b} THEN [kind |-> KindOf[o], expires |-> now + HoldDuration]
                                               ELSE p.holds[o]]
                = holds(Promoted(f, i + 1))
          <6>1. \A o \in Bookings :
                  (IF o \in {b} THEN [kind |-> KindOf[o], expires |-> now + HoldDuration]
                                ELSE p.holds[o])
                  = IF o \in Promoted(f, i + 1)
                    THEN [kind |-> booking[o].kind, expires |-> now + HoldDuration]
                    ELSE f.holds[o]
            <7>1. \A o \in Bookings :
                    p.holds[o] = IF o \in Promoted(f, i)
                                 THEN [kind |-> booking[o].kind, expires |-> now + HoldDuration]
                                 ELSE f.holds[o]
              BY <4>3
            <7> HIDE DEF p, b
            <7>2. QED
              BY <4>1, <7>1 DEF KindOf
          <6>2. QED
            BY <6>1
        <5>3. [p EXCEPT !.holds = holds(Promoted(f, i + 1))]
                = [f EXCEPT !.holds = holds(Promoted(f, i + 1)),
                            !.waitlist = SubSeq(L, (i + 1) + 1, Len(L))]
          <6> HIDE DEF p, holds
          <6>1. QED
            BY <1>5 DEF VoyageRecord
        <5>4. QED
          BY <1>6, <5>1, <5>2, <5>3
      <4>6. p = [w EXCEPT !.waitlist = Tail(@)]
        OBVIOUS
      <4> HIDE DEF b, w, p
      <4>7. Iteration([v |-> w, going |-> TRUE, taken |-> Promoted(f, i)])
              = [v |-> AllocateHolds(p, {b}, KindOf, now + HoldDuration),
                 going |-> TRUE, taken |-> Promoted(f, i) \cup {b}]
        BY <2>2, <3>4, <4>2, <4>4, <4>6, PromotingIteration
      <4>8. QED
        BY <2>1, <3>1, <4>1, <4>5, <4>7
    <3>5. QED
      BY <3>3, <3>4
  <2>6. QED
    BY <1>1, <1>9, <2>4, <2>5
<1>10. QED
  BY <1>1, <1>8, <1>9

\* The loop before its first iteration.
LEMMA LoopStart ==
  ASSUME NEW f \in VoyageRecord, NEW s \in 0..Len(f.waitlist)
  PROVE  LoopState(f, s, 0) = [v |-> f, going |-> TRUE, taken |-> {}]
<1>1. f.waitlist \in Seq(Bookings) /\ Len(f.waitlist) \in Nat /\ f.holds \in [Bookings -> Slot]
  BY LenProperties DEF VoyageRecord
<1>2. 0 \in 0..Len(f.waitlist) /\ 0 <= s
  BY <1>1
<1>3. Promoted(f, 0) = {}
  BY DEF Promoted
<1>4. SubSeq(f.waitlist, 0 + 1, Len(f.waitlist)) = f.waitlist
  BY <1>1, SubSeqFull
<1>5. [o \in Bookings |-> IF o \in Promoted(f, 0)
                        THEN [kind |-> booking[o].kind, expires |-> now + HoldDuration]
                        ELSE f.holds[o]] = f.holds
  BY <1>1, <1>3
<1>6. PromoteWaitlist(f, 0) = [f EXCEPT !.holds = f.holds, !.waitlist = f.waitlist]
  <2>1. PromoteWaitlist(f, 0)
          = [f EXCEPT !.holds = [o \in Bookings |-> IF o \in Promoted(f, 0)
                        THEN [kind |-> booking[o].kind, expires |-> now + HoldDuration]
                        ELSE f.holds[o]],
                      !.waitlist = SubSeq(f.waitlist, 0 + 1, Len(f.waitlist))]
    BY <1>2, LoopFields
  <2>2. QED
    BY <1>4, <1>5, <2>1
<1>7. [f EXCEPT !.holds = f.holds, !.waitlist = f.waitlist] = f
  BY DEF VoyageRecord
<1>8. LoopState(f, s, 0) = [v |-> PromoteWaitlist(f, 0), going |-> TRUE, taken |-> Promoted(f, 0)]
  BY <1>2 DEF LoopState
<1>9. QED
  BY <1>3, <1>6, <1>7, <1>8

\* The whole loop.
LEMMA LoopRuns ==
  ASSUME NEW f \in VoyageRecord, NEW s \in 0..Len(f.waitlist), LoopStopsAt(f, s),
         \A o \in Bookings : Waiting(o) => ~HasAllocation(f, o)
  PROVE  Loop(f).v = PromoteWaitlist(f, s) /\ Loop(f).taken = Promoted(f, s)
<1> DEFINE N == Len(f.waitlist)
           h == [n \in 0..N |-> LoopState(f, s, n)]
<1>1. N \in Nat /\ s \in Nat /\ s <= N /\ N \in 0..N
  BY LenProperties DEF VoyageRecord
<1>2. \A n \in 0..N :
        LoopState(f, s, n) = IF n = 0 THEN [v |-> f, going |-> TRUE, taken |-> {}]
                             ELSE Iteration(h[n - 1])
  <2> TAKE n \in 0..N
  <2>1. CASE n = 0
    BY <2>1, LoopStart
  <2>2. CASE n # 0
    <3>1. n - 1 \in 0..N /\ n - 1 # N /\ (n - 1) + 1 = n
      BY <1>1, <2>2
    <3>2. h[n - 1] = LoopState(f, s, n - 1)
      BY <3>1
    <3>3. Iteration(LoopState(f, s, n - 1)) = LoopState(f, s, (n - 1) + 1)
      BY <3>1, OneIteration
    <3> HIDE DEF h, N
    <3>4. QED
      BY <2>2, <3>1, <3>2, <3>3
  <2>3. QED
    BY <2>1, <2>2
<1>3. h = [n \in 0..N |-> IF n = 0 THEN [v |-> f, going |-> TRUE, taken |-> {}] ELSE Iteration(h[n - 1])]
  <2> DEFINE g == [n \in 0..N |-> IF n = 0 THEN [v |-> f, going |-> TRUE, taken |-> {}]
                                  ELSE Iteration(h[n - 1])]
  <2>1. \A n \in 0..N : h[n] = g[n]
    BY <1>2
  <2>2. QED
    BY <2>1
<1>4. Loop(f) = h[N]
  <2> HIDE DEF h
  <2>1. QED
    BY <1>1, <1>3, LoopSolved
<1>5. Loop(f) = LoopState(f, s, N)
  BY <1>1, <1>4
<1>6. CASE N <= s
  <2>1. N = s /\ LoopState(f, s, N)
                   = [v |-> PromoteWaitlist(f, N), going |-> TRUE, taken |-> Promoted(f, N)]
    BY <1>1, <1>6 DEF LoopState
  <2>2. QED
    BY <1>5, <2>1
<1>7. CASE ~(N <= s)
  <2>1. LoopState(f, s, N) = [v |-> PromoteWaitlist(f, s), going |-> FALSE, taken |-> Promoted(f, s)]
    BY <1>7 DEF LoopState
  <2>2. QED
    BY <1>5, <2>1
<1>8. QED
  BY <1>6, <1>7

\* The loop stops at exactly one place: before the first stuck entry.
LEMMA OneStop ==
  ASSUME NEW f \in VoyageRecord
  PROVE  \E s \in 0..Len(f.waitlist) :
           /\ LoopStopsAt(f, s)
           /\ {n \in 0..Len(f.waitlist) : LoopStopsAt(f, n)} = {s}
<1> DEFINE L == f.waitlist
           T == {k \in 0..Len(L) : k = Len(L) \/ Stuck(f, L[k + 1])}
<1>1. Len(L) \in Nat
  BY LenProperties DEF VoyageRecord
<1>2. PICK m \in T : \A k \in T : m <= k
  <2>1. T \in SUBSET Nat /\ Len(L) \in T
    BY <1>1
  <2> HIDE DEF T
  <2>2. QED
    BY <2>1, LeastNatural
<1>3. m \in 0..Len(L) /\ m \in Nat
  BY <1>1, <1>2
<1>4. ASSUME NEW i \in 1..m
      PROVE  ~Stuck(f, L[i])
  <2>1. i - 1 \in 0..Len(L) /\ ~(m <= i - 1) /\ (i - 1) + 1 = i
    BY <1>1, <1>3
  <2>2. i - 1 \notin T
    <3> HIDE DEF T
    <3>1. QED
      BY <1>2, <2>1
  <2>3. QED
    BY <2>1, <2>2
<1>5. LoopStopsAt(f, m)
  BY <1>1, <1>2, <1>4 DEF LoopStopsAt
<1>6. ASSUME NEW n \in 0..Len(L), LoopStopsAt(f, n)
      PROVE  n = m
  <2>1. CASE n < m
    <3>1. n + 1 \in 1..m /\ n < Len(L)
      BY <1>1, <1>3, <2>1
    <3>2. QED
      BY <1>4, <1>6, <3>1 DEF LoopStopsAt
  <2>2. CASE m < n
    <3>1. m + 1 \in 1..n /\ m < Len(L)
      BY <1>1, <1>3, <2>2
    <3>2. QED
      BY <1>5, <1>6, <3>1 DEF LoopStopsAt
  <2>3. QED
    BY <1>1, <1>3, <2>1, <2>2
<1>7. {n \in 0..Len(L) : LoopStopsAt(f, n)} = {m}
  BY <1>3, <1>5, <1>6
<1>8. QED
  BY <1>3, <1>5, <1>7

\* The promotion loop of the code, one iteration per step and with its error
\* exits, does what the model of a rollback says it does.
THEOREM LoopHasClosedForm == Spec => []LoopIsClosedForm
<1>1. SpaceInv => LoopIsClosedForm
  <2> SUFFICES ASSUME SpaceInv, NEW b \in Bookings, Exists(b)
               PROVE  LET freed == ReleaseSpace(voyage[VoyageOf(b)], b)
                          fits  == {n \in 0..Len(freed.waitlist) : LoopStopsAt(freed, n)}
                      IN
                      /\ Cardinality(fits) = 1
                      /\ \A n \in fits :
                           /\ Loop(freed).v = PromoteWaitlist(freed, n)
                           /\ Loop(freed).taken = Promoted(freed, n)
    BY DEF LoopIsClosedForm
  <2> DEFINE r == voyage[VoyageOf(b)]
             f == ReleaseSpace(r, b)
  <2>1. VoyageOf(b) \in Voyages /\ r \in VoyageRecord
    BY DEF SpaceInv, TypeInv, TypeOK, Placed
  <2>2. f \in VoyageRecord
    BY <2>1, ReleaseSpaceType
  <2>3. ASSUME NEW o \in Bookings, Waiting(o)
        PROVE  ~HasAllocation(f, o)
    <3>1. r.holds[o] = NoSlot /\ r.confirmed[o] = NoSlot
      BY <2>1, <2>3 DEF SpaceInv, SpaceFollowsState, Waiting, Paid
    <3>2. f.holds[o] = NoSlot /\ f.confirmed[o] = NoSlot
      BY <2>1, <3>1 DEF ReleaseSpace, VoyageRecord
    <3> HIDE DEF f
    <3>3. QED
      BY <3>2 DEF HasAllocation
  <2> HIDE DEF f
  <2>4. PICK s \in 0..Len(f.waitlist) :
          LoopStopsAt(f, s) /\ {n \in 0..Len(f.waitlist) : LoopStopsAt(f, n)} = {s}
    BY <2>2, OneStop
  <2>5. Loop(f).v = PromoteWaitlist(f, s) /\ Loop(f).taken = Promoted(f, s)
    BY <2>2, <2>3, <2>4, LoopRuns
  <2>6. Cardinality({s}) = 1
    BY FS_Singleton
  <2>7. QED
    BY <2>4, <2>5, <2>6 DEF f
<1>2. Spec => []SpaceInv
  BY SpaceInit, SpaceStep, PTL DEF Spec
<1>3. QED
  BY <1>1, <1>2, PTL
==============================================================================
