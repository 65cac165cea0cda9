-------------------------- MODULE BookingSpaceProofs --------------------------
(***************************************************************************)
(* Proofs that the voyages agree with the bookings: the capacity holds and *)
(* the maps of holds and confirmed slots follow the booking states.        *)
(***************************************************************************)
EXTENDS BookingProofs

(* The capacity.  Only PayAndWin adds a confirmed slot; every other call     *)
(* keeps or empties entries of the map Confirmed and keeps the capacities.   *)

\* A call that does not touch the confirmed slots keeps the capacity.
LEMMA CapacityFrame ==
  ASSUME TypeInv, CapacityRespected, voyage' \in [Voyages -> VoyageRecord],
         \A v \in Voyages : /\ voyage'[v].capacity = voyage[v].capacity
                            /\ \A b \in Bookings, k \in Kinds :
                                 voyage'[v].confirmed[b].kind = k
                                   => voyage[v].confirmed[b].kind = k
  PROVE  CapacityRespected'
<1> SUFFICES ASSUME NEW v \in Voyages, NEW k \in Kinds
             PROVE  Cardinality(InPool(voyage'[v].confirmed, k)) <= voyage'[v].capacity[k]
  BY DEF CapacityRespected, confirmedCountFor
<1>1. Cardinality(InPool(voyage'[v].confirmed, k)) <= Cardinality(InPool(voyage[v].confirmed, k))
  BY PoolMonotone
<1>2. Cardinality(InPool(voyage[v].confirmed, k)) <= voyage[v].capacity[k]
  BY DEF CapacityRespected, confirmedCountFor
<1>3. voyage[v].capacity[k] \in Nat
  BY DEF TypeInv, TypeOK, VoyageRecord
<1>4. QED
  BY <1>1, <1>2, <1>3, PoolFinite

\* What a rollback of b that handles n entries of the waitlist leaves behind.
RolledBack(b, target, v, n) ==
  /\ voyage'[v] = PromoteWaitlist(ReleaseSpace(voyage[v], b), n)
  /\ booking' = [o \in Bookings |->
       IF o = b THEN [booking[b] EXCEPT !.state = target, !.locked = FALSE]
       ELSE IF o \in Promoted(ReleaseSpace(voyage[v], b), n)
            THEN [booking[o] EXCEPT !.state = "space_allocated"]
            ELSE booking[o]]

\* A rollback changes the booking's own voyage only.
LEMMA RollbackEffect ==
  ASSUME TypeInv, NEW b \in Bookings, Exists(b), NEW target, RollbackTo(b, target),
         NEW v \in Voyages, VoyageOf(b) = v
  PROVE  /\ \A u \in Voyages \ {v} : voyage'[u] = voyage[u]
         /\ \E n \in 0..Len(voyage[v].waitlist) : RolledBack(b, target, v, n)
<1> DEFINE freed == ReleaseSpace(voyage[v], b)
<1>1. voyage[v] \in VoyageRecord /\ voyage \in [Voyages -> VoyageRecord]
  BY DEF TypeInv, TypeOK
<1>2. freed.waitlist = voyage[v].waitlist
  BY <1>1 DEF ReleaseSpace, VoyageRecord
<1>3. QED
  BY <1>1, <1>2 DEF RollbackTo, RolledBack

\* The fields of the voyage a rollback leaves behind.
LEMMA PromoteFields ==
  ASSUME NEW r \in VoyageRecord, NEW b \in Bookings, NEW n \in Nat, NEW f, NEW w,
         f = ReleaseSpace(r, b), w = PromoteWaitlist(f, n)
  PROVE  /\ w.capacity = r.capacity
         /\ w.ports = r.ports
         /\ w.waitlist = SubSeq(r.waitlist, n + 1, Len(r.waitlist))
         /\ \A o \in Bookings :
              /\ w.confirmed[o] = IF o = b THEN NoSlot ELSE r.confirmed[o]
              /\ o \in Promoted(f, n) => w.holds[o].kind = booking[o].kind
              /\ o \notin Promoted(f, n) =>
                   w.holds[o] = IF o = b THEN NoSlot ELSE r.holds[o]
<1>1. /\ f.capacity = r.capacity /\ f.ports = r.ports /\ f.waitlist = r.waitlist
      /\ f.confirmed = [r.confirmed EXCEPT ![b] = NoSlot]
      /\ f.holds = [r.holds EXCEPT ![b] = NoSlot]
      /\ f \in VoyageRecord
  BY ReleaseSpaceType DEF ReleaseSpace, VoyageRecord
<1>2. r.holds \in [Bookings -> Slot] /\ r.confirmed \in [Bookings -> Slot]
  BY DEF VoyageRecord
<1>3. /\ w.capacity = f.capacity /\ w.ports = f.ports
      /\ w.waitlist = SubSeq(f.waitlist, n + 1, Len(f.waitlist))
      /\ w.confirmed = f.confirmed
      /\ w.holds = [o \in Bookings |->
                      IF o \in Promoted(f, n)
                      THEN [kind |-> KindOf[o], expires |-> now + HoldDuration]
                      ELSE f.holds[o]]
  BY <1>1 DEF PromoteWaitlist, AllocateHolds, VoyageRecord
<1>4. QED
  BY <1>1, <1>2, <1>3 DEF KindOf

\* A rollback frees space.
LEMMA CapacityRollback ==
  ASSUME TypeInv, CapacityRespected, NEW b \in Bookings, Exists(b), NEW target \in States,
         RollbackTo(b, target), NEW v \in Voyages, VoyageOf(b) = v
  PROVE  CapacityRespected'
<1> DEFINE r == voyage[v]
<1>1. TypeInv'
  BY RollbackType
<1>2. PICK n \in 0..Len(r.waitlist) : voyage'[v] = PromoteWaitlist(ReleaseSpace(r, b), n)
  BY RollbackEffect DEF RolledBack
<1>3. r \in VoyageRecord /\ n \in Nat
  BY DEF TypeInv, TypeOK, VoyageRecord
<1>4. /\ voyage'[v].capacity = r.capacity
      /\ \A a \in Bookings :
           voyage'[v].confirmed[a] = IF a = b THEN NoSlot ELSE r.confirmed[a]
  <2> DEFINE f == ReleaseSpace(r, b)
             w == PromoteWaitlist(f, n)
  <2>1. voyage'[v] = w
    BY <1>2
  <2> HIDE DEF r, f, w
  <2>2. f = ReleaseSpace(r, b) /\ w = PromoteWaitlist(f, n)
    BY DEF f, w
  <2>3. QED
    BY <1>3, <2>1, <2>2, PromoteFields
<1>5. \A a \in Bookings, k \in Kinds : voyage'[v].confirmed[a].kind = k => r.confirmed[a].kind = k
  BY <1>4 DEF NoSlot, Kinds
<1>6. \A u \in Voyages \ {v} : voyage'[u] = voyage[u]
  BY RollbackEffect
<1>7. \A u \in Voyages : /\ voyage'[u].capacity = voyage[u].capacity
                         /\ \A a \in Bookings, k \in Kinds :
                              voyage'[u].confirmed[a].kind = k
                                => voyage[u].confirmed[a].kind = k
  <2> TAKE u \in Voyages
  <2>1. CASE u = v
    BY <1>4, <1>5, <2>1
  <2>2. CASE u # v
    BY <1>6, <2>2
  <2>3. QED
    BY <2>1, <2>2
<1>8. QED
  BY <1>1, <1>7, CapacityFrame DEF TypeInv, TypeOK

\* Voyages whose confirmed slots stay or go: the cases that touch one voyage.
LEMMA CapacityOneVoyage ==
  ASSUME TypeInv, CapacityRespected, NEW v \in Voyages, NEW r \in VoyageRecord,
         voyage' = [voyage EXCEPT ![v] = r],
         \A k \in Kinds : confirmedCountFor(r, k) <= r.capacity[k]
  PROVE  CapacityRespected'
  BY DEF CapacityRespected, TypeInv, TypeOK, confirmedCountFor

\* A deposit that wins uses a slot that was free.
LEMMA CapacityPayAndWin ==
  ASSUME TypeInv, CapacityRespected, NEW b \in Bookings, NEW key, PayAndWin(b, key)
  PROVE  CapacityRespected'
<1> DEFINE v == VoyageOf(b)
           r == voyage[v]
           h == r.holds[b].kind
           w == ConfirmSpace(r, b)
<1>1. v \in Voyages /\ r \in VoyageRecord
  BY DEF PayAndWin, MayPay, TypeInv, TypeOK, Placed, Exists, StateOf
<1>2. w \in VoyageRecord
  BY <1>1, ConfirmSpaceType
<1>3. /\ w.capacity = r.capacity
      /\ w.confirmed = [r.confirmed EXCEPT ![b] = r.holds[b]]
  BY <1>1 DEF ConfirmSpace, VoyageRecord
<1>4. ~(Cardinality(InPool(r.confirmed, h)) >= r.capacity[h])
  BY DEF PayAndWin, Saturated, confirmedCountFor
<1>5. ASSUME NEW k \in Kinds
      PROVE  confirmedCountFor(w, k) <= w.capacity[k]
  <2>1. r.capacity[k] \in Nat
    BY <1>1 DEF VoyageRecord
  <2>2. Cardinality(InPool(r.confirmed, k)) <= r.capacity[k]
    BY <1>1 DEF CapacityRespected, confirmedCountFor
  <2>3. \A a \in Bookings \ {b} : w.confirmed[a].kind = k => r.confirmed[a].kind = k
    BY <1>1, <1>3 DEF VoyageRecord
  <2>4. CASE k = h
    <3>1. Cardinality(InPool(w.confirmed, k)) <= Cardinality(InPool(r.confirmed, k)) + 1
      BY <2>3, PoolGrowsByOne
    <3>2. QED
      BY <1>3, <1>4, <2>1, <2>4, <3>1, PoolFinite DEF confirmedCountFor
  <2>5. CASE k # h
    <3>1. w.confirmed[b].kind # k
      BY <1>1, <1>3, <2>5 DEF VoyageRecord
    <3>2. Cardinality(InPool(w.confirmed, k)) <= Cardinality(InPool(r.confirmed, k))
      BY <2>3, <3>1, PoolMonotone
    <3>3. QED
      BY <1>3, <2>1, <2>2, <3>2, PoolFinite DEF confirmedCountFor
  <2>6. QED
    BY <2>4, <2>5
<1>6. voyage' = [voyage EXCEPT ![v] = w]
  BY DEF PayAndWin
<1>7. QED
  BY <1>1, <1>2, <1>5, <1>6, CapacityOneVoyage

\* A new voyage is empty.
LEMMA CapacityCreateVoyage ==
  ASSUME TypeInv, CapacityRespected, NEW v \in Voyages, NEW req \in VoyageRequests,
         CreateVoyage(v, req)
  PROVE  CapacityRespected'
<1> DEFINE r == NewVoyage(req.capacity, req.cutoff, req.departure, req.ports)
<1>1. r.capacity \in [Kinds -> Nat] /\ r \in VoyageRecord
  <2>1. /\ req.capacity \in [Kinds -> Int] /\ req.cutoff \in Nat
        /\ req.departure \in Nat /\ req.ports \in SUBSET Ports
    BY InputAssumption
  <2>2. req.capacity \in [Kinds -> Nat]
    BY <2>1 DEF CreateVoyage
  <2>3. r \in VoyageRecord
    BY <2>1, <2>2, NewVoyageType
  <2>4. QED
    BY <2>2, <2>3 DEF NewVoyage
<1>2. ASSUME NEW k \in Kinds
      PROVE  confirmedCountFor(r, k) <= r.capacity[k]
  <2>1. InPool(r.confirmed, k) = {}
    BY DEF InPool, NewVoyage, NoSlot, Kinds
  <2>2. QED
    BY <1>1, <2>1, FS_EmptySet DEF confirmedCountFor
<1>3. QED
  BY <1>1, <1>2, CapacityOneVoyage DEF CreateVoyage

\* Every step respects the capacity.
LEMMA CapacityStep ==
  TypeInv /\ CapacityRespected /\ [Next]_vars => CapacityRespected'
<1> SUFFICES ASSUME TypeInv, CapacityRespected, [Next]_vars PROVE CapacityRespected'
  OBVIOUS
<1>1. TypeInv'
  BY TypeStep
<1>2. CASE UNCHANGED voyage
  BY <1>2 DEF CapacityRespected
<1>3. ASSUME NEW v \in Voyages, NEW req \in VoyageRequests, CreateVoyage(v, req)
      PROVE  CapacityRespected'
  BY <1>3, CapacityCreateVoyage
<1>4. ASSUME NEW b \in Bookings, AllocateSpace(b)
      PROVE  CapacityRespected'
  <2> DEFINE r == voyage[VoyageOf(b)]
             w == AllocateHolds(r, {b}, KindOf, now + HoldDuration)
  <2>1. VoyageOf(b) \in Voyages /\ r \in VoyageRecord
    BY <1>4 DEF AllocateSpace, MayAllocate, TypeInv, TypeOK, Placed, Exists, StateOf
  <2>2. w.capacity = r.capacity /\ w.confirmed = r.confirmed
    BY <2>1 DEF AllocateHolds, VoyageRecord
  <2>3. \A v \in Voyages : /\ voyage'[v].capacity = voyage[v].capacity
                           /\ voyage'[v].confirmed = voyage[v].confirmed
    BY <1>4, <2>1, <2>2 DEF AllocateSpace, MayAllocate, TypeInv, TypeOK
  <2>4. QED
    BY <1>1, <2>3, CapacityFrame DEF TypeInv, TypeOK
<1>5. ASSUME NEW b \in Bookings, NEW key \in DepositKeys \cup {None}, PayAndWin(b, key)
      PROVE  CapacityRespected'
  BY <1>5, CapacityPayAndWin
<1>6. ASSUME NEW b \in Bookings, NEW key \in DepositKeys \cup {None}, PayAndLose(b, key)
      PROVE  CapacityRespected'
  <2> DEFINE r == voyage[VoyageOf(b)]
             w == AddToWaitlist(ReleaseSpace(r, b), b)
  <2>1. VoyageOf(b) \in Voyages /\ r \in VoyageRecord
    BY <1>6 DEF PayAndLose, MayPay, TypeInv, TypeOK, Placed, Exists, StateOf
  <2>2. /\ w.capacity = r.capacity
        /\ w.confirmed = [r.confirmed EXCEPT ![b] = NoSlot]
    BY <2>1 DEF AddToWaitlist, ReleaseSpace, VoyageRecord
  <2>3. \A a \in Bookings, k \in Kinds : w.confirmed[a].kind = k => r.confirmed[a].kind = k
    BY <2>1, <2>2 DEF VoyageRecord, NoSlot, Kinds
  <2>4. /\ voyage'[VoyageOf(b)] = w
        /\ \A v \in Voyages \ {VoyageOf(b)} : voyage'[v] = voyage[v]
    BY <1>6, <2>1 DEF PayAndLose, TypeInv, TypeOK
  <2>5. \A v \in Voyages : /\ voyage'[v].capacity = voyage[v].capacity
                           /\ \A a \in Bookings, k \in Kinds :
                                voyage'[v].confirmed[a].kind = k
                                  => voyage[v].confirmed[a].kind = k
    <3> TAKE v \in Voyages
    <3>1. CASE v = VoyageOf(b)
      <4>1. voyage'[v] = w /\ voyage[v] = r
        BY <2>4, <3>1
      <4>2. QED
        <5> HIDE DEF w, r
        <5>1. QED
          BY <2>2, <2>3, <4>1
    <3>2. CASE v # VoyageOf(b)
      BY <2>4, <3>2
    <3>3. QED
      BY <3>1, <3>2
  <2>6. QED
    BY <1>1, <2>5, CapacityFrame DEF TypeInv, TypeOK
<1>7. ASSUME NEW b \in Bookings,
             Cancel(b) \/ CustomsReject(b) \/ CancelExpiredHold(b)
               \/ CancelForCutoffNonCompliance(b)
      PROVE  CapacityRespected'
  <2>1. Exists(b) /\ \E target \in States : RollbackTo(b, target)
    BY <1>7 DEF Cancel, CustomsReject, CancelExpiredHold, CancelForCutoffNonCompliance,
                Exists, StateOf, States, validTransitions
  <2>2. VoyageOf(b) \in Voyages
    BY <2>1 DEF TypeInv, Placed
  <2>3. QED
    BY <2>1, <2>2, CapacityRollback
<1>8. ASSUME NEW b \in Bookings,
             \/ \E req \in Requests : Create(b, req)
             \/ \E cert \in Certificates \cup {None} : SubmitDocuments(b, cert)
             \/ VerifyGeneral(b)
             \/ \E s \in Locations : VerifyDangerous(b, s)
             \/ CustomsRelease(b)
             \/ \E bill \in Bills : BindBill(b, bill)
             \/ Confirm(b)
             \/ \E port \in Ports : ChangePort(b, port)
             \/ Requeue(b)
      PROVE  UNCHANGED voyage
  BY <1>8 DEF Create, SubmitDocuments, VerifyGeneral, VerifyDangerous, CustomsRelease,
              BindBill, Confirm, ChangePort, Requeue
<1>9. ASSUME NEW s \in Locations, NEW c \in StorageCapacities, CreateStorage(s, c)
      PROVE  UNCHANGED voyage
  BY <1>9 DEF CreateStorage
<1>10. CASE Tick \/ UNCHANGED vars
  BY <1>2, <1>10 DEF Tick, vars
<1>11. CASE ApiStep
  BY <1>2, <1>3, <1>4, <1>5, <1>6, <1>7, <1>8, <1>9, <1>11 DEF ApiStep
<1>12. QED
  BY <1>7, <1>10, <1>11 DEF Next

\* Nobody is promised more space than there is: however many holds compete and
\* in whatever order deposits, rollbacks and promotions come, each pool of each
\* voyage has at most as many confirmed bookings as its capacity.
THEOREM CapacityIsRespected == Spec => []CapacityRespected
<1>1. Init => CapacityRespected
  <2> SUFFICES ASSUME Init, NEW v \in Voyages, NEW k \in Kinds
               PROVE  confirmedCountFor(voyage[v], k) <= voyage[v].capacity[k]
    BY DEF CapacityRespected
  <2>1. InPool(voyage[v].confirmed, k) = {} /\ voyage[v].capacity[k] = 0
    BY DEF Init, NoVoyage, NewVoyage, InPool, NoSlot, Kinds
  <2>2. QED
    BY <2>1, FS_EmptySet DEF confirmedCountFor
<1>2. Spec => []TypeInv
  BY TypeInit, TypeStep, PTL DEF Spec
<1>3. QED
  BY <1>1, <1>2, CapacityStep, PTL DEF Spec
------------------------------------------------------------------------------
(* Holds and confirmed slots.  SpaceFollowsState is not inductive alone: a   *)
(* promotion gives a hold to whoever is on the list, so the entries of a     *)
(* list must be bookings of that voyage, and a voyage that is created must   *)
(* not have bookings already.                                                *)

ListedHere ==
  \A v \in Voyages : \A i \in DOMAIN voyage[v].waitlist :
    VoyageOf(voyage[v].waitlist[i]) = v /\ Exists(voyage[v].waitlist[i])

Sails == \A b \in Bookings : Exists(b) => VoyageExists(VoyageOf(b))

SpaceInv == TypeInv /\ SpaceFollowsState /\ ListedHere /\ Sails

\* The entries of the waitlists are bookings.
LEMMA ListedBookings ==
  ASSUME SpaceInv, NEW v \in Voyages, NEW i \in DOMAIN voyage[v].waitlist
  PROVE  /\ voyage[v].waitlist[i] \in Bookings
         /\ booking[voyage[v].waitlist[i]].voyage = v
         /\ booking[voyage[v].waitlist[i]].state # "absent"
<1>1. voyage[v].waitlist \in Seq(Bookings)
  BY DEF SpaceInv, TypeInv, TypeOK, VoyageRecord
<1>2. voyage[v].waitlist[i] \in Bookings
  BY <1>1, ElementOfSeq, LenProperties
<1>3. QED
  BY <1>2 DEF SpaceInv, ListedHere, VoyageOf, Exists, StateOf

\* One conjunct of SpaceFollowsState.
Follows(v, b) ==
  /\ voyage[v].confirmed[b] # NoSlot <=> VoyageOf(b) = v /\ Paid(b)
  /\ VoyageOf(b) = v /\ StateOf(b) = "space_allocated" => voyage[v].holds[b] # NoSlot
  /\ voyage[v].holds[b] # NoSlot =>
       VoyageOf(b) = v /\ StateOf(b) \in {"space_allocated", "cancelled"}
  /\ voyage[v].confirmed[b].kind \in {booking[b].kind, "none"}
  /\ voyage[v].holds[b].kind \in {booking[b].kind, "none"}

\* SpaceFollowsState, voyage by voyage and booking by booking.
LEMMA FollowsAll == SpaceFollowsState <=> \A v \in Voyages, b \in Bookings : Follows(v, b)
  BY DEF SpaceFollowsState, Follows

\* A booking keeps its place: same voyage and cargo, and a state that asks for
\* the same slots.
KeepsPlace(b) ==
  /\ booking'[b].voyage = booking[b].voyage
  /\ booking'[b].kind = booking[b].kind
  /\ Exists(b)' <=> Exists(b)
  /\ Paid(b)' <=> Paid(b)
  /\ booking'[b].state = "space_allocated" <=> StateOf(b) = "space_allocated"
  /\ StateOf(b) = "cancelled" => booking'[b].state = "cancelled"

\* Calls that leave the voyages and everybody's place alone.
LEMMA SpaceFrame ==
  ASSUME SpaceInv, TypeInv', voyage' = voyage, \A b \in Bookings : KeepsPlace(b)
  PROVE  SpaceInv'
<1>1. ASSUME NEW v \in Voyages, NEW b \in Bookings
      PROVE  Follows(v, b)'
  <2>1. Follows(v, b) /\ KeepsPlace(b)
    BY FollowsAll DEF SpaceInv
  <2>2. QED
    BY <2>1 DEF Follows, KeepsPlace, Paid, StateOf, VoyageOf
<1>2. SpaceFollowsState'
  BY <1>1 DEF SpaceFollowsState, Follows
<1>3. ListedHere'
  <2> SUFFICES ASSUME NEW v \in Voyages, NEW i \in DOMAIN voyage[v].waitlist
               PROVE  VoyageOf(voyage[v].waitlist[i])' = v /\ Exists(voyage[v].waitlist[i])'
    BY DEF ListedHere
  <2>1. voyage[v].waitlist[i] \in Bookings
    BY ElementOfSeq, LenProperties DEF SpaceInv, TypeInv, TypeOK, VoyageRecord
  <2>2. KeepsPlace(voyage[v].waitlist[i])
    BY <2>1
  <2>3. QED
    BY <2>2 DEF SpaceInv, ListedHere, KeepsPlace, VoyageOf, Exists
<1>4. Sails'
  BY DEF SpaceInv, Sails, KeepsPlace, VoyageExists, VoyageOf, Exists
<1>5. QED
  BY <1>2, <1>3, <1>4 DEF SpaceInv

\* One booking changes its record and keeps its place.
LEMMA SpaceOneBooking ==
  ASSUME SpaceInv, TypeInv', voyage' = voyage, NEW b \in Bookings, NEW r,
         booking' = [booking EXCEPT ![b] = r],
         r.voyage = booking[b].voyage, r.kind = booking[b].kind,
         StateOf(b) # "absent", r.state # "absent",
         r.state \in {"deposit_paid", "customs_released", "confirmed"} <=> Paid(b),
         r.state = "space_allocated" <=> StateOf(b) = "space_allocated",
         StateOf(b) = "cancelled" => r.state = "cancelled"
  PROVE  SpaceInv'
<1>1. ASSUME NEW a \in Bookings
      PROVE  KeepsPlace(a)
  <2>1. CASE a = b
    BY <2>1 DEF KeepsPlace, Exists, Paid, StateOf, SpaceInv, TypeInv, TypeOK
  <2>2. CASE a # b
    BY <2>2 DEF KeepsPlace, Exists, Paid, StateOf, SpaceInv, TypeInv, TypeOK
  <2>3. QED
    BY <2>1, <2>2
<1>2. QED
  BY <1>1, SpaceFrame

\* Calls that change one voyage r into w, the record of b and nobody else's
\* place: what is left to show is about b and the slots of that voyage.
LEMMA SpaceOneVoyage ==
  ASSUME SpaceInv, TypeInv', NEW b \in Bookings, NEW v \in Voyages, NEW w \in VoyageRecord,
         Exists(b), VoyageOf(b) = v, voyage' = [voyage EXCEPT ![v] = w],
         w.ports = voyage[v].ports,
         \A i \in DOMAIN w.waitlist :
           w.waitlist[i] = b \/ \E j \in DOMAIN voyage[v].waitlist :
                                  w.waitlist[i] = voyage[v].waitlist[j],
         booking'[b].voyage = v, Exists(b)',
         Follows(v, b)',
         \A a \in Bookings \ {b} :
           /\ booking'[a].voyage = booking[a].voyage
           /\ booking'[a].kind = booking[a].kind
           /\ Exists(a)' <=> Exists(a)
           /\ Follows(v, a)'
           /\ VoyageOf(a) # v => booking'[a] = booking[a]
  PROVE  SpaceInv'
<1>1. ASSUME NEW u \in Voyages, NEW a \in Bookings
      PROVE  Follows(u, a)'
  <2>1. Follows(u, a)
    BY FollowsAll DEF SpaceInv
  <2>2. CASE u = v
    BY <2>2
  <2>3. CASE u # v
    <3>1. voyage'[u] = voyage[u]
      BY <2>3 DEF SpaceInv, TypeInv, TypeOK
    <3>2. CASE VoyageOf(a) = v
      <4>1. voyage[u].confirmed[a] = NoSlot /\ voyage[u].holds[a] = NoSlot
        BY <2>1, <2>3, <3>2 DEF Follows
      <4>2. VoyageOf(a)' = v
        BY <3>2 DEF VoyageOf
      <4>3. QED
        BY <2>3, <3>1, <4>1, <4>2 DEF Follows, NoSlot
    <3>3. CASE VoyageOf(a) # v
      BY <2>1, <3>1, <3>3 DEF Follows, VoyageOf, Paid, StateOf
    <3>4. QED
      BY <3>2, <3>3
  <2>4. QED
    BY <2>2, <2>3
<1>2. SpaceFollowsState'
  BY <1>1 DEF SpaceFollowsState, Follows
<1>3. \A a \in Bookings : booking'[a].voyage = booking[a].voyage /\ (Exists(a)' <=> Exists(a))
  BY DEF VoyageOf
<1>4. ListedHere'
  <2> SUFFICES ASSUME NEW u \in Voyages, NEW i \in DOMAIN voyage'[u].waitlist
               PROVE  /\ booking'[voyage'[u].waitlist[i]].voyage = u
                      /\ booking'[voyage'[u].waitlist[i]].state # "absent"
    BY DEF ListedHere, VoyageOf, Exists
  <2>1. \A x \in Voyages : \A j \in DOMAIN voyage[x].waitlist :
          /\ voyage[x].waitlist[j] \in Bookings
          /\ booking[voyage[x].waitlist[j]].voyage = x
          /\ booking[voyage[x].waitlist[j]].state # "absent"
    BY ListedBookings
  <2>2. CASE u # v
    <3>1. voyage'[u] = voyage[u]
      BY <2>2 DEF SpaceInv, TypeInv, TypeOK
    <3>2. QED
      BY <1>3, <2>1, <3>1 DEF Exists
  <2>3. CASE u = v
    <3>1. voyage'[u] = w
      BY <2>3 DEF SpaceInv, TypeInv, TypeOK
    <3>2. QED
      BY <1>3, <2>1, <2>3, <3>1 DEF Exists
  <2>4. QED
    BY <2>2, <2>3
<1>5. Sails'
  <2> SUFFICES ASSUME NEW a \in Bookings, booking'[a].state # "absent"
               PROVE  voyage'[booking'[a].voyage].ports # {}
    BY DEF Sails, Exists, VoyageExists, VoyageOf
  <2>1. Exists(a) /\ VoyageOf(a) \in Voyages /\ voyage[VoyageOf(a)].ports # {}
    BY <1>3 DEF Exists, SpaceInv, Sails, VoyageExists, TypeInv, Placed
  <2>2. voyage'[VoyageOf(a)].ports = voyage[VoyageOf(a)].ports
    BY <2>1 DEF SpaceInv, TypeInv, TypeOK
  <2>3. QED
    BY <1>3, <2>1, <2>2 DEF VoyageOf
<1>6. QED
  BY <1>2, <1>4, <1>5 DEF SpaceInv

\* AllocateSpace gives a hold to a verified booking.
LEMMA SpaceAllocate ==
  ASSUME SpaceInv, TypeInv', NEW b \in Bookings, AllocateSpace(b),
         NEW v \in Voyages, VoyageOf(b) = v
  PROVE  SpaceInv'
<1> DEFINE r == voyage[v]
           w == AllocateHolds(r, {b}, KindOf, now + HoldDuration)
<1>1. r \in VoyageRecord /\ Exists(b) /\ booking[b].kind \in Kinds
  BY DEF AllocateSpace, MayAllocate, SpaceInv, TypeInv, TypeOK, Placed, Exists, StateOf
<1>2. w \in VoyageRecord
  <2>1. now + HoldDuration \in Nat
    BY ConfigAssumption DEF SpaceInv, TypeInv, TypeOK
  <2>2. \A o \in Bookings \cap {b} : KindOf[o] \in Kinds
    BY <1>1 DEF KindOf
  <2>3. QED
    BY <1>1, <2>1, <2>2, AllocateHoldsType
<1>3. /\ w.ports = r.ports /\ w.waitlist = r.waitlist /\ w.confirmed = r.confirmed
      /\ w.holds[b].kind = booking[b].kind
      /\ \A a \in Bookings \ {b} : w.holds[a] = r.holds[a]
  BY <1>1 DEF AllocateHolds, VoyageRecord, KindOf
<1>4. /\ voyage' = [voyage EXCEPT ![v] = w]
      /\ booking' = [booking EXCEPT ![b].state = "space_allocated"]
  BY DEF AllocateSpace, MayAllocate
<1>5. voyage'[v] = w
  BY <1>1, <1>4 DEF SpaceInv, TypeInv, TypeOK
<1>6. /\ booking'[b].voyage = v
      /\ booking'[b].state = "space_allocated"
      /\ booking'[b].kind = booking[b].kind
      /\ \A a \in Bookings \ {b} : booking'[a] = booking[a]
  BY <1>4 DEF SpaceInv, TypeInv, TypeOK, BookingRecord, VoyageOf
<1>7. \A a \in Bookings : Follows(v, a)
  BY <1>1, FollowsAll DEF SpaceInv
<1>8. Follows(v, b)'
  <2>1. /\ voyage'[v].confirmed[b] = r.confirmed[b]
        /\ voyage'[v].holds[b] # NoSlot
        /\ voyage'[v].holds[b].kind = booking'[b].kind
    BY <1>1, <1>3, <1>5, <1>6 DEF NoSlot, Kinds
  <2>2. r.confirmed[b] = NoSlot
    BY <1>7 DEF AllocateSpace, MayAllocate, Follows, Paid
  <2>3. QED
    BY <1>6, <2>1, <2>2 DEF Follows, Paid, StateOf, VoyageOf, NoSlot
<1>9. ASSUME NEW a \in Bookings \ {b} PROVE Follows(v, a)'
  <2>1. voyage'[v].confirmed[a] = r.confirmed[a] /\ voyage'[v].holds[a] = r.holds[a]
    BY <1>3, <1>5
  <2>2. booking'[a] = booking[a] /\ Follows(v, a)
    BY <1>6, <1>7
  <2>3. QED
    BY <2>1, <2>2 DEF Follows, Paid, StateOf, VoyageOf
<1>10. QED
  <2> HIDE DEF w
  <2>1. QED
    BY <1>1, <1>2, <1>3, <1>4, <1>6, <1>8, <1>9, SpaceOneVoyage DEF Exists

\* The deposit that wins turns the hold into a confirmed slot.
LEMMA SpacePayAndWin ==
  ASSUME SpaceInv, TypeInv', NEW b \in Bookings, NEW key, PayAndWin(b, key),
         NEW v \in Voyages, VoyageOf(b) = v
  PROVE  SpaceInv'
<1> DEFINE r == voyage[v]
           w == ConfirmSpace(r, b)
<1>1. r \in VoyageRecord /\ Exists(b) /\ StateOf(b) = "space_allocated" /\ r.holds[b] # NoSlot
  BY DEF PayAndWin, MayPay, SpaceInv, TypeInv, TypeOK, Exists, StateOf
<1>2. w \in VoyageRecord
  BY <1>1, ConfirmSpaceType
<1>3. /\ w.ports = r.ports /\ w.waitlist = r.waitlist
      /\ w.confirmed[b] = r.holds[b] /\ w.holds[b] = NoSlot
      /\ \A a \in Bookings \ {b} : w.holds[a] = r.holds[a] /\ w.confirmed[a] = r.confirmed[a]
  BY <1>1 DEF ConfirmSpace, VoyageRecord
<1>4. /\ voyage' = [voyage EXCEPT ![v] = w]
      /\ booking' = [booking EXCEPT ![b].state = "deposit_paid"]
  BY DEF PayAndWin
<1>5. voyage'[v] = w
  BY <1>1, <1>4 DEF SpaceInv, TypeInv, TypeOK
<1>6. /\ booking'[b].voyage = v
      /\ booking'[b].state = "deposit_paid"
      /\ booking'[b].kind = booking[b].kind
      /\ \A a \in Bookings \ {b} : booking'[a] = booking[a]
  BY <1>4 DEF SpaceInv, TypeInv, TypeOK, BookingRecord, VoyageOf
<1>7. \A a \in Bookings : Follows(v, a)
  BY <1>1, FollowsAll DEF SpaceInv
<1>8. Follows(v, b)'
  <2>1. /\ voyage'[v].confirmed[b] = r.holds[b]
        /\ voyage'[v].holds[b] = NoSlot
    BY <1>3, <1>5
  <2>2. r.holds[b].kind \in {booking'[b].kind, "none"}
    BY <1>6, <1>7 DEF Follows
  <2>3. QED
    BY <1>1, <1>6, <2>1, <2>2 DEF Follows, Paid, StateOf, VoyageOf, NoSlot
<1>9. ASSUME NEW a \in Bookings \ {b} PROVE Follows(v, a)'
  <2>1. voyage'[v].confirmed[a] = r.confirmed[a] /\ voyage'[v].holds[a] = r.holds[a]
    BY <1>3, <1>5
  <2>2. booking'[a] = booking[a] /\ Follows(v, a)
    BY <1>6, <1>7
  <2>3. QED
    BY <2>1, <2>2 DEF Follows, Paid, StateOf, VoyageOf
<1>10. QED
  <2> HIDE DEF w
  <2>1. QED
    BY <1>1, <1>2, <1>3, <1>4, <1>6, <1>8, <1>9, SpaceOneVoyage DEF Exists

\* What joins a waitlist is the booking or was on it.
LEMMA AddToWaitlistEntries ==
  ASSUME NEW r \in VoyageRecord, NEW b \in Bookings,
         NEW i \in DOMAIN AddToWaitlist(r, b).waitlist
  PROVE  \/ AddToWaitlist(r, b).waitlist[i] = b
         \/ \E j \in DOMAIN r.waitlist : AddToWaitlist(r, b).waitlist[i] = r.waitlist[j]
<1>1. CASE OnWaitlist(r, b)
  BY <1>1 DEF AddToWaitlist
<1>2. CASE ~OnWaitlist(r, b)
  <2>1. r.waitlist \in Seq(Bookings)
    BY DEF VoyageRecord
  <2>2. AddToWaitlist(r, b).waitlist = Append(r.waitlist, b)
    BY <1>2 DEF AddToWaitlist, VoyageRecord
  <2>3. QED
    BY <2>1, <2>2
<1>3. QED
  BY <1>1, <1>2

\* The deposit that loses gives the hold up and joins the waitlist.
LEMMA SpacePayAndLose ==
  ASSUME SpaceInv, TypeInv', NEW b \in Bookings, NEW key, PayAndLose(b, key),
         NEW v \in Voyages, VoyageOf(b) = v
  PROVE  SpaceInv'
<1> DEFINE r == voyage[v]
           f == ReleaseSpace(r, b)
           w == AddToWaitlist(f, b)
<1>1. r \in VoyageRecord /\ Exists(b)
  BY DEF PayAndLose, MayPay, SpaceInv, TypeInv, TypeOK, Exists, StateOf
<1>2. f \in VoyageRecord /\ w \in VoyageRecord
  BY <1>1, ReleaseSpaceType, AddToWaitlistType
<1>3. /\ f.ports = r.ports /\ f.waitlist = r.waitlist
      /\ f.confirmed[b] = NoSlot /\ f.holds[b] = NoSlot
      /\ \A a \in Bookings \ {b} : f.holds[a] = r.holds[a] /\ f.confirmed[a] = r.confirmed[a]
  BY <1>1 DEF ReleaseSpace, VoyageRecord
<1>4. w.ports = f.ports /\ w.holds = f.holds /\ w.confirmed = f.confirmed
  BY <1>2 DEF AddToWaitlist, VoyageRecord
<1>5. \A i \in DOMAIN w.waitlist :
        w.waitlist[i] = b \/ \E j \in DOMAIN r.waitlist : w.waitlist[i] = r.waitlist[j]
  BY <1>2, <1>3, AddToWaitlistEntries
<1>6. /\ voyage' = [voyage EXCEPT ![v] = w]
      /\ booking' = [booking EXCEPT ![b].state = "waitlisted"]
  BY DEF PayAndLose
<1>7. voyage'[v] = w
  BY <1>1, <1>6 DEF SpaceInv, TypeInv, TypeOK
<1>8. /\ booking'[b].voyage = v
      /\ booking'[b].state = "waitlisted"
      /\ \A a \in Bookings \ {b} : booking'[a] = booking[a]
  BY <1>6 DEF SpaceInv, TypeInv, TypeOK, BookingRecord, VoyageOf
<1>9. \A a \in Bookings : Follows(v, a)
  BY <1>1, FollowsAll DEF SpaceInv
<1>10. Follows(v, b)'
  <2>1. voyage'[v].confirmed[b] = NoSlot /\ voyage'[v].holds[b] = NoSlot
    BY <1>3, <1>4, <1>7
  <2>2. QED
    BY <1>8, <2>1 DEF Follows, Paid, StateOf, VoyageOf, NoSlot
<1>11. ASSUME NEW a \in Bookings \ {b} PROVE Follows(v, a)'
  <2>1. voyage'[v].confirmed[a] = r.confirmed[a] /\ voyage'[v].holds[a] = r.holds[a]
    BY <1>3, <1>4, <1>7
  <2>2. booking'[a] = booking[a] /\ Follows(v, a)
    BY <1>8, <1>9
  <2>3. QED
    BY <2>1, <2>2 DEF Follows, Paid, StateOf, VoyageOf
<1>12. QED
  <2> HIDE DEF w
  <2>1. QED
    BY <1>1, <1>2, <1>3, <1>4, <1>5, <1>6, <1>8, <1>10, <1>11, SpaceOneVoyage DEF Exists

\* A rollback takes the slots of b; whoever it promotes gets a hold.  A waiting b
\* may promote itself on the way to cancelled, but not on the way to review.
LEMMA SpaceRollback ==
  ASSUME SpaceInv, TypeInv', NEW b \in Bookings, NEW target \in {"cancelled", "pending_review"},
         target = "pending_review" => ~Waiting(b),
         Exists(b), RollbackTo(b, target),
         NEW v \in Voyages, VoyageOf(b) = v
  PROVE  SpaceInv'
<1> DEFINE r == voyage[v]
           f == ReleaseSpace(r, b)
<1>1. r \in VoyageRecord
  BY DEF SpaceInv, TypeInv, TypeOK
<1>2. PICK n \in 0..Len(r.waitlist) : RolledBack(b, target, v, n)
  <2>1. TypeInv
    BY DEF SpaceInv
  <2>2. QED
    BY <2>1, RollbackEffect
<1>3. /\ voyage'[v] = PromoteWaitlist(f, n)
      /\ booking' = [o \in Bookings |->
           IF o = b THEN [booking[b] EXCEPT !.state = target, !.locked = FALSE]
           ELSE IF o \in Promoted(f, n)
                THEN [booking[o] EXCEPT !.state = "space_allocated"]
                ELSE booking[o]]
  BY <1>2 DEF RolledBack
<1> DEFINE w == PromoteWaitlist(f, n)
<1>4. voyage'[v] = w /\ w \in VoyageRecord
  BY <1>3 DEF TypeInv, TypeOK
<1>5. voyage' = [voyage EXCEPT ![v] = w]
  <2>1. \A u \in Voyages \ {v} : voyage'[u] = voyage[u]
    BY RollbackEffect DEF SpaceInv
  <2>2. QED
    BY <1>4, <2>1 DEF SpaceInv, TypeInv, TypeOK
<1>6. r.waitlist \in Seq(Bookings) /\ n \in Nat /\ n <= Len(r.waitlist)
  BY <1>1, <1>3 DEF VoyageRecord
<1>7. /\ w.ports = r.ports
      /\ w.waitlist = SubSeq(r.waitlist, n + 1, Len(r.waitlist))
      /\ \A o \in Bookings :
           /\ w.confirmed[o] = IF o = b THEN NoSlot ELSE r.confirmed[o]
           /\ o \in Promoted(f, n) => w.holds[o].kind = booking[o].kind
           /\ o \notin Promoted(f, n) =>
                w.holds[o] = IF o = b THEN NoSlot ELSE r.holds[o]
  <2>1. n \in Nat
    BY <1>6
  <2> HIDE DEF r, f, w
  <2>2. f = ReleaseSpace(r, b) /\ w = PromoteWaitlist(f, n)
    BY DEF f, w
  <2>3. QED
    BY <1>1, <2>1, <2>2, PromoteFields
<1> HIDE DEF w
<1>8. \A i \in DOMAIN w.waitlist : \E j \in DOMAIN r.waitlist : w.waitlist[i] = r.waitlist[j]
  <2>1. w.waitlist = SubSeq(r.waitlist, n + 1, Len(r.waitlist))
    BY <1>7
  <2> HIDE DEF r
  <2>2. QED
    BY <1>6, <2>1, DropFirstEntries
<1>9. \A o \in Promoted(f, n) :
        /\ o \in Bookings /\ Waiting(o) /\ VoyageOf(o) = v /\ booking[o].kind \in Kinds
  <2> SUFFICES ASSUME NEW o \in Bookings, Waiting(o), NEW i \in 1..n, f.waitlist[i] = o
               PROVE  VoyageOf(o) = v /\ booking[o].kind \in Kinds
    BY DEF Promoted
  <2>1. f.waitlist = r.waitlist
    BY <1>1 DEF ReleaseSpace, VoyageRecord
  <2>2. i \in DOMAIN r.waitlist
    BY <1>6
  <2>3. QED
    BY <2>1, <2>2 DEF SpaceInv, ListedHere, TypeInv, Placed
<1>10. \A a \in Bookings : Follows(v, a)
  BY FollowsAll DEF SpaceInv
<1>11. booking'[b].voyage = v /\ booking'[b].state = target /\ booking'[b].kind = booking[b].kind
  <2>1. booking[b] \in BookingRecord /\ booking[b].voyage = v
    BY DEF SpaceInv, TypeInv, TypeOK, VoyageOf
  <2>2. booking'[b] = [booking[b] EXCEPT !.state = target, !.locked = FALSE]
    BY <1>3
  <2>3. QED
    BY <2>1, <2>2 DEF BookingRecord
<1>12. Follows(v, b)'
  <2>1. voyage'[v].confirmed[b] = NoSlot
    BY <1>1, <1>4, <1>7 DEF VoyageRecord
  <2>2. CASE b \in Promoted(f, n)
    <3>1. voyage'[v].holds[b].kind = booking'[b].kind /\ target = "cancelled"
      BY <1>4, <1>7, <1>9, <1>11, <2>2
    <3>2. QED
      BY <1>11, <2>1, <3>1 DEF Follows, Paid, StateOf, VoyageOf, NoSlot
  <2>3. CASE b \notin Promoted(f, n)
    <3>1. voyage'[v].holds[b] = NoSlot
      BY <1>4, <1>7, <2>3
    <3>2. QED
      BY <1>11, <2>1, <3>1 DEF Follows, Paid, StateOf, VoyageOf, NoSlot
  <2>4. QED
    BY <2>2, <2>3
<1>13. ASSUME NEW a \in Bookings \ {b}
       PROVE  /\ booking'[a].voyage = booking[a].voyage
              /\ booking'[a].kind = booking[a].kind
              /\ Exists(a)' <=> Exists(a)
              /\ Follows(v, a)'
              /\ VoyageOf(a) # v => booking'[a] = booking[a]
  <2>1. Follows(v, a) /\ voyage'[v].confirmed[a] = r.confirmed[a]
    BY <1>1, <1>4, <1>7, <1>10 DEF VoyageRecord
  <2>2. CASE a \in Promoted(f, n)
    <3>1. /\ booking'[a].voyage = booking[a].voyage
          /\ booking'[a].kind = booking[a].kind
          /\ booking'[a].state = "space_allocated"
      BY <1>3, <2>2 DEF SpaceInv, TypeInv, TypeOK, BookingRecord
    <3>2. VoyageOf(a) = v /\ StateOf(a) = "waitlisted" /\ booking[a].kind \in Kinds
      BY <1>9, <2>2 DEF Waiting
    <3>3. voyage'[v].holds[a].kind = booking[a].kind
      BY <1>4, <1>7, <2>2
    <3>4. voyage'[v].holds[a] # NoSlot
      BY <3>2, <3>3 DEF NoSlot, Kinds
    <3>5. r.confirmed[a] = NoSlot
      BY <2>1, <3>2 DEF Follows, Paid
    <3>6. Follows(v, a)'
      BY <2>1, <3>1, <3>2, <3>3, <3>4, <3>5 DEF Follows, Paid, StateOf, VoyageOf, NoSlot
    <3>7. QED
      BY <3>1, <3>2, <3>6 DEF Exists, StateOf
  <2>3. CASE a \notin Promoted(f, n)
    <3>1. booking'[a] = booking[a] /\ voyage'[v].holds[a] = r.holds[a]
      BY <1>3, <1>4, <1>7, <2>3
    <3>2. Follows(v, a)'
      BY <2>1, <3>1 DEF Follows, Paid, StateOf, VoyageOf
    <3>3. QED
      BY <3>1, <3>2 DEF Exists
  <2>4. QED
    BY <2>2, <2>3
<1>14. Exists(b)'
  BY <1>11 DEF Exists
<1>15. QED
  BY <1>4, <1>5, <1>7, <1>8, <1>11, <1>12, <1>13, <1>14, SpaceOneVoyage DEF Exists

\* A booking is created on an existing voyage and has no space yet.
LEMMA SpaceCreate ==
  ASSUME SpaceInv, TypeInv', NEW b \in Bookings, NEW req \in Requests, Create(b, req)
  PROVE  SpaceInv'
<1>1. req.voyage \in Voyages /\ StateOf(b) = "absent"
  BY InputAssumption DEF Create, Exists, StateOf
<1>2. /\ booking'[b].voyage = req.voyage
      /\ booking'[b].kind = req.kind
      /\ booking'[b].state = "initiated"
      /\ \A a \in Bookings \ {b} : booking'[a] = booking[a]
      /\ voyage' = voyage
  BY DEF Create, NewBooking, SpaceInv, TypeInv, TypeOK
<1>3. voyage[req.voyage].ports # {}
  BY DEF Create
<1>4. ASSUME NEW v \in Voyages, NEW a \in Bookings
      PROVE  Follows(v, a)'
  <2>1. Follows(v, a)
    BY FollowsAll DEF SpaceInv
  <2>2. CASE a = b
    <3>1. voyage[v].confirmed[b] = NoSlot /\ voyage[v].holds[b] = NoSlot
      BY <1>1, <2>1, <2>2 DEF Follows, Paid
    <3>2. QED
      BY <1>2, <2>2, <3>1 DEF Follows, Paid, StateOf, NoSlot
  <2>3. CASE a # b
    BY <1>2, <2>1, <2>3 DEF Follows, Paid, StateOf, VoyageOf
  <2>4. QED
    BY <2>2, <2>3
<1>5. SpaceFollowsState'
  BY <1>4 DEF SpaceFollowsState, Follows
<1>6. ListedHere'
  <2> SUFFICES ASSUME NEW v \in Voyages, NEW i \in DOMAIN voyage[v].waitlist
               PROVE  /\ booking'[voyage[v].waitlist[i]].voyage = v
                      /\ booking'[voyage[v].waitlist[i]].state # "absent"
    BY <1>2 DEF ListedHere, VoyageOf, Exists
  <2>1. voyage[v].waitlist[i] \in Bookings
    BY ElementOfSeq, LenProperties DEF SpaceInv, TypeInv, TypeOK, VoyageRecord
  <2>2. /\ booking[voyage[v].waitlist[i]].voyage = v
        /\ booking[voyage[v].waitlist[i]].state # "absent"
    BY DEF SpaceInv, ListedHere, VoyageOf, Exists
  <2>3. voyage[v].waitlist[i] # b
    BY <1>1, <2>2 DEF StateOf
  <2>4. QED
    BY <1>2, <2>1, <2>2, <2>3
<1>7. Sails'
  BY <1>2, <1>3 DEF SpaceInv, Sails, Exists, VoyageExists, VoyageOf
<1>8. QED
  BY <1>5, <1>6, <1>7 DEF SpaceInv

\* No booking points at a voyage that is created now.
LEMMA SpaceCreateVoyage ==
  ASSUME SpaceInv, TypeInv', NEW v \in Voyages, NEW req \in VoyageRequests,
         CreateVoyage(v, req)
  PROVE  SpaceInv'
<1> DEFINE r == NewVoyage(req.capacity, req.cutoff, req.departure, req.ports)
<1>1. /\ voyage' = [voyage EXCEPT ![v] = r]
      /\ booking' = booking
      /\ voyage[v].ports = {} /\ r.ports # {}
  BY DEF CreateVoyage, VoyageExists, NewVoyage
<1>2. r.waitlist = <<>> /\ \A a \in Bookings : r.holds[a] = NoSlot /\ r.confirmed[a] = NoSlot
  BY DEF NewVoyage
<1>3. /\ voyage'[v] = r
      /\ \A u \in Voyages \ {v} : voyage'[u] = voyage[u]
  BY <1>1 DEF SpaceInv, TypeInv, TypeOK
<1>4. \A a \in Bookings : Exists(a) => VoyageOf(a) # v
  BY <1>1 DEF SpaceInv, Sails, VoyageExists
<1>5. ASSUME NEW u \in Voyages, NEW a \in Bookings
      PROVE  Follows(u, a)'
  <2>1. CASE u = v
    <3>1. voyage'[u].holds[a] = NoSlot /\ voyage'[u].confirmed[a] = NoSlot
      BY <1>2, <1>3, <2>1
    <3>2. VoyageOf(a) = v => StateOf(a) = "absent"
      BY <1>4 DEF Exists, StateOf
    <3>3. QED
      BY <1>1, <2>1, <3>1, <3>2 DEF Follows, Paid, StateOf, VoyageOf, NoSlot
  <2>2. CASE u # v
    <3>1. voyage'[u] = voyage[u] /\ Follows(u, a)
      BY <1>3, <2>2, FollowsAll DEF SpaceInv
    <3>2. QED
      BY <1>1, <3>1 DEF Follows, Paid, StateOf, VoyageOf
  <2>3. QED
    BY <2>1, <2>2
<1>6. SpaceFollowsState'
  BY <1>5 DEF SpaceFollowsState, Follows
<1>7. ListedHere'
  <2> SUFFICES ASSUME NEW u \in Voyages, NEW i \in DOMAIN voyage'[u].waitlist
               PROVE  /\ booking'[voyage'[u].waitlist[i]].voyage = u
                      /\ booking'[voyage'[u].waitlist[i]].state # "absent"
    BY DEF ListedHere, VoyageOf, Exists
  <2>1. u # v
    BY <1>2, <1>3, EmptySeq
  <2>2. voyage'[u] = voyage[u]
    BY <1>3, <2>1
  <2>3. QED
    BY <1>1, <2>2 DEF SpaceInv, ListedHere, VoyageOf, Exists
<1>8. Sails'
  <2> SUFFICES ASSUME NEW a \in Bookings, Exists(a)
               PROVE  voyage'[VoyageOf(a)].ports # {}
    BY <1>1 DEF Sails, VoyageExists, Exists, VoyageOf
  <2>1. VoyageOf(a) \in Voyages /\ voyage[VoyageOf(a)].ports # {}
    BY DEF SpaceInv, Sails, VoyageExists, TypeInv, Placed
  <2>2. QED
    BY <1>3, <1>4, <2>1
<1>9. QED
  BY <1>6, <1>7, <1>8 DEF SpaceInv

\* Every step keeps the voyages in line with the bookings.
LEMMA SpaceStep == SpaceInv /\ [Next]_vars => SpaceInv'
<1> SUFFICES ASSUME SpaceInv, [Next]_vars PROVE SpaceInv'
  OBVIOUS
<1>1. TypeInv /\ TypeInv'
  BY TypeStep DEF SpaceInv
<1>2. CASE UNCHANGED vars
  BY <1>2 DEF vars, SpaceInv, TypeInv, TypeOK, Placed, SpaceFollowsState, ListedHere, Sails,
              Paid, StateOf, VoyageOf, Exists, VoyageExists
<1>3. CASE UNCHANGED <<booking, voyage>>
  BY <1>1, <1>3 DEF SpaceInv, SpaceFollowsState, ListedHere, Sails,
                    Paid, StateOf, VoyageOf, Exists, VoyageExists
<1>4. ASSUME NEW v \in Voyages, NEW req \in VoyageRequests, CreateVoyage(v, req)
      PROVE  SpaceInv'
  BY <1>1, <1>4, SpaceCreateVoyage
<1>5. ASSUME NEW b \in Bookings, NEW req \in Requests, Create(b, req)
      PROVE  SpaceInv'
  BY <1>1, <1>5, SpaceCreate
<1>6. ASSUME NEW b \in Bookings, AllocateSpace(b)
      PROVE  SpaceInv'
  <2>1. VoyageOf(b) \in Voyages
    BY <1>1, <1>6 DEF AllocateSpace, MayAllocate, TypeInv, Placed, Exists, StateOf
  <2>2. QED
    BY <1>1, <1>6, <2>1, SpaceAllocate
<1>7. ASSUME NEW b \in Bookings, NEW key \in DepositKeys \cup {None}, PayAndWin(b, key)
      PROVE  SpaceInv'
  <2>1. VoyageOf(b) \in Voyages
    BY <1>1, <1>7 DEF PayAndWin, MayPay, TypeInv, Placed, Exists, StateOf
  <2>2. QED
    BY <1>1, <1>7, <2>1, SpacePayAndWin
<1>8. ASSUME NEW b \in Bookings, NEW key \in DepositKeys \cup {None}, PayAndLose(b, key)
      PROVE  SpaceInv'
  <2>1. VoyageOf(b) \in Voyages
    BY <1>1, <1>8 DEF PayAndLose, MayPay, TypeInv, Placed, Exists, StateOf
  <2>2. QED
    BY <1>1, <1>8, <2>1, SpacePayAndLose
<1>9. ASSUME NEW b \in Bookings, Exists(b), NEW target \in {"cancelled", "pending_review"},
             target = "pending_review" => ~Waiting(b), RollbackTo(b, target)
      PROVE  SpaceInv'
  <2>1. VoyageOf(b) \in Voyages
    BY <1>1, <1>9 DEF TypeInv, Placed
  <2>2. QED
    BY <1>1, <1>9, <2>1, SpaceRollback
<1>10. ASSUME NEW b \in Bookings,
              Cancel(b) \/ CancelExpiredHold(b) \/ CancelForCutoffNonCompliance(b)
       PROVE  SpaceInv'
  BY <1>9, <1>10 DEF Cancel, CancelExpiredHold, CancelForCutoffNonCompliance, Exists, StateOf
<1>11. ASSUME NEW b \in Bookings, CustomsReject(b)
       PROVE  SpaceInv'
  BY <1>9, <1>11 DEF CustomsReject, Exists, StateOf, Waiting
<1>12. ASSUME NEW b \in Bookings, NEW r, voyage' = voyage, StateOf(b) # "absent",
              booking' = [booking EXCEPT ![b] = r], r.state # "absent",
              r.voyage = booking[b].voyage, r.kind = booking[b].kind,
              r.state \in {"deposit_paid", "customs_released", "confirmed"} <=> Paid(b),
              r.state = "space_allocated" <=> StateOf(b) = "space_allocated",
              StateOf(b) = "cancelled" => r.state = "cancelled"
       PROVE  SpaceInv'
  BY <1>1, <1>12, SpaceOneBooking
<1>13. \A b \in Bookings : booking[b] \in BookingRecord
  BY <1>1 DEF TypeInv, TypeOK
<1>14. ASSUME NEW b \in Bookings, NEW cert \in Certificates \cup {None}, SubmitDocuments(b, cert)
       PROVE  SpaceInv'
  <2> DEFINE r == [booking[b] EXCEPT !.state = "docs_submitted",
                       !.cert = IF cert # None THEN cert ELSE booking[b].cert, !.packing = TRUE]
  <2>1. StateOf(b) = "initiated"
    BY <1>13, <1>14 DEF SubmitDocuments, Legal, CanTransitionTo, validTransitions, Exists,
                        StateOf, BookingRecord, States
  <2>2. r.state = "docs_submitted" /\ r.voyage = booking[b].voyage /\ r.kind = booking[b].kind
    BY <1>13 DEF BookingRecord
  <2>3. booking' = [booking EXCEPT ![b] = r] /\ voyage' = voyage
    BY <1>14 DEF SubmitDocuments
  <2>4. QED
    BY <1>12, <2>1, <2>2, <2>3 DEF Paid
<1>15. ASSUME NEW b \in Bookings, VerifyGeneral(b)
       PROVE  SpaceInv'
  <2> DEFINE r == [booking[b] EXCEPT !.state = "storage_verified"]
  <2>1. StateOf(b) = "docs_submitted"
    BY <1>15 DEF VerifyGeneral
  <2>2. r.state = "storage_verified" /\ r.voyage = booking[b].voyage /\ r.kind = booking[b].kind
    BY <1>13 DEF BookingRecord
  <2>3. booking' = [booking EXCEPT ![b] = r] /\ voyage' = voyage
    BY <1>15 DEF VerifyGeneral
  <2>4. QED
    BY <1>12, <2>1, <2>2, <2>3 DEF Paid
<1>16. ASSUME NEW b \in Bookings, NEW s \in Locations, VerifyDangerous(b, s)
       PROVE  SpaceInv'
  <2> DEFINE r == [booking[b] EXCEPT !.state = "storage_verified", !.location = s, !.locked = TRUE]
  <2>1. StateOf(b) = "docs_submitted"
    BY <1>16 DEF VerifyDangerous
  <2>2. r.state = "storage_verified" /\ r.voyage = booking[b].voyage /\ r.kind = booking[b].kind
    BY <1>13 DEF BookingRecord
  <2>3. booking' = [booking EXCEPT ![b] = r] /\ voyage' = voyage
    BY <1>16 DEF VerifyDangerous
  <2>4. QED
    BY <1>12, <2>1, <2>2, <2>3 DEF Paid
<1>17. ASSUME NEW b \in Bookings, CustomsRelease(b)
       PROVE  SpaceInv'
  <2> DEFINE r == [booking[b] EXCEPT !.state = "customs_released", !.released = now]
  <2>1. StateOf(b) = "deposit_paid"
    BY <1>17 DEF CustomsRelease
  <2>2. r.state = "customs_released" /\ r.voyage = booking[b].voyage /\ r.kind = booking[b].kind
    BY <1>13 DEF BookingRecord
  <2>3. booking' = [booking EXCEPT ![b] = r] /\ voyage' = voyage
    BY <1>17 DEF CustomsRelease
  <2>4. QED
    BY <1>12, <2>1, <2>2, <2>3 DEF Paid
<1>18. ASSUME NEW b \in Bookings, Confirm(b)
       PROVE  SpaceInv'
  <2> DEFINE r == [booking[b] EXCEPT !.state = "confirmed"]
  <2>1. StateOf(b) = "customs_released"
    BY <1>18 DEF Confirm
  <2>2. r.state = "confirmed" /\ r.voyage = booking[b].voyage /\ r.kind = booking[b].kind
    BY <1>13 DEF BookingRecord
  <2>3. booking' = [booking EXCEPT ![b] = r] /\ voyage' = voyage
    BY <1>18 DEF Confirm
  <2>4. QED
    BY <1>12, <2>1, <2>2, <2>3 DEF Paid
<1>19. ASSUME NEW b \in Bookings, NEW bill \in Bills, BindBill(b, bill)
       PROVE  SpaceInv'
  <2> DEFINE r == [booking[b] EXCEPT !.bill = bill]
  <2>1. StateOf(b) # "absent"
    BY <1>19 DEF BindBill, Exists, StateOf
  <2>2. r.state = StateOf(b) /\ r.voyage = booking[b].voyage /\ r.kind = booking[b].kind
    BY <1>13 DEF BookingRecord, StateOf
  <2>3. booking' = [booking EXCEPT ![b] = r] /\ voyage' = voyage
    BY <1>19 DEF BindBill
  <2>4. QED
    BY <1>12, <2>1, <2>2, <2>3 DEF Paid
<1>20. ASSUME NEW b \in Bookings, NEW port \in Ports, ChangePort(b, port)
       PROVE  SpaceInv'
  <2> DEFINE r == [booking[b] EXCEPT !.port = port]
  <2>1. StateOf(b) # "absent"
    BY <1>20 DEF ChangePort, Exists, StateOf
  <2>2. r.state = StateOf(b) /\ r.voyage = booking[b].voyage /\ r.kind = booking[b].kind
    BY <1>13 DEF BookingRecord, StateOf
  <2>3. booking' = [booking EXCEPT ![b] = r] /\ voyage' = voyage
    BY <1>20 DEF ChangePort
  <2>4. QED
    BY <1>12, <2>1, <2>2, <2>3 DEF Paid
<1>21. ASSUME NEW b \in Bookings, Requeue(b)
       PROVE  SpaceInv'
  <2> DEFINE x == IF booking[b].cert # None /\ booking[b].packing
                  THEN "docs_submitted" ELSE "initiated"
             r == [booking[b] EXCEPT !.requeues = @ + 1, !.state = x]
  <2>1. StateOf(b) = "pending_review"
    BY <1>21 DEF Requeue
  <2>2. /\ r.state \in {"docs_submitted", "initiated"}
        /\ r.voyage = booking[b].voyage /\ r.kind = booking[b].kind
    BY <1>13 DEF BookingRecord
  <2>3. booking' = [booking EXCEPT ![b] = r] /\ voyage' = voyage
    BY <1>21 DEF Requeue
  <2>4. QED
    BY <1>12, <2>1, <2>2, <2>3 DEF Paid
<1>22. CASE Tick \/ \E s \in Locations, c \in StorageCapacities : CreateStorage(s, c)
  BY <1>3, <1>22 DEF Tick, CreateStorage
<1>23. CASE ApiStep
  BY <1>4, <1>5, <1>6, <1>7, <1>8, <1>10, <1>11, <1>14, <1>15, <1>16, <1>17, <1>18, <1>19,
     <1>20, <1>21, <1>22, <1>23 DEF ApiStep
<1>24. QED
  BY <1>2, <1>10, <1>22, <1>23 DEF Next

\* The start: no booking, no slot and no entry.
LEMMA SpaceInit == Init => SpaceInv
  BY TypeInit DEF Init, SpaceInv, SpaceFollowsState, ListedHere, Sails, NoVoyage, NewVoyage,
                  NoBooking, NoSlot, Exists, VoyageOf, StateOf, Paid

\* Space and bookings never disagree: whatever is called in whatever order, a slot
\* is confirmed for exactly the bookings that have paid, and every booking that
\* is asked for a deposit has the hold the deposit is meant to confirm.
THEOREM SpaceFollowsBookings == Spec => []SpaceFollowsState
<1>1. SpaceInv => SpaceFollowsState
  BY DEF SpaceInv
<1>2. QED
  BY <1>1, SpaceInit, SpaceStep, PTL DEF Spec
==============================================================================
