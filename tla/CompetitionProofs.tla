-------------------------- MODULE CompetitionProofs ---------------------------
(***************************************************************************)
(* Proof that the booking service implements the abstract competition for  *)
(* slots: every step of the service, seen through the roles, the rooms and *)
(* the order of those who wait, is a step of SlotCompetition or none.      *)
(***************************************************************************)
EXTENDS WaitlistProofs

------------------------------------------------------------------------------
(* Who competes. *)

\* An id that has not been handed out names no voyage.
Blank == \A b \in Bookings : ~Exists(b) => VoyageOf(b) = None

\* Nothing changes in the competition: the calls that move documents, storage and
\* customs on, the clock and the creation of storage locations.
Idle ==
  /\ voyage' = voyage
  /\ \A b \in Bookings :
       /\ booking'[b].voyage = booking[b].voyage /\ booking'[b].kind = booking[b].kind
       /\ RoleOf(b)' = RoleOf(b)
       /\ Waiting(b)' <=> Waiting(b)
       /\ Exists(b)' <=> Exists(b)

\* A call about one booking that takes it from a role to the same role.
LEMMA IdleBy ==
  ASSUME NEW b \in Bookings, Only(b), SameCargo(b), voyage' = voyage, Exists(b), Exists(b)',
         \/ booking'[b].state = StateOf(b)
         \/ /\ StateOf(b) \notin {"space_allocated", "waitlisted"}
            /\ booking'[b].state \notin {"space_allocated", "waitlisted"}
            /\ Paid(b)' <=> Paid(b)
  PROVE  Idle
<1>1. RoleOf(b)' = RoleOf(b) /\ (Waiting(b)' <=> Waiting(b))
  BY DEF RoleOf, Paid, Waiting, StateOf
<1>2. ASSUME NEW a \in Bookings \ {b}
      PROVE  /\ booking'[a] = booking[a]
             /\ RoleOf(a)' = RoleOf(a)
             /\ Waiting(a)' <=> Waiting(a)
             /\ Exists(a)' <=> Exists(a)
  BY <1>2 DEF Only, RoleOf, Paid, Waiting, StateOf, Exists
<1>3. QED
  BY <1>1, <1>2 DEF Idle, SameCargo

\* Every step is one of these.
LEMMA CompetitionCases ==
  ASSUME TypeInv, [Next]_vars
  PROVE  \/ Idle
         \/ \E v \in Voyages, req \in VoyageRequests : CreateVoyage(v, req)
         \/ \E b \in Bookings :
              \/ \E req \in Requests : Create(b, req)
              \/ AllocateSpace(b)
              \/ \E key \in DepositKeys \cup {None} : PayAndWin(b, key) \/ PayAndLose(b, key)
              \/ \E target : RollsBack(b, target)
<1>1. CASE Tick \/ UNCHANGED vars
  BY <1>1 DEF Tick, vars, Idle, RoleOf, Paid, Waiting, StateOf, Exists
<1>2. ASSUME NEW s \in Locations, NEW c \in StorageCapacities, CreateStorage(s, c)
      PROVE  Idle
  BY <1>2 DEF CreateStorage, Idle, RoleOf, Paid, Waiting, StateOf, Exists
<1>3. ASSUME NEW b \in Bookings, NEW cert \in Certificates \cup {None}, SubmitDocuments(b, cert)
      PROVE  Idle
  <2>1. voyage' = voyage
    BY <1>3 DEF SubmitDocuments
  <2>2. QED
    BY <1>3, <2>1, SubmitEffect, IdleBy DEF Exists, Paid, StateOf
<1>4. ASSUME NEW b \in Bookings, NEW s \in Locations, VerifyDangerous(b, s)
      PROVE  Idle
  <2>1. voyage' = voyage
    BY <1>4 DEF VerifyDangerous
  <2>2. QED
    BY <1>4, <2>1, VerifyEffect, IdleBy DEF Exists, Paid, StateOf
<1>5. ASSUME NEW b \in Bookings, NEW from, NEW to, Moves(b, from, to), voyage' = voyage,
             \/ from = to /\ from # "absent"
             \/ <<from, to>> \in {<<"docs_submitted", "storage_verified">>,
                                  <<"deposit_paid", "customs_released">>,
                                  <<"customs_released", "confirmed">>}
      PROVE  Idle
  BY <1>5, IdleBy DEF Moves, Exists, Paid, StateOf
<1>6. ASSUME NEW b \in Bookings, VerifyGeneral(b) \/ CustomsRelease(b) \/ Confirm(b)
      PROVE  Idle
  <2>1. CASE VerifyGeneral(b)
    BY <1>5, <2>1, MovesBy DEF VerifyGeneral
  <2>2. CASE CustomsRelease(b)
    BY <1>5, <2>2, ReleaseEffect DEF CustomsRelease
  <2>3. CASE Confirm(b)
    BY <1>5, <2>3, MovesBy DEF Confirm
  <2>4. QED
    BY <1>6, <2>1, <2>2, <2>3
<1>7. ASSUME NEW b \in Bookings, NEW bill \in Bills, BindBill(b, bill)
      PROVE  Idle
  <2>1. voyage' = voyage
    BY <1>7 DEF BindBill
  <2>2. QED
    BY <1>7, <2>1, BillEffect, IdleBy DEF Exists, StateOf
<1>8. ASSUME NEW b \in Bookings, NEW port \in Ports, ChangePort(b, port)
      PROVE  Idle
  <2>1. voyage' = voyage
    BY <1>8 DEF ChangePort
  <2>2. QED
    BY <1>5, <1>8, <2>1, PortEffect
<1>9. ASSUME NEW b \in Bookings, Requeue(b)
      PROVE  Idle
  <2>1. voyage' = voyage
    BY <1>9 DEF Requeue
  <2>2. QED
    BY <1>9, <2>1, RequeueEffect, IdleBy DEF Exists, Paid, StateOf
<1>10. CASE \E b \in Bookings : \/ Cancel(b) \/ CustomsReject(b)
                                \/ CancelExpiredHold(b) \/ CancelForCutoffNonCompliance(b)
  BY <1>10, RollbackCalls
<1>11. QED
  BY <1>1, <1>2, <1>3, <1>4, <1>6, <1>7, <1>8, <1>9, <1>10 DEF Next, ApiStep

\* Only Create hands out an id.
LEMMA BlankStep == TypeInv /\ Blank /\ [Next]_vars => Blank'
<1> SUFFICES ASSUME TypeInv, Blank, [Next]_vars, NEW a \in Bookings, ~Exists(a)'
             PROVE  booking'[a].voyage = None
  BY DEF Blank, VoyageOf
<1>1. ~Exists(a)
  BY BookingsLast
<1>2. booking[a].voyage = None
  BY <1>1 DEF Blank, VoyageOf
<1>3. CASE Idle
  BY <1>2, <1>3 DEF Idle
<1>4. ASSUME NEW v \in Voyages, NEW req \in VoyageRequests, CreateVoyage(v, req)
      PROVE  booking'[a].voyage = None
  BY <1>2, <1>4 DEF CreateVoyage
<1>5. ASSUME NEW b \in Bookings, NEW req \in Requests, Create(b, req)
      PROVE  booking'[a].voyage = None
  <2>1. Only(b) /\ Exists(b)'
    BY <1>5, CreateEffect DEF Exists
  <2>2. QED
    BY <1>2, <2>1 DEF Only
<1>6. ASSUME NEW b \in Bookings, NEW from, NEW to, Moves(b, from, to)
      PROVE  booking'[a].voyage = None
  BY <1>2, <1>6 DEF Moves, Only, SameCargo
<1>7. ASSUME NEW b \in Bookings, NEW key \in DepositKeys \cup {None},
             AllocateSpace(b) \/ PayAndWin(b, key) \/ PayAndLose(b, key)
      PROVE  booking'[a].voyage = None
  <2>1. CASE AllocateSpace(b)
    BY <1>6, <2>1, MovesBy DEF AllocateSpace
  <2>2. CASE PayAndWin(b, key) \/ PayAndLose(b, key)
    BY <1>6, <2>2, WinEffect, LoseEffect
  <2>3. QED
    BY <1>7, <2>1, <2>2
<1>8. ASSUME NEW b \in Bookings, NEW target, RollsBack(b, target)
      PROVE  booking'[a].voyage = None
  BY <1>2, <1>8, RollbackBookings DEF SameCargo
<1>9. QED
  BY <1>3, <1>4, <1>5, <1>7, <1>8, CompetitionCases

CompetitionInv == SpaceInv /\ WaitlistFollowsState /\ Blank

------------------------------------------------------------------------------
(* Winners and room. *)

\* The winners of a class are the bookings with a confirmed slot of it.
LEMMA WinnersArePool ==
  ASSUME SpaceInv, NEW v \in Voyages, NEW k \in Kinds
  PROVE  SC!Winners(v, k) = InPool(voyage[v].confirmed, k)
<1>1. ASSUME NEW b \in Bookings
      PROVE  (RoleOf(b) = "winner" /\ VoyageOf(b) = v /\ booking[b].kind = k)
               <=> voyage[v].confirmed[b].kind = k
  <2>1. voyage[v].confirmed[b] \in Slot
    BY DEF SpaceInv, TypeInv, TypeOK, VoyageRecord
  <2>2. RoleOf(b) = "winner" <=> Paid(b)
    BY DEF RoleOf, Paid
  <2>3. /\ voyage[v].confirmed[b] # NoSlot <=> VoyageOf(b) = v /\ Paid(b)
        /\ voyage[v].confirmed[b].kind \in {booking[b].kind, "none"}
    BY DEF SpaceInv, SpaceFollowsState
  <2>4. k # "none" /\ (voyage[v].confirmed[b] # NoSlot => voyage[v].confirmed[b].kind # "none")
    BY <2>1 DEF Slot, NoSlot, Kinds
  <2>5. QED
    BY <2>2, <2>3, <2>4 DEF NoSlot
<1>2. QED
  BY <1>1 DEF SC!Winners, InPool

\* There is room in the competition when a hold can be allocated.
LEMMA RoomIsRoom ==
  ASSUME SpaceInv, NEW v \in Voyages, NEW k \in Kinds
  PROVE  SC!HasRoom(v, k) <=> CanAllocateHold(voyage[v], k)
<1>1. SC!Cardinality(SC!Winners(v, k)) = Cardinality(SC!Winners(v, k))
  BY DEF SC!Cardinality, Cardinality
<1>2. QED
  BY <1>1, WinnersArePool DEF SC!HasRoom, CanAllocateHold, confirmedCountFor

\* A pool without room is saturated.
LEMMA SaturatedIsFull ==
  ASSUME SpaceInv, NEW v \in Voyages, NEW k \in Kinds
  PROVE  Saturated(voyage[v], k) <=> ~CanAllocateHold(voyage[v], k)
<1>1. confirmedCountFor(voyage[v], k) \in Nat /\ voyage[v].capacity[k] \in Nat
  BY PoolFinite DEF SpaceInv, TypeInv, TypeOK, VoyageRecord, confirmedCountFor
<1>2. QED
  BY <1>1 DEF Saturated, CanAllocateHold

\* The queue of a venue is the waiting bookings of the voyage.
LEMMA QueueIsWaiting ==
  ASSUME NEW v
  PROVE  SC!Queue(v) = {b \in Bookings : Waiting(b) /\ VoyageOf(b) = v}
<1>1. ASSUME NEW b \in Bookings
      PROVE  RoleOf(b) = "waiting" <=> Waiting(b)
  BY DEF RoleOf, Waiting, Paid
<1>2. QED
  BY <1>1 DEF SC!Queue

------------------------------------------------------------------------------
(* Calls that leave the order of those who wait alone. *)

\* Who waits, for what and in which order decides the order.
LEMMA OrderFrame ==
  ASSUME TypeInv,
         \A b \in Bookings : /\ Waiting(b)' <=> Waiting(b)
                             /\ Waiting(b) => VoyageOf(b)' = VoyageOf(b),
         \A v \in Voyages : voyage'[v].waitlist = voyage[v].waitlist
                              \/ \A b \in Bookings : Waiting(b) => VoyageOf(b) # v
  PROVE  Order' = Order
<1>1. ASSUME NEW a \in Bookings, NEW c \in Bookings
      PROVE  WaitsAhead(a, c)' <=> WaitsAhead(a, c)
  <2>1. CASE ~Waiting(a)
    BY <2>1 DEF WaitsAhead
  <2>2. CASE Waiting(a)
    <3>1. VoyageOf(a) \in Voyages
      BY <2>2 DEF TypeInv, Placed, Exists, Waiting, StateOf
    <3>2. voyage'[VoyageOf(a)].waitlist = voyage[VoyageOf(a)].waitlist
      BY <2>2, <3>1
    <3>3. VoyageOf(a)' = VoyageOf(a)
      BY <2>2
    <3>4. Ahead(VoyageOf(a), a, c)' <=> Ahead(VoyageOf(a), a, c)
      BY <3>2, <3>3 DEF Ahead
    <3>5. QED
      BY <3>3, <3>4 DEF WaitsAhead
  <2>3. QED
    BY <2>1, <2>2
<1>2. QED
  BY <1>1 DEF Order

\* The competition does not see them.
LEMMA IdleStutters ==
  ASSUME TypeInv, Idle
  PROVE  UNCHANGED SC!vars
<1>1. Order' = Order
  BY OrderFrame DEF Idle, VoyageOf
<1>2. QED
  BY <1>1 DEF Idle, SC!vars, VoyageOf

\* A voyage nobody has booked opens.
LEMMA VoyageOpens ==
  ASSUME CompetitionInv, NEW v \in Voyages, NEW req \in VoyageRequests, CreateVoyage(v, req)
  PROVE  SC!Open(v)
<1>1. TypeInv /\ booking' = booking /\ ~VoyageExists(v)
  BY DEF CompetitionInv, SpaceInv, CreateVoyage
<1>2. \A b \in Bookings : VoyageOf(b) # v
  BY <1>1, NoneAssumption DEF CompetitionInv, SpaceInv, Sails, Blank
<1>3. voyage'[v] = NewVoyage(req.capacity, req.cutoff, req.departure, req.ports)
        /\ \A u \in Voyages \ {v} : voyage'[u] = voyage[u]
  BY <1>1 DEF CreateVoyage, TypeInv, TypeOK
<1>4. voyage'[v].capacity \in [Kinds -> Nat]
  <2>1. req.capacity \in [Kinds -> Int] /\ \A k \in Kinds : req.capacity[k] >= 0
    BY InputAssumption DEF CreateVoyage
  <2>2. QED
    BY <1>3, <2>1 DEF NewVoyage
<1>5. Order' = Order
  BY <1>1, <1>2, <1>3, OrderFrame DEF Waiting, StateOf, VoyageOf
<1>6. \A b \in Bookings : RoleOf(b)' = RoleOf(b)
  BY <1>1 DEF RoleOf, Paid, StateOf
<1>7. QED
  BY <1>1, <1>2, <1>3, <1>4, <1>5, <1>6 DEF SC!Open, VoyageOf

\* A new booking enters for its voyage.
LEMMA BookingEnters ==
  ASSUME CompetitionInv, NEW b \in Bookings, NEW req \in Requests, Create(b, req)
  PROVE  SC!Enter(b, req.voyage, req.kind)
<1>1. TypeInv /\ ~Exists(b) /\ voyage' = voyage /\ VoyageOf(b) = None
  BY DEF CompetitionInv, SpaceInv, Create, Blank
<1>2. booking' = [booking EXCEPT ![b] = NewBooking(req)] /\ booking \in [Bookings -> BookingRecord]
  BY <1>1 DEF Create, TypeInv, TypeOK
<1>3. /\ booking'[b].state = "initiated" /\ booking'[b].voyage = req.voyage
      /\ booking'[b].kind = req.kind
      /\ \A a \in Bookings \ {b} : booking'[a] = booking[a]
  BY <1>2 DEF NewBooking
<1>4. \A a \in Bookings : RoleOf(a)' = RoleOf(a) /\ (Waiting(a)' <=> Waiting(a))
  BY <1>1, <1>3 DEF RoleOf, Paid, Waiting, StateOf, Exists
<1>5. Order' = Order
  <2>1. \A a \in Bookings : Waiting(a) => VoyageOf(a)' = VoyageOf(a)
    BY <1>1, <1>3 DEF Waiting, Exists, StateOf, VoyageOf
  <2>2. QED
    BY <1>1, <1>4, <2>1, OrderFrame
<1>6. [a \in Bookings |-> VoyageOf(a)'] = [[a \in Bookings |-> VoyageOf(a)] EXCEPT ![b] = req.voyage]
  BY <1>3 DEF VoyageOf
<1>7. [a \in Bookings |-> booking'[a].kind]
        = [[a \in Bookings |-> booking[a].kind] EXCEPT ![b] = req.kind]
  BY <1>3
<1>8. QED
  BY <1>1, <1>4, <1>5, <1>6, <1>7 DEF SC!Enter

------------------------------------------------------------------------------
(* Holds and deposits. *)

\* A call about b alone gives b a role, and the rooms stay as they are.
LEMMA BecomesBy ==
  ASSUME NEW b \in Bookings, NEW from, NEW to, Moves(b, from, to), NEW r, RoleOf(b)' = r,
         \A v \in Voyages : voyage'[v].capacity = voyage[v].capacity
  PROVE  SC!Becomes(b, r)
<1>1. \A a \in Bookings \ {b} : RoleOf(a)' = RoleOf(a)
  BY DEF Moves, Only, RoleOf, Paid, StateOf
<1>2. \A a \in Bookings : VoyageOf(a)' = VoyageOf(a) /\ booking'[a].kind = booking[a].kind
  BY DEF Moves, Only, SameCargo, VoyageOf
<1>3. QED
  BY <1>1, <1>2 DEF SC!Becomes

\* A booking that gets a hold becomes a holder.
LEMMA HolderHolds ==
  ASSUME CompetitionInv, NEW b \in Bookings, AllocateSpace(b)
  PROVE  SC!Hold(b)
<1> DEFINE v == VoyageOf(b)
           w == AllocateHolds(voyage[v], {b}, KindOf, now + HoldDuration)
<1>1. SpaceInv /\ TypeInv /\ voyage \in [Voyages -> VoyageRecord]
  BY DEF CompetitionInv, SpaceInv, TypeInv, TypeOK
<1>2. StateOf(b) = "storage_verified" /\ Exists(b)
  BY DEF AllocateSpace, MayAllocate, Exists, StateOf
<1>3. v \in Voyages /\ booking[b].kind \in Kinds /\ v # None
  BY <1>1, <1>2, NoneAssumption DEF TypeInv, Placed
<1>4. Moves(b, "storage_verified", "space_allocated")
  BY <1>1, <1>2, MovesBy DEF AllocateSpace
<1>5. RoleOf(b) = "out" /\ RoleOf(b)' = "holder"
  BY <1>4 DEF Moves, RoleOf, Paid, StateOf
<1>6. \A u \in Voyages : /\ voyage'[u].capacity = voyage[u].capacity
                         /\ voyage'[u].waitlist = voyage[u].waitlist
  <2>1. voyage' = [voyage EXCEPT ![v] = w]
    BY DEF AllocateSpace
  <2>2. QED
    BY <1>1, <2>1 DEF AllocateHolds, VoyageRecord
<1>7. SC!HasRoom(v, booking[b].kind)
  BY <1>1, <1>3, RoomIsRoom DEF AllocateSpace, MayAllocate
<1>8. Order' = Order
  <2>1. \A a \in Bookings : /\ Waiting(a)' <=> Waiting(a)
                            /\ Waiting(a) => VoyageOf(a)' = VoyageOf(a)
    BY <1>4 DEF Moves, Only, SameCargo, Waiting, StateOf, VoyageOf
  <2>2. QED
    BY <1>1, <1>6, <2>1, OrderFrame
<1>9. SC!Becomes(b, "holder")
  BY <1>4, <1>5, <1>6, BecomesBy
<1>10. QED
  BY <1>3, <1>5, <1>7, <1>8, <1>9 DEF SC!Hold

\* A deposit that wins makes a holder a winner.
LEMMA WinnerWins ==
  ASSUME CompetitionInv, NEW b \in Bookings, NEW key \in DepositKeys \cup {None},
         PayAndWin(b, key)
  PROVE  SC!Win(b)
<1> DEFINE v == VoyageOf(b)
           w == ConfirmSpace(voyage[v], b)
<1>1. SpaceInv /\ TypeInv /\ voyage \in [Voyages -> VoyageRecord]
  BY DEF CompetitionInv, SpaceInv, TypeInv, TypeOK
<1>2. StateOf(b) = "space_allocated" /\ ~Saturated(voyage[v], voyage[v].holds[b].kind)
  BY DEF PayAndWin, MayPay
<1>3. v \in Voyages /\ booking[b].kind \in Kinds /\ voyage[v].holds[b].kind = booking[b].kind
  BY <1>1, <1>2, HoldHasKind
<1>4. Moves(b, "space_allocated", "deposit_paid")
  BY <1>1, WinEffect
<1>5. RoleOf(b) = "holder" /\ RoleOf(b)' = "winner"
  BY <1>4 DEF Moves, RoleOf, Paid, StateOf
<1>6. \A u \in Voyages : /\ voyage'[u].capacity = voyage[u].capacity
                         /\ voyage'[u].waitlist = voyage[u].waitlist
  <2>1. voyage' = [voyage EXCEPT ![v] = w]
    BY DEF PayAndWin
  <2>2. QED
    BY <1>1, <2>1 DEF ConfirmSpace, VoyageRecord
<1>7. SC!HasRoom(v, booking[b].kind)
  BY <1>1, <1>2, <1>3, RoomIsRoom, SaturatedIsFull
<1>8. Order' = Order
  <2>1. \A a \in Bookings : /\ Waiting(a)' <=> Waiting(a)
                            /\ Waiting(a) => VoyageOf(a)' = VoyageOf(a)
    BY <1>4 DEF Moves, Only, SameCargo, Waiting, StateOf, VoyageOf
  <2>2. QED
    BY <1>1, <1>6, <2>1, OrderFrame
<1>9. SC!Becomes(b, "winner")
  BY <1>4, <1>5, <1>6, BecomesBy
<1>10. QED
  BY <1>3, <1>5, <1>7, <1>8, <1>9 DEF SC!Win

\* A deposit that loses sends a holder behind all those who wait.
LEMMA LoserWaits ==
  ASSUME CompetitionInv, NEW b \in Bookings, NEW key \in DepositKeys \cup {None},
         PayAndLose(b, key)
  PROVE  SC!Lose(b)
<1> DEFINE v == VoyageOf(b)
           L == voyage[v].waitlist
           q == voyage'[v].waitlist
<1>1. SpaceInv /\ TypeInv /\ Listed /\ Entries /\ voyage \in [Voyages -> VoyageRecord]
  BY WaitlistParts DEF CompetitionInv, SpaceInv, TypeInv, TypeOK
<1>2. Joins(b)
  BY <1>1, LoserJoins
<1>3. StateOf(b) = "space_allocated" /\ Saturated(voyage[v], voyage[v].holds[b].kind)
  BY DEF PayAndLose, MayPay
<1>4. v \in Voyages /\ booking[b].kind \in Kinds /\ voyage[v].holds[b].kind = booking[b].kind
  BY <1>1, <1>3, HoldHasKind
<1>5. Moves(b, "space_allocated", "waitlisted")
  BY <1>1, LoseEffect
<1>6. RoleOf(b) = "holder" /\ RoleOf(b)' = "waiting"
  BY <1>5 DEF Moves, RoleOf, Paid, StateOf
<1>7. \A u \in Voyages : voyage'[u].capacity = voyage[u].capacity
  <2>1. voyage' = [voyage EXCEPT ![v] = AddToWaitlist(ReleaseSpace(voyage[v], b), b)]
    BY DEF PayAndLose
  <2>2. AddToWaitlist(ReleaseSpace(voyage[v], b), b).capacity = voyage[v].capacity
    BY <1>1, <1>4 DEF AddToWaitlist, ReleaseSpace, VoyageRecord
  <2>3. QED
    BY <1>1, <1>4, <2>1, <2>2
<1>8. ~SC!HasRoom(v, booking[b].kind)
  BY <1>1, <1>3, <1>4, RoomIsRoom, SaturatedIsFull
<1>9. SC!Becomes(b, "waiting")
  BY <1>5, <1>6, <1>7, BecomesBy
<1>10. L \in Seq(Bookings) /\ \A i \in DOMAIN L : L[i] # b
  BY <1>1, <1>3, <1>4 DEF VoyageRecord, Entries, EntryOf
<1>11. q = Append(L, b)
  BY <1>2, <1>10 DEF Joins, OnWaitlist
<1>12. /\ Len(L) \in Nat /\ DOMAIN L = 1..Len(L) /\ DOMAIN q = 1..(Len(L) + 1)
       /\ \A i \in DOMAIN L : q[i] = L[i]
       /\ q[Len(L) + 1] = b
  BY <1>10, <1>11, Appended
<1>13. /\ \A a \in Bookings : VoyageOf(a)' = VoyageOf(a)
       /\ \A a \in Bookings : Waiting(a)' <=> Waiting(a) \/ a = b
       /\ ~Waiting(b)
  BY <1>5 DEF Moves, Only, SameCargo, Waiting, StateOf, VoyageOf
<1>14. ASSUME NEW a \in Bookings, NEW c \in Bookings
       PROVE  WaitsAhead(a, c)' <=> WaitsAhead(a, c) \/ (Waiting(a) /\ VoyageOf(a) = v /\ c = b)
  <2>1. CASE VoyageOf(a) # v
    <3>1. Waiting(a) => VoyageOf(a) \in Voyages /\ a # b
      BY <1>1, <1>13 DEF TypeInv, Placed, Waiting, Exists, StateOf
    <3>2. Waiting(a) => voyage'[VoyageOf(a)] = voyage[VoyageOf(a)]
      BY <1>2, <2>1, <3>1 DEF Joins
    <3>3. Waiting(a) => (Ahead(VoyageOf(a), a, c)' <=> Ahead(VoyageOf(a), a, c))
      BY <1>13, <3>2 DEF Ahead
    <3>4. VoyageOf(b) = v
      OBVIOUS
    <3>5. QED
      BY <1>13, <2>1, <3>3, <3>4 DEF WaitsAhead
  <2>2. CASE VoyageOf(a) = v /\ a = b
    <3>1. ASSUME NEW i \in DOMAIN q, NEW j \in DOMAIN q, i < j, q[i] = b
          PROVE  FALSE
      <4>1. i \in DOMAIN L
        BY <1>12, <3>1
      <4>2. QED
        BY <1>10, <1>12, <3>1, <4>1
    <3>2. ~Ahead(VoyageOf(a), a, c)'
      BY <1>13, <2>2, <3>1 DEF Ahead
    <3>3. QED
      BY <1>13, <2>2, <3>2 DEF WaitsAhead
  <2>3. CASE VoyageOf(a) = v /\ a # b /\ c = b
    <3>1. ASSUME Waiting(a)
          PROVE  Ahead(VoyageOf(a), a, c)'
      <4>1. PICK i \in DOMAIN L : L[i] = a
        BY <1>1, <1>4, <2>3, <3>1 DEF Listed, OnWaitlist
      <4>2. i \in DOMAIN q /\ Len(L) + 1 \in DOMAIN q /\ i < Len(L) + 1
            /\ q[i] = a /\ q[Len(L) + 1] = b
        BY <1>12, <4>1
      <4>3. \E k, j \in DOMAIN q : k < j /\ q[k] = a /\ q[j] = c
        BY <2>3, <4>2
      <4>4. QED
        BY <1>13, <2>3, <4>3 DEF Ahead
    <3>2. QED
      BY <1>13, <2>3, <3>1 DEF WaitsAhead
  <2>4. CASE VoyageOf(a) = v /\ a # b /\ c # b
    <3>1. ASSUME NEW i \in DOMAIN q, NEW j \in DOMAIN q, i < j, q[i] = a, q[j] = c
          PROVE  \E k, m \in DOMAIN L : k < m /\ L[k] = a /\ L[m] = c
      <4>1. i \in DOMAIN L /\ j \in DOMAIN L
        BY <1>12, <2>4, <3>1
      <4>2. QED
        BY <1>12, <3>1, <4>1
    <3>2. ASSUME NEW i \in DOMAIN L, NEW j \in DOMAIN L, i < j, L[i] = a, L[j] = c
          PROVE  \E k, m \in DOMAIN q : k < m /\ q[k] = a /\ q[m] = c
      <4>1. i \in DOMAIN q /\ j \in DOMAIN q
        BY <1>12, <3>2
      <4>2. QED
        BY <1>12, <3>2, <4>1
    <3>3. Ahead(VoyageOf(a), a, c)' <=> Ahead(VoyageOf(a), a, c)
      BY <1>13, <2>4, <3>1, <3>2 DEF Ahead
    <3>4. QED
      BY <1>13, <2>4, <3>3 DEF WaitsAhead
  <2>5. QED
    BY <2>1, <2>2, <2>3, <2>4
<1>15. Order' = Order \cup (SC!Queue(v) \X {b})
  <2>1. \A a, c \in Bookings :
          <<a, c>> \in SC!Queue(v) \X {b} <=> Waiting(a) /\ VoyageOf(a) = v /\ c = b
    BY QueueIsWaiting
  <2>2. SC!Queue(v) \X {b} \subseteq Bookings \X Bookings
    BY QueueIsWaiting
  <2>3. QED
    BY <1>14, <2>1, <2>2 DEF Order
<1>16. QED
  BY <1>6, <1>8, <1>9, <1>15 DEF SC!Lose

------------------------------------------------------------------------------
(* Rollbacks. *)

\* The waiting bookings among the first n entries of the list of v.
Admitted(v, n) ==
  {o \in Bookings : Waiting(o) /\ VoyageOf(o) = v /\ \E i \in 1..n : voyage[v].waitlist[i] = o}

\* Every waiting booking is on the list, those admitted among the first n entries
\* and the others behind them, and an entry stands for one booking.
LEMMA Places ==
  ASSUME CompetitionInv, NEW v \in Voyages, NEW n \in 0..Len(voyage[v].waitlist)
  PROVE  LET L == voyage[v].waitlist IN
         /\ L \in Seq(Bookings) /\ n \in Nat /\ Len(L) \in Nat /\ DOMAIN L = 1..Len(L)
         /\ \A i \in DOMAIN L : VoyageOf(L[i]) = v
         /\ \A i, j \in DOMAIN L : L[i] = L[j] => i = j
         /\ Admitted(v, n) \subseteq SC!Queue(v)
         /\ \A o \in Admitted(v, n) : Waiting(o) /\ \E i \in DOMAIN L : i <= n /\ L[i] = o
         /\ \A o \in SC!Queue(v) \ Admitted(v, n) :
              Waiting(o) /\ \E i \in DOMAIN L : n < i /\ L[i] = o
<1> DEFINE L == voyage[v].waitlist
<1>1. SpaceInv /\ Listed /\ Entries
  BY WaitlistParts DEF CompetitionInv
<1>2. L \in Seq(Bookings) /\ n \in Nat /\ Len(L) \in Nat /\ DOMAIN L = 1..Len(L)
  BY <1>1, LenProperties DEF SpaceInv, TypeInv, TypeOK, VoyageRecord
<1>3. \A i \in DOMAIN L : VoyageOf(L[i]) = v /\ \A j \in DOMAIN L : L[j] = L[i] => j = i
  BY <1>1 DEF Entries, EntryOf
<1>4. Admitted(v, n) \subseteq SC!Queue(v)
  BY QueueIsWaiting DEF Admitted
<1>5. ASSUME NEW o \in Admitted(v, n)
      PROVE  Waiting(o) /\ \E i \in DOMAIN L : i <= n /\ L[i] = o
  <2>1. PICK i \in 1..n : L[i] = o
    BY DEF Admitted
  <2>2. i \in DOMAIN L /\ i <= n
    BY <1>2
  <2>3. QED
    BY <2>1, <2>2 DEF Admitted
<1>6. ASSUME NEW o \in SC!Queue(v) \ Admitted(v, n)
      PROVE  Waiting(o) /\ \E i \in DOMAIN L : n < i /\ L[i] = o
  <2>1. o \in Bookings /\ Waiting(o) /\ VoyageOf(o) = v
    BY QueueIsWaiting
  <2>2. PICK i \in DOMAIN L : L[i] = o
    BY <1>1, <2>1 DEF Listed, OnWaitlist
  <2>3. i \notin 1..n
    BY <2>1, <2>2 DEF Admitted
  <2>4. n < i
    BY <1>2, <2>3
  <2>5. QED
    BY <2>1, <2>2, <2>4
<1>7. QED
  BY <1>2, <1>3, <1>4, <1>5, <1>6

\* The room a rollback leaves is the room without the one who left.
LEMMA FreedRoom ==
  ASSUME CompetitionInv, NEW b \in Bookings, NEW v \in Voyages, VoyageOf(b) = v,
         NEW n \in 0..Len(voyage[v].waitlist), Drops(b, n), NEW k \in Kinds
  PROVE  CanAllocateHold(voyage'[v], k)
           <=> SC!Cardinality(SC!Winners(v, k) \ {b}) < voyage[v].capacity[k]
<1>1. SC!Winners(v, k) = InPool(voyage[v].confirmed, k)
  BY WinnersArePool DEF CompetitionInv
<1>2. voyage'[v].capacity = voyage[v].capacity
      /\ InPool(voyage'[v].confirmed, k) = InPool(voyage[v].confirmed, k) \ {b}
  BY DEF Drops
<1>3. confirmedCountFor(voyage'[v], k) = Cardinality(SC!Winners(v, k) \ {b})
  BY <1>1, <1>2 DEF confirmedCountFor
<1>4. SC!Cardinality(SC!Winners(v, k) \ {b}) = Cardinality(SC!Winners(v, k) \ {b})
  BY DEF SC!Cardinality, Cardinality
<1>5. QED
  BY <1>2, <1>3, <1>4 DEF CanAllocateHold

\* Those whom a rollback promotes are the front of the queue up to the first for
\* whom there is no room.
LEMMA RollbackAdmits ==
  ASSUME CompetitionInv, NEW b \in Bookings, NEW v \in Voyages, VoyageOf(b) = v,
         NEW n \in 0..Len(voyage[v].waitlist), Drops(b, n)
  PROVE  SC!Admits(b, Admitted(v, n))
<1> DEFINE L    == voyage[v].waitlist
           rest == SC!Queue(v) \ Admitted(v, n)
<1>1. /\ L \in Seq(Bookings) /\ n \in Nat /\ Len(L) \in Nat /\ DOMAIN L = 1..Len(L)
      /\ \A i \in DOMAIN L : VoyageOf(L[i]) = v
      /\ \A i, j \in DOMAIN L : L[i] = L[j] => i = j
      /\ Admitted(v, n) \subseteq SC!Queue(v)
      /\ \A o \in Admitted(v, n) : Waiting(o) /\ \E i \in DOMAIN L : i <= n /\ L[i] = o
      /\ \A o \in rest : Waiting(o) /\ \E i \in DOMAIN L : n < i /\ L[i] = o
  BY Places
<1>2. \A o \in SC!Queue(v) : o \in Bookings /\ Waiting(o) /\ VoyageOf(o) = v
  BY QueueIsWaiting
<1>3. \A o \in SC!Queue(v) : booking[o].kind \in Kinds
  BY <1>2 DEF CompetitionInv, SpaceInv, TypeInv, Placed, Exists, Waiting, StateOf
<1>4. \A o \in SC!Queue(v) :
        SC!Admissible(o, b) <=> CanAllocateHold(voyage'[v], booking[o].kind)
  BY <1>2, <1>3, FreedRoom DEF SC!Admissible
<1>5. ASSUME NEW x \in SC!Queue(v), NEW o \in SC!Queue(v),
             NEW i \in DOMAIN L, NEW j \in DOMAIN L, i < j, L[i] = x, L[j] = o
      PROVE  <<x, o>> \in Order
  BY <1>2, <1>5 DEF Order, WaitsAhead, Ahead
<1>6. ASSUME NEW x \in Admitted(v, n)
      PROVE  SC!Admissible(x, b)
  <2>1. PICK i \in DOMAIN L : i <= n /\ L[i] = x
    BY <1>1
  <2>2. i \in 1..n /\ Waiting(L[i])
    BY <1>1, <2>1
  <2>3. CanAllocateHold(voyage'[v], booking[x].kind)
    BY <2>1, <2>2 DEF Drops
  <2>4. QED
    BY <1>1, <1>4, <2>3
<1>7. ASSUME NEW x \in Admitted(v, n), NEW o \in rest
      PROVE  <<x, o>> \in Order
  <2>1. PICK i \in DOMAIN L : i <= n /\ L[i] = x
    BY <1>1
  <2>2. PICK j \in DOMAIN L : n < j /\ L[j] = o
    BY <1>1
  <2>3. i < j
    BY <1>1, <2>1, <2>2
  <2>4. QED
    BY <1>1, <1>5, <2>1, <2>2, <2>3
<1>8. ASSUME rest # {}
      PROVE  \E x \in rest : /\ ~SC!Admissible(x, b)
                             /\ \A o \in rest \ {x} : <<x, o>> \in Order
  <2>1. n < Len(L) /\ n + 1 \in DOMAIN L
    BY <1>1, <1>8
  <2>2. Waiting(L[n + 1]) /\ ~CanAllocateHold(voyage'[v], booking[L[n + 1]].kind)
    BY <2>1 DEF Drops
  <2>3. PICK x \in Bookings : x = L[n + 1]
    BY <2>1, ListedBookings DEF CompetitionInv
  <2>4. x \in SC!Queue(v)
    BY <1>1, <2>1, <2>2, <2>3, QueueIsWaiting
  <2>5. x \notin Admitted(v, n)
    <3>1. ASSUME NEW i \in DOMAIN L, i <= n, L[i] = x
          PROVE  FALSE
      BY <1>1, <2>1, <2>3, <3>1
    <3>2. QED
      BY <1>1, <3>1
  <2>6. ASSUME NEW o \in rest \ {x}
        PROVE  <<x, o>> \in Order
    <3>1. PICK j \in DOMAIN L : n < j /\ L[j] = o
      BY <1>1
    <3>2. n + 1 < j
      BY <1>1, <2>3, <3>1
    <3>3. QED
      BY <1>5, <2>1, <2>3, <2>4, <3>1, <3>2
  <2>7. QED
    BY <1>4, <2>2, <2>3, <2>4, <2>5, <2>6
<1>9. [a \in Bookings |-> VoyageOf(a)][b] = v
  OBVIOUS
<1> HIDE DEF L
<1>10. QED
  BY <1>6, <1>7, <1>8, <1>9 DEF SC!Admits

\* A rollback takes b and the promoted out of the queue.
LEMMA RollbackWaiting ==
  ASSUME CompetitionInv, NEW b \in Bookings, NEW v \in Voyages, VoyageOf(b) = v,
         NEW n \in 0..Len(voyage[v].waitlist), Drops(b, n), NEW o \in Bookings
  PROVE  /\ VoyageOf(o)' = VoyageOf(o) /\ booking'[o].kind = booking[o].kind
         /\ Waiting(o)' <=> Waiting(o) /\ o \notin Admitted(v, n) \cup {b}
         /\ RoleOf(o)' = IF o = b THEN "out"
                         ELSE IF o \in Admitted(v, n) THEN "holder" ELSE RoleOf(o)
<1>1. CASE o = b
  BY <1>1 DEF Drops, SameCargo, Waiting, RoleOf, Paid, StateOf, VoyageOf
<1>2. CASE o # b
  <2>1. \A i \in 1..n : i \in DOMAIN voyage[v].waitlist
    BY Places
  <2>2. (\E i \in 1..n : voyage[v].waitlist[i] = o) => VoyageOf(o) = v
    BY <2>1, WaitlistParts DEF CompetitionInv, Entries, EntryOf
  <2>3. IF o \in Admitted(v, n)
        THEN booking'[o].state = "space_allocated" /\ SameCargo(o)
        ELSE booking'[o] = booking[o]
    BY <1>2, <2>2 DEF Drops, Admitted
  <2>4. CASE o \in Admitted(v, n)
    BY <1>2, <2>3, <2>4 DEF SameCargo, Waiting, RoleOf, Paid, StateOf, VoyageOf
  <2>5. CASE o \notin Admitted(v, n)
    BY <1>2, <2>3, <2>5 DEF Waiting, RoleOf, Paid, StateOf, VoyageOf
  <2>6. QED
    BY <2>4, <2>5
<1>3. QED
  BY <1>1, <1>2

\* The others keep their order.
LEMMA RollbackOrder ==
  ASSUME CompetitionInv, NEW b \in Bookings, NEW v \in Voyages, VoyageOf(b) = v,
         NEW n \in 0..Len(voyage[v].waitlist), Drops(b, n)
  PROVE  Order' = {pair \in Order :
                     \A o \in Admitted(v, n) \cup {b} : o # pair[1] /\ o # pair[2]}
<1> DEFINE L    == voyage[v].waitlist
           q    == voyage'[v].waitlist
           gone == Admitted(v, n) \cup {b}
<1>1. /\ L \in Seq(Bookings) /\ n \in Nat /\ Len(L) \in Nat /\ DOMAIN L = 1..Len(L)
      /\ q = SubSeq(L, n + 1, Len(L))
  BY Places DEF Drops
<1>2. /\ DOMAIN q = 1..(Len(L) - n)
      /\ \A i \in DOMAIN q : n + i \in DOMAIN L /\ q[i] = L[n + i]
      /\ \A j \in DOMAIN L : j > n => j - n \in DOMAIN q /\ q[j - n] = L[j]
  <2> HIDE DEF L, q
  <2>1. QED
    BY <1>1, Dropped
<1>3. \A o \in Bookings : /\ VoyageOf(o)' = VoyageOf(o)
                          /\ Waiting(o)' <=> Waiting(o) /\ o \notin gone
  BY RollbackWaiting
<1>4. ASSUME NEW a \in Bookings \ gone, NEW c \in Bookings \ gone, Waiting(a), Waiting(c),
             VoyageOf(a) = VoyageOf(c)
      PROVE  Ahead(VoyageOf(a), a, c)' <=> Ahead(VoyageOf(a), a, c)
  <2>1. CASE VoyageOf(a) # v
    <3>1. VoyageOf(a) \in Voyages
      BY <1>4 DEF CompetitionInv, SpaceInv, TypeInv, Placed, Waiting, Exists, StateOf
    <3>2. voyage'[VoyageOf(a)] = voyage[VoyageOf(a)]
      BY <2>1, <3>1 DEF Drops
    <3>3. QED
      BY <1>3, <3>2 DEF Ahead
  <2>2. CASE VoyageOf(a) = v
    <3>1. ASSUME NEW i \in DOMAIN q, NEW j \in DOMAIN q, i < j, q[i] = a, q[j] = c
          PROVE  \E k, m \in DOMAIN L : k < m /\ L[k] = a /\ L[m] = c
      <4>1. n + i \in DOMAIN L /\ n + j \in DOMAIN L /\ n + i < n + j
        BY <1>1, <1>2, <3>1
      <4>2. L[n + i] = a /\ L[n + j] = c
        BY <1>2, <3>1
      <4>3. QED
        BY <4>1, <4>2
    <3>2. ASSUME NEW i \in DOMAIN L, NEW j \in DOMAIN L, i < j, L[i] = a, L[j] = c
          PROVE  \E k, m \in DOMAIN q : k < m /\ q[k] = a /\ q[m] = c
      <4>1. i \notin 1..n
        BY <1>4, <2>2, <3>2 DEF Admitted
      <4>2. i > n /\ j > n
        BY <1>1, <3>2, <4>1
      <4>3. /\ i - n \in DOMAIN q /\ q[i - n] = a
            /\ j - n \in DOMAIN q /\ q[j - n] = c
        BY <1>2, <3>2, <4>2
      <4>4. i - n < j - n
        BY <1>1, <3>2
      <4>5. QED
        BY <4>3, <4>4
    <3>3. QED
      BY <1>3, <2>2, <3>1, <3>2 DEF Ahead
  <2>3. QED
    BY <2>1, <2>2
<1>5. ASSUME NEW a \in Bookings, NEW c \in Bookings
      PROVE  WaitsAhead(a, c)' <=> WaitsAhead(a, c) /\ a \notin gone /\ c \notin gone
  <2>1. CASE a \in gone \/ c \in gone
    BY <1>3, <2>1 DEF WaitsAhead
  <2>2. CASE a \notin gone /\ c \notin gone /\ Waiting(a) /\ Waiting(c)
             /\ VoyageOf(a) = VoyageOf(c)
    <3>1. Ahead(VoyageOf(a), a, c)' <=> Ahead(VoyageOf(a), a, c)
      BY <1>4, <2>2
    <3>2. QED
      BY <1>3, <2>2, <3>1 DEF WaitsAhead
  <2>3. CASE ~Waiting(a) \/ ~Waiting(c) \/ VoyageOf(a) # VoyageOf(c)
    BY <1>3, <2>3 DEF WaitsAhead
  <2>4. QED
    BY <2>1, <2>2, <2>3
<1> HIDE DEF gone
<1>6. Order' = {pair \in Order : pair[1] \notin gone /\ pair[2] \notin gone}
  BY <1>5 DEF Order
<1>7. QED
  BY <1>6 DEF gone

\* Whoever is rolled back leaves the competition, and the queue moves up.
LEMMA LeaverLeaves ==
  ASSUME CompetitionInv, NEW b \in Bookings, NEW target, RollsBack(b, target)
  PROVE  SC!Leave(b)
<1> DEFINE v == VoyageOf(b)
<1>1. SpaceInv /\ Exists(b)
  BY DEF CompetitionInv, RollsBack, Exists, StateOf
<1>2. PICK n \in 0..Len(voyage[v].waitlist) : Drops(b, n)
  BY <1>1, RollbackDrops
<1>3. v \in Voyages /\ v # None
  BY <1>1, NoneAssumption DEF SpaceInv, TypeInv, Placed
<1>4. SC!Admits(b, Admitted(v, n))
  BY <1>2, <1>3, RollbackAdmits
<1>5. Admitted(v, n) \in SUBSET SC!Queue(v)
  BY <1>3, Places
<1>6. Order' = {pair \in Order :
                  \A o \in Admitted(v, n) \cup {b} : o # pair[1] /\ o # pair[2]}
  BY <1>2, <1>3, RollbackOrder
<1>7. \A o \in Bookings :
        /\ VoyageOf(o)' = VoyageOf(o) /\ booking'[o].kind = booking[o].kind
        /\ RoleOf(o)' = IF o = b THEN "out"
                        ELSE IF o \in Admitted(v, n) THEN "holder" ELSE RoleOf(o)
  BY <1>2, <1>3, RollbackWaiting
<1>8. \A u \in Voyages : voyage'[u].capacity = voyage[u].capacity
  BY <1>2 DEF Drops
<1> DEFINE rooms   == [u \in Voyages |-> voyage[u].capacity]
           venues  == [a \in Bookings |-> VoyageOf(a)]
           classes == [a \in Bookings |-> booking[a].kind]
           roles   == [a \in Bookings |-> RoleOf(a)]
<1>9. rooms' = rooms /\ venues' = venues /\ classes' = classes
  BY <1>7, <1>8
<1>10. /\ roles'[b] = "out" /\ venues[b] = v
       /\ \A o \in Bookings \ {b} :
            roles'[o] = IF o \in Admitted(v, n) THEN "holder" ELSE roles[o]
  BY <1>7
<1>11. QED
  BY <1>3, <1>4, <1>5, <1>6, <1>9, <1>10 DEF SC!Leave

------------------------------------------------------------------------------
(* The implementation. *)

LEMMA CompetitionInit == Init => SC!Init
<1> SUFFICES ASSUME Init PROVE SC!Init
  OBVIOUS
<1>1. \A v \in Voyages : voyage[v].capacity = [k \in Kinds |-> 0]
  BY DEF Init, NoVoyage, NewVoyage
<1>2. \A b \in Bookings : VoyageOf(b) = None /\ booking[b].kind = "none" /\ StateOf(b) = "absent"
  BY DEF Init, NoBooking, VoyageOf, StateOf
<1>3. \A b \in Bookings : RoleOf(b) = "out" /\ ~Waiting(b)
  BY <1>2 DEF RoleOf, Paid, Waiting
<1>4. Order = {}
  BY <1>3 DEF Order, WaitsAhead
<1>5. QED
  BY <1>1, <1>2, <1>3, <1>4 DEF SC!Init

LEMMA CompetitionStep == CompetitionInv /\ [Next]_vars => [SC!Next]_(SC!vars)
<1> SUFFICES ASSUME CompetitionInv, [Next]_vars
             PROVE  SC!Next \/ UNCHANGED SC!vars
  OBVIOUS
<1>1. TypeInv
  BY DEF CompetitionInv, SpaceInv
<1>2. CASE Idle
  BY <1>1, <1>2, IdleStutters
<1>3. ASSUME NEW v \in Voyages, NEW req \in VoyageRequests, CreateVoyage(v, req)
      PROVE  SC!Next
  BY <1>3, VoyageOpens DEF SC!Next
<1>4. ASSUME NEW b \in Bookings, NEW req \in Requests, Create(b, req)
      PROVE  SC!Next
  <2>1. SC!Enter(b, req.voyage, req.kind)
    BY <1>4, BookingEnters
  <2>2. req.voyage \in Voyages /\ req.kind \in Kinds
    BY InputAssumption
  <2>3. QED
    BY <2>1, <2>2 DEF SC!Next
<1>5. ASSUME NEW b \in Bookings, AllocateSpace(b)
      PROVE  SC!Next
  BY <1>5, HolderHolds DEF SC!Next
<1>6. ASSUME NEW b \in Bookings, NEW key \in DepositKeys \cup {None}, PayAndWin(b, key)
      PROVE  SC!Next
  BY <1>6, WinnerWins DEF SC!Next
<1>7. ASSUME NEW b \in Bookings, NEW key \in DepositKeys \cup {None}, PayAndLose(b, key)
      PROVE  SC!Next
  BY <1>7, LoserWaits DEF SC!Next
<1>8. ASSUME NEW b \in Bookings, NEW target, RollsBack(b, target)
      PROVE  SC!Next
  BY <1>8, LeaverLeaves DEF SC!Next
<1>9. QED
  BY <1>1, <1>2, <1>3, <1>4, <1>5, <1>6, <1>7, <1>8, CompetitionCases

\* The service implements the competition: whatever calls, scheduler passes and ticks
\* interleave, what they do to rooms, roles and the order of those who wait is a
\* behaviour of SlotCompetition.  Stale list entries, leftover holds and second
\* passes after a rejection never show.
THEOREM ServiceImplementsCompetition == Spec => ImplementsSlotCompetition
<1>1. Init => Blank
  BY DEF Init, NoBooking, Blank, VoyageOf
<1>2. Spec => []Blank
  <2>1. SpaceInv => TypeInv
    BY DEF SpaceInv
  <2>2. QED
    BY <1>1, <2>1, SpaceInit, SpaceStep, BlankStep, PTL DEF Spec
<1>3. Spec => []SpaceInv
  BY SpaceInit, SpaceStep, PTL DEF Spec
<1>4. Spec => []CompetitionInv
  BY <1>2, <1>3, WaitlistFollowsBookings, PTL DEF CompetitionInv
<1>5. QED
  BY <1>4, CompetitionInit, CompetitionStep, PTL DEF Spec, ImplementsSlotCompetition, SC!Spec
==============================================================================
