---------------------------- MODULE BookingProofs -----------------------------
(***************************************************************************)
(* Proofs about the booking service for any number of bookings, voyages,   *)
(* locations and requests, and for any capacities and durations.           *)
(***************************************************************************)
EXTENDS BookingProps, FiniteSetTheorems, SequenceTheorems, TLAPS

------------------------------------------------------------------------------
(* What the operations of a voyage preserve and bound. *)

\* A fresh voyage, as voyage.Create builds it, is a voyage record.
LEMMA NewVoyageType ==
  ASSUME NEW capacity \in [Kinds -> Nat], NEW cutoff \in Nat, NEW departure \in Nat,
         NEW ports \in SUBSET Ports
  PROVE  NewVoyage(capacity, cutoff, departure, ports) \in VoyageRecord
  BY DEF NewVoyage, VoyageRecord, Slot

\* AllocateHold keeps the shape of the record.
LEMMA AllocateHoldsType ==
  ASSUME NEW v \in VoyageRecord, NEW set, NEW kindOf, NEW expires \in Nat,
         \A b \in Bookings \cap set : kindOf[b] \in Kinds
  PROVE  AllocateHolds(v, set, kindOf, expires) \in VoyageRecord
  BY DEF AllocateHolds, VoyageRecord, Slot

\* ConfirmSpace moves a slot between the maps.
LEMMA ConfirmSpaceType ==
  ASSUME NEW v \in VoyageRecord, NEW b \in Bookings
  PROVE  ConfirmSpace(v, b) \in VoyageRecord
  BY DEF ConfirmSpace, VoyageRecord, Slot

\* ReleaseSpace empties both entries of a booking.
LEMMA ReleaseSpaceType ==
  ASSUME NEW v \in VoyageRecord, NEW b \in Bookings
  PROVE  ReleaseSpace(v, b) \in VoyageRecord
  BY DEF ReleaseSpace, VoyageRecord, Slot

\* AddToWaitlist appends at most one booking.
LEMMA AddToWaitlistType ==
  ASSUME NEW v \in VoyageRecord, NEW b \in Bookings
  PROVE  AddToWaitlist(v, b) \in VoyageRecord
<1>1. Append(v.waitlist, b) \in Seq(Bookings)
  BY DEF VoyageRecord
<1>2. \A w \in Seq(Bookings) : [v EXCEPT !.waitlist = w] \in VoyageRecord
  BY DEF VoyageRecord
<1>3. QED
  BY <1>1, <1>2 DEF AddToWaitlist

\* Dropping the first n entries leaves a waitlist.
LEMMA DropFirst ==
  ASSUME NEW s \in Seq(Bookings), NEW n \in 0..Len(s)
  PROVE  SubSeq(s, n + 1, Len(s)) \in Seq(Bookings)
  BY SubSeqProperties

\* What is left was on the list before.
LEMMA DropFirstEntries ==
  ASSUME NEW s \in Seq(Bookings), NEW n \in 0..Len(s)
  PROVE  \A i \in DOMAIN SubSeq(s, n + 1, Len(s)) :
           \E j \in DOMAIN s : SubSeq(s, n + 1, Len(s))[i] = s[j]
<1> DEFINE q == SubSeq(s, n + 1, Len(s))
<1>1. Len(s) \in Nat /\ DOMAIN s = 1..Len(s)
  BY LenProperties
<1>2. /\ DOMAIN q = 1..(Len(s) - n)
      /\ \A i \in 1..(Len(s) - n) : q[i] = s[n + i]
  BY <1>1, SubSeqProperties
<1>3. \A i \in 1..(Len(s) - n) : n + i \in 1..Len(s)
  BY <1>1
<1>4. QED
  BY <1>1, <1>2, <1>3

\* Promotion: the holds of the promoted and the rest of the list.
LEMMA PromoteType ==
  ASSUME NEW v \in VoyageRecord, NEW set, NEW kindOf, NEW expires \in Nat,
         \A b \in Bookings \cap set : kindOf[b] \in Kinds,
         NEW n \in 0..Len(v.waitlist)
  PROVE  [AllocateHolds(v, set, kindOf, expires)
            EXCEPT !.waitlist = SubSeq(@, n + 1, Len(@))] \in VoyageRecord
<1> DEFINE w == AllocateHolds(v, set, kindOf, expires)
<1>1. w \in VoyageRecord
  BY AllocateHoldsType
<1>2. w.waitlist = v.waitlist /\ v.waitlist \in Seq(Bookings)
  BY DEF AllocateHolds, VoyageRecord
<1>3. SubSeq(w.waitlist, n + 1, Len(w.waitlist)) \in Seq(Bookings)
  BY <1>2, DropFirst
<1>4. \A q \in Seq(Bookings) : [w EXCEPT !.waitlist = q] \in VoyageRecord
  BY <1>1 DEF VoyageRecord
<1>5. QED
  BY <1>3, <1>4
------------------------------------------------------------------------------
(* Counting. *)

\* A pool is a finite set of bookings.
LEMMA PoolFinite ==
  ASSUME NEW slots, NEW k
  PROVE  IsFiniteSet(InPool(slots, k)) /\ Cardinality(InPool(slots, k)) \in Nat
  BY BookingsFinite, FS_Subset, FS_CardinalityType DEF InPool

\* If every booking of a pool was in it before, the pool has not grown.
LEMMA PoolMonotone ==
  ASSUME NEW old, NEW new, NEW k,
         \A b \in Bookings : new[b].kind = k => old[b].kind = k
  PROVE  Cardinality(InPool(new, k)) <= Cardinality(InPool(old, k))
<1>1. InPool(new, k) \subseteq InPool(old, k)
  BY DEF InPool
<1>2. QED
  BY <1>1, PoolFinite, FS_Subset

\* If at most one booking is new in a pool, the pool grew by at most one.
LEMMA PoolGrowsByOne ==
  ASSUME NEW old, NEW new, NEW k, NEW b \in Bookings,
         \A a \in Bookings \ {b} : new[a].kind = k => old[a].kind = k
  PROVE  Cardinality(InPool(new, k)) <= Cardinality(InPool(old, k)) + 1
<1>1. InPool(new, k) \subseteq InPool(old, k) \cup {b}
  BY DEF InPool
<1>2. /\ IsFiniteSet(InPool(old, k) \cup {b})
      /\ Cardinality(InPool(old, k) \cup {b}) <= Cardinality(InPool(old, k)) + 1
  BY PoolFinite, FS_AddElement
<1>3. QED
  BY <1>1, <1>2, PoolFinite, FS_Subset, FS_CardinalityType

------------------------------------------------------------------------------
(* Types. *)

\* A booking that exists names a voyage and a cargo class.
Placed == \A b \in Bookings : Exists(b) => VoyageOf(b) \in Voyages /\ booking[b].kind \in Kinds

TypeInv == TypeOK /\ Placed

\* Storing another location keeps the storages well formed.
LEMMA StorageType ==
  ASSUME TypeOK, NEW s \in Locations, NEW b \in Bookings
  PROVE  /\ [storage EXCEPT ![s] = SL!Reserve(@, b)] \in [Locations -> SL!StorageRecord]
         /\ [storage EXCEPT ![s] = SL!Confirm(@, b)] \in [Locations -> SL!StorageRecord]
         /\ [storage EXCEPT ![s] = SL!Release(@, b)] \in [Locations -> SL!StorageRecord]
<1> DEFINE r == storage[s]
<1>1. r \in SL!StorageRecord
  BY DEF TypeOK
<1>2. /\ SL!Reserve(r, b) \in SL!StorageRecord
      /\ SL!Confirm(r, b) \in SL!StorageRecord
      /\ SL!Release(r, b) \in SL!StorageRecord
  BY <1>1 DEF SL!Reserve, SL!Confirm, SL!Release, SL!StorageRecord
<1>3. QED
  BY <1>2 DEF TypeOK

\* A new deposit keeps the ledger a sequence of deposits.
LEMMA LedgerType ==
  ASSUME NEW ledger \in Seq(Deposit), NEW key \in DepositKeys \cup {None},
         NEW status \in {"confirmed", "refunded"}
  PROVE  AddDeposit(ledger, key, status) \in Seq(Deposit)
  BY DEF AddDeposit, Deposit

\* A refund changes the status of one deposit.
LEMMA RefundType ==
  ASSUME NEW ledger \in Seq(Deposit)
  PROVE  RefundInTx(ledger) \in Seq(Deposit)
<1>1. CASE ConfirmedDeposits(ledger) = {}
  BY <1>1 DEF RefundInTx
<1>2. CASE ConfirmedDeposits(ledger) # {}
  <2> DEFINE i == CHOOSE j \in ConfirmedDeposits(ledger) : TRUE
             d == [ledger[i] EXCEPT !.status = "refunded"]
  <2>1. i \in DOMAIN ledger
    BY <1>2 DEF ConfirmedDeposits
  <2>a. ledger[i] \in Deposit
    BY <2>1, ElementOfSeq, LenProperties
  <2>2. d \in Deposit
    BY <2>a DEF Deposit
  <2>3. [ledger EXCEPT ![i] = d] \in Seq(Deposit)
    BY <2>1, <2>2, ExceptSeq
  <2>4. RefundInTx(ledger) = [ledger EXCEPT ![i] = d]
    BY <1>2 DEF RefundInTx
  <2>5. QED
    BY <2>3, <2>4
<1>3. QED
  BY <1>1, <1>2

\* The state, the certificate and so on of a booking can be overwritten.
LEMMA BookingFieldTypes ==
  ASSUME NEW r \in BookingRecord
  PROVE  /\ \A x \in States : [r EXCEPT !.state = x] \in BookingRecord
         /\ \A x \in Certificates \cup {None} : [r EXCEPT !.cert = x] \in BookingRecord
         /\ \A x \in BOOLEAN : [r EXCEPT !.packing = x] \in BookingRecord
         /\ \A x \in Locations : [r EXCEPT !.location = x] \in BookingRecord
         /\ \A x \in BOOLEAN : [r EXCEPT !.locked = x] \in BookingRecord
         /\ \A x \in Bills : [r EXCEPT !.bill = x] \in BookingRecord
         /\ \A x \in Ports : [r EXCEPT !.port = x] \in BookingRecord
         /\ \A x \in Nat : [r EXCEPT !.released = x] \in BookingRecord
         /\ \A x \in Nat : [r EXCEPT !.requeues = x] \in BookingRecord
  BY DEF BookingRecord

\* A rollback keeps every record well formed, whatever the target state.
LEMMA RollbackType ==
  ASSUME TypeInv, NEW b \in Bookings, Exists(b), NEW target \in States,
         RollbackTo(b, target)
  PROVE  TypeInv'
<1> DEFINE v     == VoyageOf(b)
           freed == ReleaseSpace(voyage[v], b)
           s     == booking[b].location
<1>1. PICK n \in 0..Len(freed.waitlist) :
        /\ LoopStopsAt(freed, n)
        /\ voyage' = [voyage EXCEPT ![v] = PromoteWaitlist(freed, n)]
        /\ booking' = [o \in Bookings |->
             IF o = b THEN [booking[b] EXCEPT !.state = target, !.locked = FALSE]
             ELSE IF o \in Promoted(freed, n)
                  THEN [booking[o] EXCEPT !.state = "space_allocated"]
                  ELSE booking[o]]
        /\ storage' = IF s = None THEN storage
                      ELSE [storage EXCEPT ![s] = SL!Release(@, b)]
        /\ deposit' = [deposit EXCEPT ![b] = RefundInTx(@)]
        /\ UNCHANGED now
  BY DEF RollbackTo
<1>2. now' \in Nat
  BY <1>1 DEF TypeInv, TypeOK
<1>3. \A o \in Bookings : booking'[o] \in BookingRecord
  <2> TAKE o \in Bookings
  <2>1. booking[o] \in BookingRecord /\ booking[b] \in BookingRecord
    BY DEF TypeInv, TypeOK
  <2>2. [booking[b] EXCEPT !.state = target, !.locked = FALSE] \in BookingRecord
    <3> DEFINE r == [booking[b] EXCEPT !.state = target]
    <3>1. r \in BookingRecord
      BY <2>1, BookingFieldTypes
    <3>2. [r EXCEPT !.locked = FALSE] \in BookingRecord
      BY <3>1, BookingFieldTypes
    <3>3. QED
      BY <3>2
  <2>3. [booking[o] EXCEPT !.state = "space_allocated"] \in BookingRecord
    BY <2>1, BookingFieldTypes DEF States, validTransitions
  <2>4. QED
    BY <1>1, <2>1, <2>2, <2>3
<1>4. booking' \in [Bookings -> BookingRecord]
  BY <1>1, <1>3
<1>5. voyage' \in [Voyages -> VoyageRecord]
  <2>1. v \in Voyages /\ voyage[v] \in VoyageRecord /\ voyage \in [Voyages -> VoyageRecord]
    BY DEF TypeInv, TypeOK, Placed
  <2>2. freed \in VoyageRecord
    BY <2>1, ReleaseSpaceType
  <2>3. \A o \in Bookings \cap Promoted(freed, n) : KindOf[o] \in Kinds
    BY DEF Promoted, Waiting, StateOf, KindOf, TypeInv, Placed, Exists
  <2>4. now + HoldDuration \in Nat
    BY ConfigAssumption DEF TypeInv, TypeOK
  <2>5. PromoteWaitlist(freed, n) \in VoyageRecord
    BY <2>2, <2>3, <2>4, PromoteType DEF PromoteWaitlist
  <2>6. QED
    BY <1>1, <2>1, <2>5
<1>6. storage' \in [Locations -> SL!StorageRecord]
  <2>1. s = None \/ s \in Locations
    BY DEF TypeInv, TypeOK, BookingRecord
  <2>2. QED
    BY <1>1, <2>1, StorageType DEF TypeInv, TypeOK
<1>7. deposit' \in [Bookings -> Seq(Deposit)]
  BY <1>1, RefundType DEF TypeInv, TypeOK
<1>8. Placed'
  <2> SUFFICES ASSUME NEW o \in Bookings, Exists(o)'
               PROVE  (VoyageOf(o) \in Voyages /\ booking[o].kind \in Kinds)'
    BY DEF Placed
  <2>1. booking[o] \in BookingRecord /\ booking[b] \in BookingRecord
    BY DEF TypeInv, TypeOK
  <2>2. booking'[o].voyage = booking[o].voyage /\ booking'[o].kind = booking[o].kind
    BY <1>1, <2>1 DEF BookingRecord
  <2>3. Exists(o)
    BY <1>1 DEF Exists, Promoted, Waiting, StateOf
  <2>4. QED
    BY <2>2, <2>3 DEF TypeInv, Placed, VoyageOf
<1>9. QED
  BY <1>2, <1>4, <1>5, <1>6, <1>7, <1>8 DEF TypeInv, TypeOK

\* One booking is overwritten by a record with the same voyage and cargo class.
LEMMA OneBookingType ==
  ASSUME TypeInv, NEW b \in Bookings, Exists(b), NEW r \in BookingRecord,
         r.voyage = booking[b].voyage, r.kind = booking[b].kind,
         booking' = [booking EXCEPT ![b] = r]
  PROVE  booking' \in [Bookings -> BookingRecord] /\ Placed'
  BY DEF TypeInv, TypeOK, Placed, Exists, VoyageOf, StateOf

\* Init establishes the types.
LEMMA TypeInit == Init => TypeInv
<1> SUFFICES ASSUME Init PROVE TypeInv
  OBVIOUS
<1>1. NoBooking \in BookingRecord
  BY DEF NoBooking, BookingRecord
<1>2. NoVoyage \in VoyageRecord
  BY NewVoyageType DEF NoVoyage
<1>3. NoStorage \in SL!StorageRecord
  BY DEF NoStorage, SL!NewStorage, SL!StorageRecord
<1>4. QED
  BY <1>1, <1>2, <1>3 DEF Init, TypeInv, TypeOK, Placed, Exists, NoBooking

\* Every step keeps the types.
LEMMA TypeStep == TypeInv /\ [Next]_vars => TypeInv'
<1> SUFFICES ASSUME TypeInv, [Next]_vars PROVE TypeInv'
  OBVIOUS
<1> USE DEF TypeInv
<1>1. CASE Tick
  BY <1>1 DEF Tick, TypeOK, Placed, Exists, VoyageOf
<1>2. ASSUME NEW v \in Voyages, NEW req \in VoyageRequests, CreateVoyage(v, req)
      PROVE  TypeInv'
  <2>1. /\ req.capacity \in [Kinds -> Int] /\ req.cutoff \in Nat
        /\ req.departure \in Nat /\ req.ports \in SUBSET Ports
    BY InputAssumption
  <2>2. req.capacity \in [Kinds -> Nat]
    BY <1>2, <2>1 DEF CreateVoyage
  <2>3. NewVoyage(req.capacity, req.cutoff, req.departure, req.ports) \in VoyageRecord
    BY <2>1, <2>2, NewVoyageType
  <2>4. QED
    BY <1>2, <2>3 DEF CreateVoyage, TypeOK, Placed, Exists, VoyageOf
<1>3. ASSUME NEW s \in Locations, NEW c \in StorageCapacities, CreateStorage(s, c)
      PROVE  TypeInv'
  <2>1. SL!NewStorage(c) \in SL!StorageRecord
    BY <1>3, InputAssumption DEF CreateStorage, SL!NewStorage, SL!StorageRecord
  <2>2. QED
    BY <1>3, <2>1 DEF CreateStorage, TypeOK, Placed, Exists, VoyageOf
<1>4. ASSUME NEW b \in Bookings, NEW req \in Requests, Create(b, req)
      PROVE  TypeInv'
  <2> DEFINE r == NewBooking(req)
  <2>1. req \in [key: BookingKeys \cup {None}, voyage: Voyages,
                 container: Containers, kind: Kinds, port: Ports]
    BY InputAssumption
  <2>3. r \in BookingRecord
    BY <2>1 DEF NewBooking, BookingRecord, States, validTransitions
  <2>4. r.voyage \in Voyages /\ r.kind \in Kinds
    BY <2>1 DEF NewBooking
  <2>5. booking' = [booking EXCEPT ![b] = r]
    BY <1>4 DEF Create
  <2>6. Placed' /\ booking' \in [Bookings -> BookingRecord]
    BY <2>3, <2>4, <2>5 DEF TypeOK, Placed, Exists, VoyageOf
  <2>7. QED
    BY <1>4, <2>6 DEF Create, TypeOK
<1>5. ASSUME NEW b \in Bookings, NEW cert \in Certificates \cup {None}, SubmitDocuments(b, cert)
      PROVE  TypeInv'
  <2> DEFINE c  == IF cert # None THEN cert ELSE booking[b].cert
             r1 == [booking[b] EXCEPT !.state = "docs_submitted"]
             r2 == [r1 EXCEPT !.cert = c]
             r3 == [r2 EXCEPT !.packing = TRUE]
  <2>1. Exists(b) /\ booking[b] \in BookingRecord
    BY <1>5 DEF SubmitDocuments, TypeOK
  <2>2. "docs_submitted" \in States /\ c \in Certificates \cup {None}
    BY <2>1 DEF States, validTransitions, BookingRecord
  <2>3. r1 \in BookingRecord
    BY <2>1, <2>2, BookingFieldTypes
  <2>4. r2 \in BookingRecord
    BY <2>2, <2>3, BookingFieldTypes
  <2>5. r3 \in BookingRecord
    BY <2>4, BookingFieldTypes
  <2>6. r3.voyage = booking[b].voyage /\ r3.kind = booking[b].kind
    BY <2>1 DEF BookingRecord
  <2>7. booking' = [booking EXCEPT ![b] = r3]
    BY <1>5 DEF SubmitDocuments
  <2>8. QED
    BY <1>5, <2>1, <2>5, <2>6, <2>7, OneBookingType DEF SubmitDocuments, TypeOK
<1>6. ASSUME NEW b \in Bookings, VerifyGeneral(b)
      PROVE  TypeInv'
  <2> DEFINE r == [booking[b] EXCEPT !.state = "storage_verified"]
  <2>1. Exists(b) /\ booking[b] \in BookingRecord
    BY <1>6 DEF VerifyGeneral, Exists, StateOf, TypeOK
  <2>2. r \in BookingRecord
    BY <2>1, BookingFieldTypes DEF States, validTransitions
  <2>3. r.voyage = booking[b].voyage /\ r.kind = booking[b].kind
    BY <2>1 DEF BookingRecord
  <2>4. booking' = [booking EXCEPT ![b] = r]
    BY <1>6 DEF VerifyGeneral
  <2>5. booking' \in [Bookings -> BookingRecord] /\ Placed'
    BY <2>1, <2>2, <2>3, <2>4, OneBookingType
  <2>6. QED
    BY <1>6, <2>5 DEF VerifyGeneral, TypeOK
<1>7. ASSUME NEW b \in Bookings, NEW s \in Locations, VerifyDangerous(b, s)
      PROVE  TypeInv'
  <2> DEFINE r1 == [booking[b] EXCEPT !.state = "storage_verified"]
             r2 == [r1 EXCEPT !.location = s]
             r3 == [r2 EXCEPT !.locked = TRUE]
  <2>1. Exists(b) /\ booking[b] \in BookingRecord
    BY <1>7 DEF VerifyDangerous, Exists, StateOf, TypeOK
  <2>2. r1 \in BookingRecord
    BY <2>1, BookingFieldTypes DEF States, validTransitions
  <2>3. r2 \in BookingRecord
    BY <2>2, BookingFieldTypes
  <2>4. r3 \in BookingRecord
    BY <2>3, BookingFieldTypes
  <2>5. r3.voyage = booking[b].voyage /\ r3.kind = booking[b].kind
    BY <2>1 DEF BookingRecord
  <2>6. booking' = [booking EXCEPT ![b] = r3]
    BY <1>7 DEF VerifyDangerous
  <2>7. booking' \in [Bookings -> BookingRecord] /\ Placed'
    BY <2>1, <2>4, <2>5, <2>6, OneBookingType
  <2>8. storage' \in [Locations -> SL!StorageRecord]
    BY <1>7, StorageType DEF VerifyDangerous
  <2>9. QED
    BY <1>7, <2>7, <2>8 DEF VerifyDangerous, TypeOK
<1>8. ASSUME NEW b \in Bookings, AllocateSpace(b)
      PROVE  TypeInv'
  <2> DEFINE r == [booking[b] EXCEPT !.state = "space_allocated"]
  <2>1. Exists(b) /\ booking[b] \in BookingRecord
    BY <1>8 DEF AllocateSpace, MayAllocate, Exists, StateOf, TypeOK
  <2>2. r \in BookingRecord
    BY <2>1, BookingFieldTypes DEF States, validTransitions
  <2>3. r.voyage = booking[b].voyage /\ r.kind = booking[b].kind
    BY <2>1 DEF BookingRecord
  <2>4. booking' = [booking EXCEPT ![b] = r]
    BY <1>8 DEF AllocateSpace, MayAllocate
  <2>5. booking' \in [Bookings -> BookingRecord] /\ Placed'
    BY <2>1, <2>2, <2>3, <2>4, OneBookingType
  <2>6. VoyageOf(b) \in Voyages /\ voyage[VoyageOf(b)] \in VoyageRecord
    BY <2>1 DEF Placed, TypeOK
  <2>7. \A o \in Bookings \cap {b} : KindOf[o] \in Kinds
    BY <2>1 DEF Placed, KindOf
  <2>8. AllocateHolds(voyage[VoyageOf(b)], {b}, KindOf, now + HoldDuration) \in VoyageRecord
    BY <2>6, <2>7, AllocateHoldsType, ConfigAssumption DEF TypeOK
  <2>9. voyage' \in [Voyages -> VoyageRecord]
    BY <1>8, <2>6, <2>8 DEF AllocateSpace, MayAllocate, TypeOK
  <2>10. QED
    BY <1>8, <2>5, <2>9 DEF AllocateSpace, MayAllocate, TypeOK
<1>9. ASSUME NEW b \in Bookings, NEW key \in DepositKeys \cup {None}, PayAndWin(b, key)
      PROVE  TypeInv'
  <2> DEFINE r == [booking[b] EXCEPT !.state = "deposit_paid"]
  <2>1. Exists(b) /\ booking[b] \in BookingRecord
    BY <1>9 DEF PayAndWin, MayPay, Exists, StateOf, TypeOK
  <2>2. r \in BookingRecord
    BY <2>1, BookingFieldTypes DEF States, validTransitions
  <2>3. r.voyage = booking[b].voyage /\ r.kind = booking[b].kind
    BY <2>1 DEF BookingRecord
  <2>4. booking' = [booking EXCEPT ![b] = r]
    BY <1>9 DEF PayAndWin
  <2>5. booking' \in [Bookings -> BookingRecord] /\ Placed'
    BY <2>1, <2>2, <2>3, <2>4, OneBookingType
  <2>6. VoyageOf(b) \in Voyages /\ voyage[VoyageOf(b)] \in VoyageRecord
    BY <2>1 DEF Placed, TypeOK
  <2>7. voyage' \in [Voyages -> VoyageRecord]
    BY <1>9, <2>6, ConfirmSpaceType DEF PayAndWin, TypeOK
  <2>8. booking[b].location = None \/ booking[b].location \in Locations
    BY <2>1 DEF BookingRecord
  <2>9. storage' \in [Locations -> SL!StorageRecord]
    BY <1>9, <2>8, StorageType DEF PayAndWin, TypeOK
  <2>10. deposit' \in [Bookings -> Seq(Deposit)]
    BY <1>9, LedgerType DEF PayAndWin, TypeOK
  <2>11. QED
    BY <1>9, <2>5, <2>7, <2>9, <2>10 DEF PayAndWin, TypeOK
<1>10. ASSUME NEW b \in Bookings, NEW key \in DepositKeys \cup {None}, PayAndLose(b, key)
      PROVE  TypeInv'
  <2> DEFINE r == [booking[b] EXCEPT !.state = "waitlisted"]
  <2>1. Exists(b) /\ booking[b] \in BookingRecord
    BY <1>10 DEF PayAndLose, MayPay, Exists, StateOf, TypeOK
  <2>2. r \in BookingRecord
    BY <2>1, BookingFieldTypes DEF States, validTransitions
  <2>3. r.voyage = booking[b].voyage /\ r.kind = booking[b].kind
    BY <2>1 DEF BookingRecord
  <2>4. booking' = [booking EXCEPT ![b] = r]
    BY <1>10 DEF PayAndLose
  <2>5. booking' \in [Bookings -> BookingRecord] /\ Placed'
    BY <2>1, <2>2, <2>3, <2>4, OneBookingType
  <2>6. VoyageOf(b) \in Voyages /\ voyage[VoyageOf(b)] \in VoyageRecord
    BY <2>1 DEF Placed, TypeOK
  <2>7. AddToWaitlist(ReleaseSpace(voyage[VoyageOf(b)], b), b) \in VoyageRecord
    BY <2>6, ReleaseSpaceType, AddToWaitlistType
  <2>8. voyage' \in [Voyages -> VoyageRecord]
    BY <1>10, <2>6, <2>7 DEF PayAndLose, TypeOK
  <2>9. deposit' \in [Bookings -> Seq(Deposit)]
    BY <1>10, LedgerType DEF PayAndLose, TypeOK
  <2>10. QED
    BY <1>10, <2>5, <2>8, <2>9 DEF PayAndLose, TypeOK
<1>11. ASSUME NEW b \in Bookings, CustomsRelease(b)
      PROVE  TypeInv'
  <2> DEFINE r == [booking[b] EXCEPT !.state = "customs_released", !.released = now]
  <2>1. Exists(b) /\ booking[b] \in BookingRecord /\ now \in Nat
    BY <1>11 DEF CustomsRelease, Exists, StateOf, TypeOK
  <2>2. r \in BookingRecord
    <3>1. [booking[b] EXCEPT !.state = "customs_released"] \in BookingRecord
      BY <2>1, BookingFieldTypes DEF States, validTransitions
    <3>2. r = [[booking[b] EXCEPT !.state = "customs_released"] EXCEPT !.released = now]
      OBVIOUS
    <3>3. QED
      BY <2>1, <3>1, <3>2, BookingFieldTypes
  <2>3. r.voyage = booking[b].voyage /\ r.kind = booking[b].kind
    BY <2>1 DEF BookingRecord
  <2>4. booking' = [booking EXCEPT ![b] = r]
    BY <1>11 DEF CustomsRelease
  <2>5. booking' \in [Bookings -> BookingRecord] /\ Placed'
    BY <2>1, <2>2, <2>3, <2>4, OneBookingType
  <2>6. QED
    BY <1>11, <2>5 DEF CustomsRelease, TypeOK
<1>12. ASSUME NEW b \in Bookings, NEW bill \in Bills, BindBill(b, bill)
      PROVE  TypeInv'
  <2> DEFINE r == [booking[b] EXCEPT !.bill = bill]
  <2>1. Exists(b) /\ booking[b] \in BookingRecord
    BY <1>12 DEF BindBill, Exists, StateOf, TypeOK
  <2>2. r \in BookingRecord
    BY <2>1, BookingFieldTypes
  <2>3. r.voyage = booking[b].voyage /\ r.kind = booking[b].kind
    BY <2>1 DEF BookingRecord
  <2>4. booking' = [booking EXCEPT ![b] = r]
    BY <1>12 DEF BindBill
  <2>5. booking' \in [Bookings -> BookingRecord] /\ Placed'
    BY <2>1, <2>2, <2>3, <2>4, OneBookingType
  <2>6. QED
    BY <1>12, <2>5 DEF BindBill, TypeOK
<1>13. ASSUME NEW b \in Bookings, Confirm(b)
      PROVE  TypeInv'
  <2> DEFINE r == [booking[b] EXCEPT !.state = "confirmed"]
  <2>1. Exists(b) /\ booking[b] \in BookingRecord
    BY <1>13 DEF Confirm, Exists, StateOf, TypeOK
  <2>2. r \in BookingRecord
    BY <2>1, BookingFieldTypes DEF States, validTransitions
  <2>3. r.voyage = booking[b].voyage /\ r.kind = booking[b].kind
    BY <2>1 DEF BookingRecord
  <2>4. booking' = [booking EXCEPT ![b] = r]
    BY <1>13 DEF Confirm
  <2>5. booking' \in [Bookings -> BookingRecord] /\ Placed'
    BY <2>1, <2>2, <2>3, <2>4, OneBookingType
  <2>6. QED
    BY <1>13, <2>5 DEF Confirm, TypeOK
<1>14. ASSUME NEW b \in Bookings, NEW port \in Ports, ChangePort(b, port)
      PROVE  TypeInv'
  <2> DEFINE r == [booking[b] EXCEPT !.port = port]
  <2>1. Exists(b) /\ booking[b] \in BookingRecord
    BY <1>14 DEF ChangePort, Exists, StateOf, TypeOK
  <2>2. r \in BookingRecord
    BY <2>1, BookingFieldTypes
  <2>3. r.voyage = booking[b].voyage /\ r.kind = booking[b].kind
    BY <2>1 DEF BookingRecord
  <2>4. booking' = [booking EXCEPT ![b] = r]
    BY <1>14 DEF ChangePort
  <2>5. booking' \in [Bookings -> BookingRecord] /\ Placed'
    BY <2>1, <2>2, <2>3, <2>4, OneBookingType
  <2>6. QED
    BY <1>14, <2>5 DEF ChangePort, TypeOK
<1>15. ASSUME NEW b \in Bookings, Requeue(b)
      PROVE  TypeInv'
  <2> DEFINE x  == IF booking[b].cert # None /\ booking[b].packing
                   THEN "docs_submitted" ELSE "initiated"
             r1 == [booking[b] EXCEPT !.requeues = booking[b].requeues + 1]
             r2 == [r1 EXCEPT !.state = x]
  <2>1. Exists(b) /\ booking[b] \in BookingRecord
    BY <1>15 DEF Requeue, Exists, StateOf, TypeOK
  <2>2. x \in States /\ booking[b].requeues + 1 \in Nat
    BY <2>1 DEF BookingRecord, States, validTransitions
  <2>3. r1 \in BookingRecord
    BY <2>1, <2>2, BookingFieldTypes
  <2>4. r2 \in BookingRecord
    BY <2>2, <2>3, BookingFieldTypes
  <2>5. r2.voyage = booking[b].voyage /\ r2.kind = booking[b].kind
    BY <2>1 DEF BookingRecord
  <2>6. booking' = [booking EXCEPT ![b] = r2]
    BY <1>15 DEF Requeue
  <2>7. booking' \in [Bookings -> BookingRecord] /\ Placed'
    BY <2>1, <2>4, <2>5, <2>6, OneBookingType
  <2>8. QED
    BY <1>15, <2>7 DEF Requeue, TypeOK
<1>16. ASSUME NEW b \in Bookings, Cancel(b)
       PROVE  TypeInv'
  BY <1>16, RollbackType DEF Cancel, States, validTransitions
<1>17. ASSUME NEW b \in Bookings, CustomsReject(b)
       PROVE  TypeInv'
  BY <1>17, RollbackType DEF CustomsReject, Exists, StateOf, States, validTransitions
<1>18. ASSUME NEW b \in Bookings, CancelExpiredHold(b)
       PROVE  TypeInv'
  BY <1>18, RollbackType DEF CancelExpiredHold, Exists, StateOf, States, validTransitions
<1>19. ASSUME NEW b \in Bookings, CancelForCutoffNonCompliance(b)
       PROVE  TypeInv'
  BY <1>19, RollbackType
     DEF CancelForCutoffNonCompliance, Exists, StateOf, States, validTransitions
<1>20. CASE UNCHANGED vars
  BY <1>20 DEF vars, TypeOK, Placed, Exists, VoyageOf
<1>21. CASE ApiStep
  BY <1>2, <1>3, <1>4, <1>5, <1>6, <1>7, <1>8, <1>9, <1>10, <1>11, <1>12, <1>13,
     <1>14, <1>15, <1>16, <1>17, <1>21 DEF ApiStep
<1>22. QED
  BY <1>1, <1>18, <1>19, <1>20, <1>21 DEF Next

\* The records of every entity keep the shape the Go structs give them.
THEOREM TypeCorrect == Spec => []TypeOK
<1>1. Spec => []TypeInv
  BY TypeInit, TypeStep, PTL DEF Spec
<1>2. TypeInv => TypeOK
  BY DEF TypeInv
<1>3. QED
  BY <1>1, <1>2, PTL
==============================================================================
