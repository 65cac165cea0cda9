------------------------- MODULE BookingLedgerProofs --------------------------
(***************************************************************************)
(* Proofs that deposits, storage slots and documents agree with the        *)
(* bookings, that containers and bills are exclusive, and that a call      *)
(* changes other bookings only by promoting them.                          *)
(***************************************************************************)
EXTENDS BookingSpaceProofs

------------------------------------------------------------------------------
(* What the calls do, field by field. *)

\* Nobody but b changes.
Only(b) == \A a \in Bookings \ {b} : booking'[a] = booking[a]

SameCargo(b) ==
  /\ booking'[b].key = booking[b].key
  /\ booking'[b].kind = booking[b].kind
  /\ booking'[b].container = booking[b].container
  /\ booking'[b].voyage = booking[b].voyage

SamePapers(b) ==
  /\ booking'[b].cert = booking[b].cert
  /\ booking'[b].packing = booking[b].packing

SameSlot(b) ==
  /\ booking'[b].location = booking[b].location
  /\ booking'[b].locked = booking[b].locked

SameBill(b) ==
  /\ booking'[b].bill = booking[b].bill
  /\ booking'[b].requeues = booking[b].requeues

\* b goes from one state to another and keeps everything else; only a release by
\* customs puts down the time.
Moves(b, from, to) ==
  /\ Only(b)
  /\ StateOf(b) = from
  /\ booking'[b].state = to
  /\ SameCargo(b) /\ SamePapers(b) /\ SameSlot(b) /\ SameBill(b)
  /\ from = to \/ to # "customs_released" => booking'[b].released = booking[b].released

\* Overwriting the state keeps the rest.
LEMMA MovesBy ==
  ASSUME TypeInv, NEW b \in Bookings, NEW to, booking' = [booking EXCEPT ![b].state = to]
  PROVE  Moves(b, StateOf(b), to)
<1>1. booking[b] \in BookingRecord /\ booking \in [Bookings -> BookingRecord]
  BY DEF TypeInv, TypeOK
<1>2. /\ booking'[b] = [booking[b] EXCEPT !.state = to]
      /\ \A a \in Bookings \ {b} : booking'[a] = booking[a]
  BY <1>1
<1>3. QED
  BY <1>1, <1>2 DEF Moves, Only, SameCargo, SamePapers, SameSlot, SameBill, BookingRecord

\* A new booking has no documents, no storage slot and no bill.
LEMMA CreateEffect ==
  ASSUME TypeInv, NEW b \in Bookings, NEW req \in Requests, Create(b, req)
  PROVE  /\ Only(b)
         /\ StateOf(b) = "absent" /\ booking'[b].state = "initiated"
         /\ booking'[b].container = req.container /\ booking'[b].kind = req.kind
         /\ booking'[b].cert = None /\ booking'[b].packing = FALSE
         /\ booking'[b].location = None /\ booking'[b].locked = FALSE
         /\ booking'[b].bill = None /\ booking'[b].requeues = 0
  BY DEF Create, NewBooking, Only, Exists, StateOf, TypeInv, TypeOK

\* Documents are handed in once per pass through the flow.
LEMMA SubmitEffect ==
  ASSUME TypeInv, NEW b \in Bookings, NEW cert \in Certificates \cup {None},
         SubmitDocuments(b, cert)
  PROVE  /\ Only(b)
         /\ StateOf(b) = "initiated" /\ booking'[b].state = "docs_submitted"
         /\ IsDangerous(booking[b].kind) => booking'[b].cert # None
         /\ booking'[b].packing = TRUE
         /\ SameCargo(b) /\ SameSlot(b) /\ SameBill(b)
<1>1. booking[b] \in BookingRecord /\ booking \in [Bookings -> BookingRecord]
  BY DEF TypeInv, TypeOK
<1>2. StateOf(b) = "initiated"
  BY <1>1 DEF SubmitDocuments, Legal, CanTransitionTo, validTransitions, Exists, StateOf,
              BookingRecord, States
<1>3. IsDangerous(booking[b].kind) => cert # None
  BY DEF SubmitDocuments, DocumentsSuffice
<1>4. /\ booking'[b] = [booking[b] EXCEPT !.state = "docs_submitted",
                             !.cert = IF cert # None THEN cert ELSE booking[b].cert,
                             !.packing = TRUE]
      /\ \A a \in Bookings \ {b} : booking'[a] = booking[a]
  BY <1>1 DEF SubmitDocuments
<1>5. QED
  BY <1>1, <1>2, <1>3, <1>4 DEF Only, SameCargo, SameSlot, SameBill, BookingRecord

\* The terminal locks a storage slot for dangerous cargo.
LEMMA VerifyEffect ==
  ASSUME TypeInv, NEW b \in Bookings, NEW s \in Locations, VerifyDangerous(b, s)
  PROVE  /\ Only(b)
         /\ StateOf(b) = "docs_submitted" /\ booking'[b].state = "storage_verified"
         /\ booking'[b].location = s /\ booking'[b].locked = TRUE
         /\ SameCargo(b) /\ SamePapers(b) /\ SameBill(b)
         /\ storage'[s] = SL!Reserve(storage[s], b)
         /\ \A t \in Locations \ {s} : storage'[t] = storage[t]
<1>1. booking[b] \in BookingRecord /\ booking \in [Bookings -> BookingRecord]
  BY DEF TypeInv, TypeOK
<1>2. /\ booking'[b] = [booking[b] EXCEPT !.state = "storage_verified", !.location = s,
                                          !.locked = TRUE]
      /\ \A a \in Bookings \ {b} : booking'[a] = booking[a]
  BY <1>1 DEF VerifyDangerous
<1>3. StateOf(b) = "docs_submitted"
  BY DEF VerifyDangerous
<1>4. storage'[s] = SL!Reserve(storage[s], b) /\ \A t \in Locations \ {s} : storage'[t] = storage[t]
  BY DEF VerifyDangerous, TypeInv, TypeOK
<1>5. QED
  BY <1>1, <1>2, <1>3, <1>4 DEF Only, SameCargo, SamePapers, SameBill, BookingRecord

\* A bill is bound to one booking.
LEMMA BillEffect ==
  ASSUME TypeInv, NEW b \in Bookings, NEW bill \in Bills, BindBill(b, bill)
  PROVE  /\ Only(b)
         /\ booking'[b].state = StateOf(b) /\ StateOf(b) # "absent"
         /\ booking'[b].bill = bill
         /\ booking'[b].requeues = booking[b].requeues
         /\ booking'[b].released = booking[b].released
         /\ SameCargo(b) /\ SamePapers(b) /\ SameSlot(b)
<1>1. booking[b] \in BookingRecord /\ booking \in [Bookings -> BookingRecord]
  BY DEF TypeInv, TypeOK
<1>2. /\ booking'[b] = [booking[b] EXCEPT !.bill = bill]
      /\ \A a \in Bookings \ {b} : booking'[a] = booking[a]
  BY <1>1 DEF BindBill
<1>3. StateOf(b) # "absent"
  BY DEF BindBill, Exists, StateOf
<1>4. QED
  BY <1>1, <1>2, <1>3 DEF Only, SameCargo, SamePapers, SameSlot, StateOf, BookingRecord

\* Customs puts down the time of the release.
LEMMA ReleaseEffect ==
  ASSUME TypeInv, NEW b \in Bookings, CustomsRelease(b)
  PROVE  Moves(b, "deposit_paid", "customs_released") /\ booking'[b].released = now
<1>1. booking[b] \in BookingRecord /\ booking \in [Bookings -> BookingRecord]
  BY DEF TypeInv, TypeOK
<1>2. /\ booking'[b] = [booking[b] EXCEPT !.state = "customs_released", !.released = now]
      /\ \A a \in Bookings \ {b} : booking'[a] = booking[a]
  BY <1>1 DEF CustomsRelease
<1>3. StateOf(b) = "deposit_paid"
  BY DEF CustomsRelease
<1>4. QED
  BY <1>1, <1>2, <1>3
     DEF Moves, Only, SameCargo, SamePapers, SameSlot, SameBill, BookingRecord

\* The port of a booking is all that ChangePort changes.
LEMMA PortEffect ==
  ASSUME TypeInv, NEW b \in Bookings, NEW port \in Ports, ChangePort(b, port)
  PROVE  Moves(b, StateOf(b), StateOf(b)) /\ StateOf(b) # "absent"
<1>1. booking[b] \in BookingRecord /\ booking \in [Bookings -> BookingRecord]
  BY DEF TypeInv, TypeOK
<1>2. /\ booking'[b] = [booking[b] EXCEPT !.port = port]
      /\ \A a \in Bookings \ {b} : booking'[a] = booking[a]
  BY <1>1 DEF ChangePort
<1>3. StateOf(b) # "absent"
  BY DEF ChangePort, Exists, StateOf
<1>4. QED
  BY <1>1, <1>2, <1>3
  DEF Moves, Only, SameCargo, SamePapers, SameSlot, SameBill, StateOf, BookingRecord

\* A requeued booking starts again where its documents allow.
LEMMA RequeueEffect ==
  ASSUME TypeInv, NEW b \in Bookings, Requeue(b)
  PROVE  /\ Only(b)
         /\ StateOf(b) = "pending_review"
         /\ \/ booking'[b].state = "initiated"
            \/ /\ booking'[b].state = "docs_submitted"
               /\ booking[b].cert # None /\ booking[b].packing
         /\ booking'[b].requeues = booking[b].requeues + 1
         /\ booking'[b].bill = booking[b].bill
         /\ SameCargo(b) /\ SamePapers(b) /\ SameSlot(b)
<1> DEFINE x == IF booking[b].cert # None /\ booking[b].packing
                THEN "docs_submitted" ELSE "initiated"
<1>1. booking[b] \in BookingRecord /\ booking \in [Bookings -> BookingRecord]
  BY DEF TypeInv, TypeOK
<1>2. /\ booking'[b] = [booking[b] EXCEPT !.requeues = booking[b].requeues + 1, !.state = x]
      /\ \A a \in Bookings \ {b} : booking'[a] = booking[a]
  BY <1>1 DEF Requeue
<1>3. StateOf(b) = "pending_review"
  BY DEF Requeue
<1>4. booking'[b].state = x
  BY <1>1, <1>2 DEF BookingRecord
<1>5. QED
  BY <1>1, <1>2, <1>3, <1>4 DEF Only, SameCargo, SamePapers, SameSlot, BookingRecord

\* A rollback by which b goes from one state to another: others are promoted or
\* left alone, b gives up its storage slot and its deposit.
RollsBack(b, target) ==
  /\ StateOf(b) \notin {"absent", "cancelled", "pending_review", "rejected", "confirmed"}
  /\ target = "cancelled" \/ (target = "pending_review" /\ Paid(b))
  /\ RollbackTo(b, target)

\* What it does to the bookings.
LEMMA RollbackBookings ==
  ASSUME TypeInv, NEW b \in Bookings, NEW target, RollsBack(b, target)
  PROVE  /\ booking'[b].state = target /\ booking'[b].locked = FALSE
         /\ booking'[b].location = booking[b].location
         /\ SameCargo(b) /\ SamePapers(b) /\ SameBill(b)
         /\ \A a \in Bookings \ {b} :
              \/ booking'[a] = booking[a]
              \/ /\ StateOf(a) = "waitlisted" /\ booking'[a].state = "space_allocated"
                 /\ booking'[a] = [booking[a] EXCEPT !.state = "space_allocated"]
                 /\ SameCargo(a) /\ SamePapers(a) /\ SameSlot(a) /\ SameBill(a)
<1> DEFINE freed == ReleaseSpace(voyage[VoyageOf(b)], b)
<1>1. PICK n \in 0..Len(freed.waitlist) :
        booking' = [o \in Bookings |->
             IF o = b THEN [booking[b] EXCEPT !.state = target, !.locked = FALSE]
             ELSE IF o \in Promoted(freed, n)
                  THEN [booking[o] EXCEPT !.state = "space_allocated"]
                  ELSE booking[o]]
  BY DEF RollsBack, RollbackTo
<1>2. \A a \in Bookings : booking[a] \in BookingRecord
  BY DEF TypeInv, TypeOK
<1>3. booking'[b] = [booking[b] EXCEPT !.state = target, !.locked = FALSE]
  BY <1>1
<1>4. /\ booking'[b].state = target /\ booking'[b].locked = FALSE
      /\ booking'[b].location = booking[b].location
      /\ SameCargo(b) /\ SamePapers(b) /\ SameBill(b)
  BY <1>2, <1>3 DEF SameCargo, SamePapers, SameBill, BookingRecord
<1>5. ASSUME NEW a \in Bookings \ {b}
      PROVE  \/ booking'[a] = booking[a]
             \/ /\ StateOf(a) = "waitlisted" /\ booking'[a].state = "space_allocated"
                /\ booking'[a] = [booking[a] EXCEPT !.state = "space_allocated"]
                /\ SameCargo(a) /\ SamePapers(a) /\ SameSlot(a) /\ SameBill(a)
  <2>1. CASE a \in Promoted(freed, n)
    <3>1. booking'[a] = [booking[a] EXCEPT !.state = "space_allocated"]
      BY <1>1, <2>1
    <3>2. StateOf(a) = "waitlisted"
      BY <2>1 DEF Promoted, Waiting
    <3>3. QED
      BY <1>2, <3>1, <3>2 DEF SameCargo, SamePapers, SameSlot, SameBill, BookingRecord
  <2>2. CASE a \notin Promoted(freed, n)
    BY <1>1, <2>2
  <2>3. QED
    BY <2>1, <2>2
<1>6. QED
  BY <1>4, <1>5

\* What it does to storage and deposits.
LEMMA RollbackLedgers ==
  ASSUME TypeInv, NEW b \in Bookings, NEW target, RollsBack(b, target)
  PROVE  /\ deposit'[b] = RefundInTx(deposit[b])
         /\ \A a \in Bookings \ {b} : deposit'[a] = deposit[a]
         /\ \A s \in Locations :
              storage'[s] = IF booking[b].location = s THEN SL!Release(storage[s], b)
                            ELSE storage[s]
         /\ now' = now
<1>1. /\ storage' = IF booking[b].location = None THEN storage
                    ELSE [storage EXCEPT ![booking[b].location] = SL!Release(@, b)]
      /\ deposit' = [deposit EXCEPT ![b] = RefundInTx(@)]
      /\ now' = now
  BY DEF RollsBack, RollbackTo
<1>2. None \notin Locations
  BY NoneAssumption
<1>3. storage \in [Locations -> SL!StorageRecord] /\ deposit \in [Bookings -> Seq(Deposit)]
  BY DEF TypeInv, TypeOK
<1>4. QED
  BY <1>1, <1>2, <1>3

\* The deposit that wins turns a reservation into a confirmed storage slot.
LEMMA WinEffect ==
  ASSUME TypeInv, NEW b \in Bookings, NEW key \in DepositKeys \cup {None}, PayAndWin(b, key)
  PROVE  /\ Moves(b, "space_allocated", "deposit_paid")
         /\ deposit'[b] = AddDeposit(deposit[b], key, "confirmed")
         /\ \A a \in Bookings \ {b} : deposit'[a] = deposit[a]
         /\ \A s \in Locations :
              storage'[s] = IF booking[b].location = s THEN SL!Confirm(storage[s], b)
                            ELSE storage[s]
<1>1. /\ storage' = IF booking[b].location = None THEN storage
                    ELSE [storage EXCEPT ![booking[b].location] = SL!Confirm(@, b)]
      /\ deposit' = [deposit EXCEPT ![b] = AddDeposit(@, key, "confirmed")]
      /\ booking' = [booking EXCEPT ![b].state = "deposit_paid"]
      /\ StateOf(b) = "space_allocated"
  BY DEF PayAndWin, MayPay
<1>2. None \notin Locations
  BY NoneAssumption
<1>3. storage \in [Locations -> SL!StorageRecord] /\ deposit \in [Bookings -> Seq(Deposit)]
  BY DEF TypeInv, TypeOK
<1>4. \A s \in Locations :
        storage'[s] = IF booking[b].location = s THEN SL!Confirm(storage[s], b) ELSE storage[s]
  BY <1>1, <1>2, <1>3
<1>5. QED
  BY <1>1, <1>3, <1>4, MovesBy

\* The deposit that loses is refunded at once.
LEMMA LoseEffect ==
  ASSUME TypeInv, NEW b \in Bookings, NEW key \in DepositKeys \cup {None}, PayAndLose(b, key)
  PROVE  /\ Moves(b, "space_allocated", "waitlisted")
         /\ deposit'[b] = AddDeposit(deposit[b], key, "refunded")
         /\ \A a \in Bookings \ {b} : deposit'[a] = deposit[a]
         /\ storage' = storage
<1>1. /\ deposit' = [deposit EXCEPT ![b] = AddDeposit(@, key, "refunded")]
      /\ booking' = [booking EXCEPT ![b].state = "waitlisted"]
      /\ storage' = storage
      /\ StateOf(b) = "space_allocated"
  BY DEF PayAndLose, MayPay
<1>2. deposit \in [Bookings -> Seq(Deposit)]
  BY DEF TypeInv, TypeOK
<1>3. QED
  BY <1>1, <1>2, MovesBy

\* The four calls that roll a booking back.
LEMMA RollbackCalls ==
  ASSUME TypeInv, NEW b \in Bookings,
         \/ Cancel(b) \/ CustomsReject(b)
         \/ CancelExpiredHold(b) \/ CancelForCutoffNonCompliance(b)
  PROVE  \E target : RollsBack(b, target)
<1>1. CASE Cancel(b)
  <2>1. booking[b] \in BookingRecord
    BY DEF TypeInv, TypeOK
  <2>2. StateOf(b) \notin {"absent", "cancelled", "pending_review", "rejected", "confirmed"}
    BY <1>1, <2>1 DEF Cancel, Legal, CanTransitionTo, validTransitions, Exists, StateOf
  <2>3. RollbackTo(b, "cancelled")
    BY <1>1 DEF Cancel
  <2>4. RollsBack(b, "cancelled")
    BY <2>2, <2>3 DEF RollsBack
  <2>5. QED
    BY <2>4
<1>2. CASE CustomsReject(b)
  <2>1. RollsBack(b, "pending_review")
    BY <1>2 DEF CustomsReject, RollsBack, Paid
  <2>2. QED
    BY <2>1
<1>3. CASE CancelExpiredHold(b) \/ CancelForCutoffNonCompliance(b)
  <2>1. RollsBack(b, "cancelled")
    BY <1>3 DEF CancelExpiredHold, CancelForCutoffNonCompliance, RollsBack
  <2>2. QED
    BY <2>1
<1>4. QED
  BY <1>1, <1>2, <1>3

\* Calls about voyages, locations and time.
Surroundings ==
  /\ booking' = booking
  /\ deposit' = deposit
  /\ now' \in {now, now + 1}
  /\ storage' = storage \/ \E s \in Locations, c \in StorageCapacities : CreateStorage(s, c)

\* A call that moves b on and touches neither storage nor deposits.
Advance(b) ==
  /\ storage' = storage /\ deposit' = deposit /\ now' = now
  /\ \/ \E cert \in Certificates \cup {None} : SubmitDocuments(b, cert)
     \/ ~IsDangerous(booking[b].kind) /\ Moves(b, "docs_submitted", "storage_verified")
     \/ Moves(b, "storage_verified", "space_allocated")
     \/ CustomsRelease(b) /\ Moves(b, "deposit_paid", "customs_released")
     \/ Moves(b, "customs_released", "confirmed")
     \/ \E bill \in Bills : BindBill(b, bill)
     \/ Moves(b, StateOf(b), StateOf(b)) /\ StateOf(b) # "absent"
     \/ Requeue(b)

\* Every step is one of these.
LEMMA StepCases ==
  ASSUME TypeInv, [Next]_vars
  PROVE  \/ Surroundings
         \/ \E b \in Bookings :
              \/ \E req \in Requests : Create(b, req)
              \/ \E s \in Locations : VerifyDangerous(b, s)
              \/ \E key \in DepositKeys \cup {None} : PayAndWin(b, key) \/ PayAndLose(b, key)
              \/ \E target : RollsBack(b, target)
              \/ Advance(b)
<1> DEFINE Goal == \/ Surroundings
                   \/ \E b \in Bookings :
                        \/ \E req \in Requests : Create(b, req)
                        \/ \E s \in Locations : VerifyDangerous(b, s)
                        \/ \E key \in DepositKeys \cup {None} :
                             PayAndWin(b, key) \/ PayAndLose(b, key)
                        \/ \E target : RollsBack(b, target)
                        \/ Advance(b)
<1>1. CASE Tick \/ UNCHANGED vars
  BY <1>1 DEF Tick, vars, Surroundings
<1>2. ASSUME NEW v \in Voyages, NEW req \in VoyageRequests, CreateVoyage(v, req)
      PROVE  Goal
  BY <1>2 DEF CreateVoyage, Surroundings
<1>3. ASSUME NEW s \in Locations, NEW c \in StorageCapacities, CreateStorage(s, c)
      PROVE  Goal
  <2>1. booking' = booking /\ deposit' = deposit /\ now' = now
    BY <1>3 DEF CreateStorage
  <2>2. QED
    BY <1>3, <2>1 DEF Surroundings
<1>4. ASSUME NEW b \in Bookings, NEW cert \in Certificates \cup {None}, SubmitDocuments(b, cert)
      PROVE  Goal
  <2>1. storage' = storage /\ deposit' = deposit /\ now' = now
    BY <1>4 DEF SubmitDocuments
  <2>2. QED
    BY <1>4, <2>1 DEF Advance
<1>5. ASSUME NEW b \in Bookings, VerifyGeneral(b)
      PROVE  Goal
  BY <1>5, MovesBy DEF VerifyGeneral, Advance
<1>6. ASSUME NEW b \in Bookings, AllocateSpace(b)
      PROVE  Goal
  <2>1. /\ booking' = [booking EXCEPT ![b].state = "space_allocated"]
        /\ StateOf(b) = "storage_verified"
    BY <1>6 DEF AllocateSpace, MayAllocate
  <2>2. storage' = storage /\ deposit' = deposit /\ now' = now
    BY <1>6 DEF AllocateSpace, MayAllocate
  <2>3. QED
    BY <2>1, <2>2, MovesBy DEF Advance
<1>7. ASSUME NEW b \in Bookings, CustomsRelease(b)
      PROVE  Goal
  <2>1. storage' = storage /\ deposit' = deposit /\ now' = now
    BY <1>7 DEF CustomsRelease
  <2>2. QED
    BY <1>7, <2>1, ReleaseEffect DEF Advance
<1>8. ASSUME NEW b \in Bookings, Confirm(b)
      PROVE  Goal
  BY <1>8, MovesBy DEF Confirm, Advance
<1>9. ASSUME NEW b \in Bookings, NEW bill \in Bills, BindBill(b, bill)
      PROVE  Goal
  <2>1. storage' = storage /\ deposit' = deposit /\ now' = now
    BY <1>9 DEF BindBill
  <2>2. QED
    BY <1>9, <2>1 DEF Advance
<1>10. ASSUME NEW b \in Bookings, NEW port \in Ports, ChangePort(b, port)
       PROVE  Goal
  <2>1. storage' = storage /\ deposit' = deposit /\ now' = now
    BY <1>10 DEF ChangePort
  <2>2. QED
    BY <1>10, <2>1, PortEffect DEF Advance
<1>11. ASSUME NEW b \in Bookings, Requeue(b)
       PROVE  Goal
  <2>1. storage' = storage /\ deposit' = deposit /\ now' = now
    BY <1>11 DEF Requeue
  <2>2. QED
    BY <1>11, <2>1 DEF Advance
<1>12. ASSUME NEW b \in Bookings,
              Cancel(b) \/ CustomsReject(b) \/ CancelExpiredHold(b)
                \/ CancelForCutoffNonCompliance(b)
       PROVE  \E target : RollsBack(b, target)
  BY <1>12, RollbackCalls
<1>13. CASE ApiStep
  BY <1>2, <1>3, <1>4, <1>5, <1>6, <1>7, <1>8, <1>9, <1>10, <1>11, <1>12, <1>13 DEF ApiStep
<1>14. QED
  BY <1>1, <1>12, <1>13 DEF Next

\* A booking is never removed, and keeps its key, its cargo and its voyage.
LEMMA BookingsLast ==
  ASSUME TypeInv, [Next]_vars, NEW a \in Bookings, Exists(a)
  PROVE  Exists(a)' /\ SameCargo(a)
<1>1. ASSUME NEW b \in Bookings, Only(b), a = b => SameCargo(b) /\ booking'[b].state # "absent"
      PROVE  Exists(a)' /\ SameCargo(a)
  BY <1>1 DEF Only, SameCargo, Exists
<1>2. CASE Surroundings
  BY <1>2 DEF Surroundings, SameCargo, Exists
<1>3. ASSUME NEW b \in Bookings, NEW req \in Requests, Create(b, req)
      PROVE  Exists(a)' /\ SameCargo(a)
  <2>1. Only(b) /\ a # b
    BY <1>3, CreateEffect DEF Exists, StateOf
  <2>2. QED
    BY <1>1, <2>1
<1>4. ASSUME NEW b \in Bookings, NEW s \in Locations, VerifyDangerous(b, s)
      PROVE  Exists(a)' /\ SameCargo(a)
  BY <1>1, <1>4, VerifyEffect
<1>5. ASSUME NEW b \in Bookings, NEW from, NEW to, Moves(b, from, to), to # "absent"
      PROVE  Exists(a)' /\ SameCargo(a)
  BY <1>1, <1>5 DEF Moves
<1>6. ASSUME NEW b \in Bookings, NEW key \in DepositKeys \cup {None},
             PayAndWin(b, key) \/ PayAndLose(b, key)
      PROVE  Exists(a)' /\ SameCargo(a)
  BY <1>5, <1>6, WinEffect, LoseEffect
<1>7. ASSUME NEW b \in Bookings, NEW target, RollsBack(b, target)
      PROVE  Exists(a)' /\ SameCargo(a)
  <2>1. booking'[b].state = target /\ target # "absent" /\ SameCargo(b)
    BY <1>7, RollbackBookings DEF RollsBack
  <2>2. CASE a = b
    BY <2>1, <2>2 DEF Exists
  <2>3. CASE a # b /\ booking'[a] = booking[a]
    BY <2>3 DEF SameCargo, Exists
  <2>4. CASE a # b /\ booking'[a] # booking[a]
    BY <1>7, <2>4, RollbackBookings DEF SameCargo, Exists
  <2>5. QED
    BY <2>2, <2>3, <2>4
<1>8. ASSUME NEW b \in Bookings, Advance(b)
      PROVE  Exists(a)' /\ SameCargo(a)
  <2>1. CASE \E cert \in Certificates \cup {None} : SubmitDocuments(b, cert)
    BY <1>1, <2>1, SubmitEffect
  <2>2. CASE \E bill \in Bills : BindBill(b, bill)
    BY <1>1, <2>2, BillEffect DEF StateOf
  <2>3. CASE Requeue(b)
    BY <1>1, <2>3, RequeueEffect
  <2>4. CASE \/ Moves(b, "docs_submitted", "storage_verified")
             \/ Moves(b, "storage_verified", "space_allocated")
             \/ Moves(b, "deposit_paid", "customs_released")
             \/ Moves(b, "customs_released", "confirmed")
    BY <1>5, <2>4
  <2>5. CASE Moves(b, StateOf(b), StateOf(b)) /\ StateOf(b) # "absent"
    BY <1>5, <2>5
  <2>6. QED
    BY <1>8, <2>1, <2>2, <2>3, <2>4, <2>5 DEF Advance
<1>9. QED
  BY <1>2, <1>3, <1>4, <1>6, <1>7, <1>8, StepCases

\* A rollback of b leaves everybody else paid or unpaid.
LEMMA RollbackKeepsPaid ==
  ASSUME TypeInv, NEW b \in Bookings, NEW target, RollsBack(b, target), NEW a \in Bookings \ {b}
  PROVE  Paid(a)' <=> Paid(a)
<1>1. \/ booking'[a] = booking[a]
      \/ StateOf(a) = "waitlisted" /\ booking'[a].state = "space_allocated"
  BY RollbackBookings
<1>2. QED
  BY <1>1 DEF Paid, StateOf

\* Who is paid stays paid under such a call, and nobody becomes so.
LEMMA AdvanceKeepsPaid ==
  ASSUME TypeInv, NEW b \in Bookings, Advance(b), NEW a \in Bookings
  PROVE  Paid(a)' <=> Paid(a)
<1>1. CASE \E cert \in Certificates \cup {None} : SubmitDocuments(b, cert)
  BY <1>1, SubmitEffect DEF Only, Paid, StateOf
<1>2. CASE \E bill \in Bills : BindBill(b, bill)
  BY <1>2, BillEffect DEF Only, Paid, StateOf
<1>3. CASE Requeue(b)
  BY <1>3, RequeueEffect DEF Only, Paid, StateOf
<1>4. CASE \/ Moves(b, "docs_submitted", "storage_verified")
           \/ Moves(b, "storage_verified", "space_allocated")
           \/ Moves(b, "deposit_paid", "customs_released")
           \/ Moves(b, "customs_released", "confirmed")
           \/ Moves(b, StateOf(b), StateOf(b))
  BY <1>4 DEF Moves, Only, Paid, StateOf
<1>5. QED
  BY <1>1, <1>2, <1>3, <1>4 DEF Advance
------------------------------------------------------------------------------
(* Deposits. *)

\* A deposit that is added counts if it is confirmed.
LEMMA AddDepositCounts ==
  ASSUME NEW ledger \in Seq(Deposit), NEW key
  PROVE  /\ ConfirmedDeposits(AddDeposit(ledger, key, "confirmed"))
              = ConfirmedDeposits(ledger) \cup {Len(ledger) + 1}
         /\ ConfirmedDeposits(AddDeposit(ledger, key, "refunded")) = ConfirmedDeposits(ledger)
<1>1. Len(ledger) \in Nat /\ DOMAIN ledger = 1..Len(ledger)
  BY LenProperties
<1>2. ASSUME NEW d
      PROVE  /\ DOMAIN Append(ledger, d) = 1..(Len(ledger) + 1)
             /\ \A i \in 1..Len(ledger) : Append(ledger, d)[i] = ledger[i]
             /\ Append(ledger, d)[Len(ledger) + 1] = d
  BY <1>1
<1>3. ASSUME NEW status
      PROVE  ConfirmedDeposits(AddDeposit(ledger, key, status)) =
               {i \in 1..(Len(ledger) + 1) :
                  IF i = Len(ledger) + 1 THEN status = "confirmed"
                  ELSE ledger[i].status = "confirmed"}
  BY <1>1, <1>2 DEF ConfirmedDeposits, AddDeposit
<1>4. ConfirmedDeposits(ledger) = {i \in 1..Len(ledger) : ledger[i].status = "confirmed"}
  BY <1>1 DEF ConfirmedDeposits
<1>5. QED
  BY <1>1, <1>3, <1>4

\* A refund takes one deposit out of the confirmed ones.
LEMMA RefundCounts ==
  ASSUME NEW ledger \in Seq(Deposit)
  PROVE  /\ ConfirmedDeposits(ledger) = {} => ConfirmedDeposits(RefundInTx(ledger)) = {}
         /\ ConfirmedDeposits(ledger) # {} =>
              \E i \in ConfirmedDeposits(ledger) :
                ConfirmedDeposits(RefundInTx(ledger)) = ConfirmedDeposits(ledger) \ {i}
<1>1. CASE ConfirmedDeposits(ledger) = {}
  BY <1>1 DEF RefundInTx
<1>2. CASE ConfirmedDeposits(ledger) # {}
  <2> DEFINE i == CHOOSE j \in ConfirmedDeposits(ledger) : TRUE
             d == [ledger[i] EXCEPT !.status = "refunded"]
  <2>1. i \in ConfirmedDeposits(ledger) /\ i \in DOMAIN ledger
    BY <1>2 DEF ConfirmedDeposits
  <2>2. RefundInTx(ledger) = [ledger EXCEPT ![i] = d]
    BY <1>2 DEF RefundInTx
  <2>3. ledger[i] \in Deposit
    BY <2>1, ElementOfSeq, LenProperties
  <2>4. d.status = "refunded"
    BY <2>3 DEF Deposit
  <2> HIDE DEF i, d
  <2>5. ConfirmedDeposits([ledger EXCEPT ![i] = d]) = ConfirmedDeposits(ledger) \ {i}
    BY <2>1, <2>4 DEF ConfirmedDeposits
  <2>6. QED
    BY <1>2, <2>1, <2>2, <2>5
<1>3. QED
  BY <1>1, <1>2

\* The confirmed deposits of a booking can be counted.
LEMMA DepositsFinite ==
  ASSUME NEW ledger \in Seq(Deposit)
  PROVE  IsFiniteSet(ConfirmedDeposits(ledger))
<1>1. DOMAIN ledger = 1..Len(ledger) /\ Len(ledger) \in Nat
  BY LenProperties
<1>2. IsFiniteSet(1..Len(ledger))
  BY <1>1, FS_Interval
<1>3. QED
  BY <1>1, <1>2, FS_Subset DEF ConfirmedDeposits

\* One conjunct of DepositFollowsState.
DepositOf(b) == Cardinality(ConfirmedDeposits(deposit[b])) = IF Paid(b) THEN 1 ELSE 0

\* Nothing changes for a booking that keeps its deposits and stays paid or unpaid.
LEMMA DepositFrame ==
  ASSUME NEW b \in Bookings, DepositOf(b), deposit'[b] = deposit[b], Paid(b)' <=> Paid(b)
  PROVE  DepositOf(b)'
  BY DEF DepositOf

\* Every step keeps the deposits in line with the bookings.
LEMMA DepositStep == TypeInv /\ DepositFollowsState /\ [Next]_vars => DepositFollowsState'
<1> SUFFICES ASSUME TypeInv, DepositFollowsState, [Next]_vars, NEW a \in Bookings
             PROVE  DepositOf(a)'
  BY DEF DepositFollowsState, DepositOf
<1>1. /\ DepositOf(a) /\ deposit[a] \in Seq(Deposit)
      /\ IsFiniteSet(ConfirmedDeposits(deposit[a]))
  BY DepositsFinite DEF DepositFollowsState, DepositOf, TypeInv, TypeOK
<1>2. CASE Surroundings
  BY <1>1, <1>2, DepositFrame DEF Surroundings, Paid, StateOf
<1>3. ASSUME NEW b \in Bookings, NEW req \in Requests, Create(b, req)
      PROVE  DepositOf(a)'
  <2>1. deposit'[a] = deposit[a] /\ (Paid(a)' <=> Paid(a))
    BY <1>3, CreateEffect DEF Create, Only, Paid, StateOf
  <2>2. QED
    BY <1>1, <2>1, DepositFrame
<1>4. ASSUME NEW b \in Bookings, NEW s \in Locations, VerifyDangerous(b, s)
      PROVE  DepositOf(a)'
  <2>1. deposit'[a] = deposit[a] /\ (Paid(a)' <=> Paid(a))
    BY <1>4, VerifyEffect DEF VerifyDangerous, Only, Paid, StateOf
  <2>2. QED
    BY <1>1, <2>1, DepositFrame
<1>5. ASSUME NEW b \in Bookings, NEW key \in DepositKeys \cup {None}, PayAndWin(b, key)
      PROVE  DepositOf(a)'
  <2>1. CASE a = b
    <3>1. ~Paid(a) /\ Paid(a)'
      BY <1>5, <2>1, WinEffect DEF Moves, Paid, StateOf
    <3>2. ConfirmedDeposits(deposit[a]) = {}
      BY <1>1, <3>1, FS_EmptySet DEF DepositOf
    <3>3. ConfirmedDeposits(deposit'[a]) = {Len(deposit[a]) + 1}
      BY <1>1, <1>5, <2>1, <3>2, WinEffect, AddDepositCounts
    <3>4. QED
      BY <3>1, <3>3, FS_Singleton DEF DepositOf
  <2>2. CASE a # b
    <3>1. deposit'[a] = deposit[a] /\ (Paid(a)' <=> Paid(a))
      BY <1>5, <2>2, WinEffect DEF Moves, Only, Paid, StateOf
    <3>2. QED
      BY <1>1, <3>1, DepositFrame
  <2>3. QED
    BY <2>1, <2>2
<1>6. ASSUME NEW b \in Bookings, NEW key \in DepositKeys \cup {None}, PayAndLose(b, key)
      PROVE  DepositOf(a)'
  <2>1. Paid(a)' <=> Paid(a)
    BY <1>6, LoseEffect DEF Moves, Only, Paid, StateOf
  <2>2. ConfirmedDeposits(deposit'[a]) = ConfirmedDeposits(deposit[a])
    BY <1>1, <1>6, LoseEffect, AddDepositCounts
  <2>3. QED
    BY <1>1, <2>1, <2>2 DEF DepositOf
<1>7. ASSUME NEW b \in Bookings, NEW target, RollsBack(b, target)
      PROVE  DepositOf(a)'
  <2>1. CASE a = b
    <3>1. ~Paid(a)'
      BY <1>7, <2>1, RollbackBookings DEF RollsBack, Paid, StateOf
    <3>2. deposit'[a] = RefundInTx(deposit[a])
      BY <1>7, <2>1, RollbackLedgers
    <3>3. ConfirmedDeposits(RefundInTx(deposit[a])) = {}
      <4>1. CASE ~Paid(a)
        BY <1>1, <4>1, FS_EmptySet, RefundCounts DEF DepositOf
      <4>2. CASE Paid(a)
        <5>1. PICK i : ConfirmedDeposits(deposit[a]) = {i}
          BY <1>1, <4>2, FS_Singleton DEF DepositOf
        <5>2. QED
          BY <1>1, <5>1, RefundCounts
      <4>3. QED
        BY <4>1, <4>2
    <3>4. QED
      BY <3>1, <3>2, <3>3, FS_EmptySet DEF DepositOf
  <2>2. CASE a # b
    <3>1. deposit'[a] = deposit[a]
      BY <1>7, <2>2, RollbackLedgers
    <3>2. Paid(a)' <=> Paid(a)
      BY <1>7, <2>2, RollbackKeepsPaid
    <3>3. QED
      BY <1>1, <3>1, <3>2, DepositFrame
  <2>3. QED
    BY <2>1, <2>2
<1>8. ASSUME NEW b \in Bookings, Advance(b)
      PROVE  DepositOf(a)'
  BY <1>1, <1>8, AdvanceKeepsPaid, DepositFrame DEF Advance
<1>9. QED
  BY <1>2, <1>3, <1>4, <1>5, <1>6, <1>7, <1>8, StepCases

\* No money is kept for nothing and no space is given for nothing: a booking has
\* exactly one confirmed deposit while it is paid and none in any other state,
\* however often it loses, is rejected, is cancelled or comes back.
THEOREM DepositsFollowBookings == Spec => []DepositFollowsState
<1>1. Init => DepositFollowsState
  <2> SUFFICES ASSUME Init, NEW b \in Bookings
               PROVE  Cardinality(ConfirmedDeposits(deposit[b])) = IF Paid(b) THEN 1 ELSE 0
    BY DEF DepositFollowsState
  <2>1. deposit[b] = <<>> /\ ~Paid(b)
    BY DEF Init, NoBooking, Paid, StateOf
  <2>2. ConfirmedDeposits(deposit[b]) = {}
    BY <2>1 DEF ConfirmedDeposits
  <2>3. QED
    BY <2>1, <2>2, FS_EmptySet
<1>2. Spec => []TypeInv
  BY TypeInit, TypeStep, PTL DEF Spec
<1>3. QED
  BY <1>1, <1>2, DepositStep, PTL DEF Spec

------------------------------------------------------------------------------
(* Storage slots.  The two properties need each other: a location that is    *)
(* created now must not be in anybody's record, which the capacity of zero   *)
(* of a location that does not exist says.                                   *)

\* What the operations of a location do to its two sets.
LEMMA SlotFields ==
  ASSUME NEW r \in SL!StorageRecord, NEW b \in Bookings
  PROVE  /\ SL!Reserve(r, b).capacity = r.capacity
         /\ SL!Reserve(r, b).reserved = r.reserved \cup {b}
         /\ SL!Reserve(r, b).confirmed = r.confirmed
         /\ SL!Confirm(r, b).capacity = r.capacity
         /\ SL!Confirm(r, b).reserved = r.reserved \ {b}
         /\ SL!Confirm(r, b).confirmed =
              IF b \in r.reserved THEN r.confirmed \cup {b} ELSE r.confirmed
         /\ SL!Release(r, b).capacity = r.capacity
         /\ SL!Release(r, b).reserved = r.reserved \ {b}
         /\ SL!Release(r, b).confirmed = r.confirmed \ {b}
  BY DEF SL!Reserve, SL!Confirm, SL!Release, SL!StorageRecord

\* The sets of a location can be counted.
LEMMA SlotsFinite ==
  ASSUME NEW r \in SL!StorageRecord
  PROVE  /\ IsFiniteSet(r.reserved) /\ IsFiniteSet(r.confirmed)
         /\ Cardinality(r.reserved) \in Nat /\ Cardinality(r.confirmed) \in Nat
         /\ r.capacity \in Nat
<1>1. r.reserved \in SUBSET Bookings /\ r.confirmed \in SUBSET Bookings /\ r.capacity \in Nat
  BY DEF SL!StorageRecord
<1>2. QED
  BY <1>1, BookingsFinite, FS_Subset, FS_CardinalityType

\* How the slots of a location in use are counted.
LEMMA SlotsCounted ==
  ASSUME NEW r
  PROVE  SL!UsedSlots(r) = Cardinality(r.reserved) + Cardinality(r.confirmed)
<1>1. ASSUME NEW S PROVE SL!Cardinality(S) = Cardinality(S)
  BY DEF SL!Cardinality, Cardinality
<1>2. QED
  BY <1>1 DEF SL!UsedSlots

\* Reserve takes one slot, Confirm and Release take none.
LEMMA SlotsUsed ==
  ASSUME NEW r \in SL!StorageRecord, NEW b \in Bookings
  PROVE  /\ SL!UsedSlots(SL!Reserve(r, b)) <= SL!UsedSlots(r) + 1
         /\ SL!UsedSlots(SL!Confirm(r, b)) <= SL!UsedSlots(r)
         /\ SL!UsedSlots(SL!Release(r, b)) <= SL!UsedSlots(r)
<1> DEFINE R == r.reserved
           C == r.confirmed
<1>1. /\ IsFiniteSet(R) /\ IsFiniteSet(C) /\ Cardinality(R) \in Nat /\ Cardinality(C) \in Nat
  BY SlotsFinite
<1>2. SL!UsedSlots(r) = Cardinality(R) + Cardinality(C)
  BY SlotsCounted
<1>3. SL!UsedSlots(SL!Reserve(r, b)) = Cardinality(R \cup {b}) + Cardinality(C)
  BY SlotFields, SlotsCounted
<1>4. SL!UsedSlots(SL!Release(r, b)) = Cardinality(R \ {b}) + Cardinality(C \ {b})
  BY SlotFields, SlotsCounted
<1>5. SL!UsedSlots(SL!Confirm(r, b)) =
        Cardinality(R \ {b}) + Cardinality(IF b \in R THEN C \cup {b} ELSE C)
  BY SlotFields, SlotsCounted
<1> HIDE DEF R, C
<1>6. /\ Cardinality(R \cup {b}) = IF b \in R THEN Cardinality(R) ELSE Cardinality(R) + 1
      /\ Cardinality(C \cup {b}) = IF b \in C THEN Cardinality(C) ELSE Cardinality(C) + 1
  BY <1>1, FS_AddElement
<1>7. /\ Cardinality(R \ {b}) = IF b \in R THEN Cardinality(R) - 1 ELSE Cardinality(R)
      /\ Cardinality(C \ {b}) = IF b \in C THEN Cardinality(C) - 1 ELSE Cardinality(C)
  BY <1>1, FS_RemoveElement
<1>8. SL!UsedSlots(SL!Reserve(r, b)) <= SL!UsedSlots(r) + 1
  BY <1>1, <1>2, <1>3, <1>6
<1>9. SL!UsedSlots(SL!Release(r, b)) <= SL!UsedSlots(r)
  BY <1>1, <1>2, <1>4, <1>7
<1>10. SL!UsedSlots(SL!Confirm(r, b)) <= SL!UsedSlots(r)
  BY <1>1, <1>2, <1>5, <1>6, <1>7
<1>11. QED
  BY <1>8, <1>9, <1>10

\* A location that does not exist has nothing in it.
LEMMA NoSlotsYet ==
  ASSUME TypeInv, StorageCapacityRespected, NEW s \in Locations, ~LocationExists(s)
  PROVE  storage[s].reserved = {} /\ storage[s].confirmed = {}
<1> DEFINE r == storage[s]
<1>1. r \in SL!StorageRecord
  BY DEF TypeInv, TypeOK
<1>2. r.capacity = 0
  BY <1>1, SlotsFinite DEF LocationExists
<1>3. Cardinality(r.reserved) + Cardinality(r.confirmed) <= 0
  BY <1>2, SlotsCounted DEF StorageCapacityRespected
<1>4. Cardinality(r.reserved) = 0 /\ Cardinality(r.confirmed) = 0
  BY <1>1, <1>3, SlotsFinite
<1>5. QED
  BY <1>1, <1>4, SlotsFinite, FS_EmptySet

\* Every step keeps the locations within their capacity.
LEMMA StorageCapacityStep ==
  TypeInv /\ StorageCapacityRespected /\ [Next]_vars => StorageCapacityRespected'
<1> SUFFICES ASSUME TypeInv, StorageCapacityRespected, [Next]_vars, NEW s \in Locations
             PROVE  SL!UsedSlots(storage'[s]) <= storage'[s].capacity
  BY DEF StorageCapacityRespected
<1> DEFINE r == storage[s]
<1>1. r \in SL!StorageRecord /\ SL!UsedSlots(r) <= r.capacity
  BY DEF TypeInv, TypeOK, StorageCapacityRespected
<1>2. SL!UsedSlots(r) \in Nat /\ r.capacity \in Nat
  BY <1>1, SlotsFinite, SlotsCounted
<1>3. CASE storage'[s] = r
  BY <1>1, <1>3
<1>4. ASSUME NEW t \in Locations, NEW c \in StorageCapacities, CreateStorage(t, c)
      PROVE  SL!UsedSlots(storage'[s]) <= storage'[s].capacity
  <2>1. CASE s = t
    <3>1. storage'[s] = SL!NewStorage(c) /\ c > 0
      BY <1>4, <2>1 DEF CreateStorage, TypeInv, TypeOK
    <3>2. storage'[s].capacity = c /\ storage'[s].reserved = {} /\ storage'[s].confirmed = {}
      BY <3>1 DEF SL!NewStorage
    <3>3. c \in Int
      BY InputAssumption
    <3>4. QED
      BY <3>1, <3>2, <3>3, FS_EmptySet, SlotsCounted
  <2>2. CASE s # t
    BY <1>3, <1>4, <2>2 DEF CreateStorage, TypeInv, TypeOK
  <2>3. QED
    BY <2>1, <2>2
<1>5. ASSUME NEW b \in Bookings, NEW t \in Locations, VerifyDangerous(b, t)
      PROVE  SL!UsedSlots(storage'[s]) <= storage'[s].capacity
  <2>1. CASE s = t
    <3>1. storage'[s] = SL!Reserve(r, b)
      BY <1>5, <2>1, VerifyEffect
    <3>2. SL!UsedSlots(r) < r.capacity
      BY <1>5, <2>1 DEF VerifyDangerous, SL!MayReserve, SL!CanReserve
    <3>3. /\ SL!UsedSlots(SL!Reserve(r, b)) <= SL!UsedSlots(r) + 1
          /\ SL!Reserve(r, b).capacity = r.capacity
      BY <1>1, SlotsUsed, SlotFields
    <3>4. SL!UsedSlots(SL!Reserve(r, b)) \in Nat
      BY <1>1, StorageType, SlotsFinite, SlotsCounted DEF SL!Reserve, SL!StorageRecord
    <3>5. QED
      BY <1>2, <3>1, <3>2, <3>3, <3>4
  <2>2. CASE s # t
    BY <1>3, <1>5, <2>2, VerifyEffect
  <2>3. QED
    BY <2>1, <2>2
<1>6. ASSUME NEW b \in Bookings, storage'[s] = SL!Confirm(r, b) \/ storage'[s] = SL!Release(r, b)
      PROVE  SL!UsedSlots(storage'[s]) <= storage'[s].capacity
  <2>1. /\ SL!UsedSlots(storage'[s]) <= SL!UsedSlots(r)
        /\ storage'[s].capacity = r.capacity
    <3>1. /\ SL!UsedSlots(SL!Confirm(r, b)) <= SL!UsedSlots(r)
          /\ SL!UsedSlots(SL!Release(r, b)) <= SL!UsedSlots(r)
      BY <1>1, SlotsUsed
    <3>2. SL!Confirm(r, b).capacity = r.capacity /\ SL!Release(r, b).capacity = r.capacity
      BY <1>1, SlotFields
    <3>3. QED
      BY <1>6, <3>1, <3>2
  <2>2. SL!Confirm(r, b) \in SL!StorageRecord /\ SL!Release(r, b) \in SL!StorageRecord
    BY <1>1 DEF SL!Confirm, SL!Release, SL!StorageRecord
  <2>3. SL!UsedSlots(storage'[s]) \in Nat
    BY <1>6, <2>2, SlotsFinite, SlotsCounted
  <2>4. QED
    BY <1>1, <1>2, <2>1, <2>3
<1>7. ASSUME NEW b \in Bookings, NEW key \in DepositKeys \cup {None}, PayAndWin(b, key)
      PROVE  SL!UsedSlots(storage'[s]) <= storage'[s].capacity
  BY <1>3, <1>6, <1>7, WinEffect
<1>8. ASSUME NEW b \in Bookings, NEW target, RollsBack(b, target)
      PROVE  SL!UsedSlots(storage'[s]) <= storage'[s].capacity
  BY <1>3, <1>6, <1>8, RollbackLedgers
<1>9. CASE \E b \in Bookings : \/ \E req \in Requests : Create(b, req)
                               \/ \E key \in DepositKeys \cup {None} : PayAndLose(b, key)
                               \/ Advance(b)
  BY <1>3, <1>9 DEF Create, PayAndLose, Advance
<1>10. CASE Surroundings
  BY <1>3, <1>4, <1>10 DEF Surroundings
<1>11. QED
  BY <1>5, <1>7, <1>8, <1>9, <1>10, StepCases



\* The states with a reserved storage slot, for cargo that needs one, and those
\* that never have a slot.
Reserving(b) == StateOf(b) \in {"storage_verified", "space_allocated", "waitlisted"}
Slotless(b) == StateOf(b) \in {"docs_submitted", "initiated", "pending_review", "cancelled"}

\* One conjunct of StorageFollowsState.
SlotOf(s, b) ==
  LET mine == booking[b].location = s /\ booking[b].locked IN
  /\ b \in storage[s].confirmed <=> (mine /\ Paid(b))
  /\ b \in storage[s].reserved <=> (mine /\ Reserving(b))
  /\ Slotless(b) => ~mine

\* A booking that keeps its slot and stays on the same side of the deposit.
LEMMA SlotFrame ==
  ASSUME NEW s \in Locations, NEW b \in Bookings, SlotOf(s, b), SameSlot(b),
         b \in storage'[s].reserved <=> b \in storage[s].reserved,
         b \in storage'[s].confirmed <=> b \in storage[s].confirmed,
         Paid(b)' <=> Paid(b), Reserving(b)' <=> Reserving(b), Slotless(b)' => Slotless(b)
  PROVE  SlotOf(s, b)'
  BY DEF SlotOf, SameSlot

\* In particular one whose record does not change.
LEMMA SlotUnchanged ==
  ASSUME NEW s \in Locations, NEW b \in Bookings, SlotOf(s, b), booking'[b] = booking[b],
         b \in storage'[s].reserved <=> b \in storage[s].reserved,
         b \in storage'[s].confirmed <=> b \in storage[s].confirmed
  PROVE  SlotOf(s, b)'
  BY DEF SlotOf, Paid, Reserving, Slotless, StateOf

\* The operations of a location for b leave the others where they are.
LEMMA OthersKeepSlot ==
  ASSUME NEW r \in SL!StorageRecord, NEW b \in Bookings, NEW a \in Bookings \ {b},
         NEW q \in {SL!Reserve(r, b), SL!Confirm(r, b), SL!Release(r, b)}
  PROVE  /\ a \in q.reserved <=> a \in r.reserved
         /\ a \in q.confirmed <=> a \in r.confirmed
<1>1. CASE q = SL!Reserve(r, b)
  BY <1>1 DEF SL!Reserve, SL!StorageRecord
<1>2. CASE q = SL!Confirm(r, b)
  BY <1>2 DEF SL!Confirm, SL!StorageRecord
<1>3. CASE q = SL!Release(r, b)
  BY <1>3 DEF SL!Release, SL!StorageRecord
<1>4. QED
  BY <1>1, <1>2, <1>3

\* A call that moves b on keeps everybody's slot, b's own included.
LEMMA AdvanceKeepsSlots ==
  ASSUME TypeInv, NEW b \in Bookings, Advance(b), NEW s \in Locations, NEW a \in Bookings,
         SlotOf(s, a)
  PROVE  SlotOf(s, a)'
<1>1. storage' = storage
  BY DEF Advance
<1>2. CASE booking'[a] = booking[a]
  BY <1>1, <1>2, SlotUnchanged
<1>3. CASE a # b
  <2>1. Only(b)
    BY SubmitEffect, BillEffect, RequeueEffect DEF Advance, Moves
  <2>2. QED
    BY <1>2, <1>3, <2>1 DEF Only
<1>4. CASE Moves(b, "docs_submitted", "storage_verified") /\ a = b
  BY <1>1, <1>4 DEF Moves, SlotOf, SameSlot, Paid, Reserving, Slotless, StateOf
<1>5. CASE /\ a = b
           /\ \/ Moves(b, "storage_verified", "space_allocated")
              \/ Moves(b, "deposit_paid", "customs_released")
              \/ Moves(b, "customs_released", "confirmed")
              \/ Moves(b, StateOf(b), StateOf(b))
  <2>1. /\ SameSlot(a)
        /\ Paid(a)' <=> Paid(a)
        /\ Reserving(a)' <=> Reserving(a)
        /\ Slotless(a)' => Slotless(a)
    BY <1>5 DEF Moves, Paid, Reserving, Slotless, StateOf
  <2>2. QED
    BY <1>1, <2>1, SlotFrame
<1>6. ASSUME NEW cert \in Certificates \cup {None}, SubmitDocuments(b, cert), a = b
      PROVE  SlotOf(s, a)'
  <2>1. /\ SameSlot(a)
        /\ Paid(a)' <=> Paid(a)
        /\ Reserving(a)' <=> Reserving(a)
        /\ Slotless(a)' => Slotless(a)
    BY <1>6, SubmitEffect DEF Paid, Reserving, Slotless, StateOf
  <2>2. QED
    BY <1>1, <2>1, SlotFrame
<1>7. ASSUME NEW bill \in Bills, BindBill(b, bill), a = b
      PROVE  SlotOf(s, a)'
  <2>1. /\ SameSlot(a)
        /\ Paid(a)' <=> Paid(a)
        /\ Reserving(a)' <=> Reserving(a)
        /\ Slotless(a)' => Slotless(a)
    BY <1>7, BillEffect DEF Paid, Reserving, Slotless, StateOf
  <2>2. QED
    BY <1>1, <2>1, SlotFrame
<1>8. CASE Requeue(b) /\ a = b
  <2>1. /\ SameSlot(a)
        /\ Paid(a)' <=> Paid(a)
        /\ Reserving(a)' <=> Reserving(a)
        /\ Slotless(a)' => Slotless(a)
    BY <1>8, RequeueEffect DEF Paid, Reserving, Slotless, StateOf
  <2>2. QED
    BY <1>1, <2>1, SlotFrame
<1>9. QED
  BY <1>3, <1>4, <1>5, <1>6, <1>7, <1>8 DEF Advance

\* Every step keeps the slots in line with the bookings.
LEMMA StorageStep ==
  TypeInv /\ StorageFollowsState /\ StorageCapacityRespected /\ [Next]_vars
    => StorageFollowsState'
<1> SUFFICES ASSUME TypeInv, StorageFollowsState, StorageCapacityRespected, [Next]_vars,
                    NEW s \in Locations, NEW a \in Bookings
             PROVE  SlotOf(s, a)'
  BY DEF StorageFollowsState, SlotOf, Reserving, Slotless
<1> DEFINE r == storage[s]
<1>1. SlotOf(s, a) /\ r \in SL!StorageRecord
  BY DEF StorageFollowsState, SlotOf, Reserving, Slotless, TypeInv, TypeOK
<1>2. CASE Surroundings
  <2>1. CASE storage' = storage
    BY <1>1, <1>2, <2>1, SlotUnchanged DEF Surroundings
  <2>2. ASSUME NEW t \in Locations, NEW c \in StorageCapacities, CreateStorage(t, c)
        PROVE  SlotOf(s, a)'
    <3>1. CASE s = t
      <4>1. r.reserved = {} /\ r.confirmed = {}
        BY <2>2, <3>1, NoSlotsYet DEF CreateStorage
      <4>2. storage'[s].reserved = {} /\ storage'[s].confirmed = {}
        BY <2>2, <3>1 DEF CreateStorage, SL!NewStorage, TypeInv, TypeOK
      <4>3. QED
        BY <1>1, <1>2, <4>1, <4>2, SlotUnchanged DEF Surroundings
    <3>2. CASE s # t
      <4>1. storage'[s] = storage[s]
        BY <2>2, <3>2 DEF CreateStorage, TypeInv, TypeOK
      <4>2. QED
        BY <1>1, <1>2, <4>1, SlotUnchanged DEF Surroundings
    <3>3. QED
      BY <3>1, <3>2
  <2>3. QED
    BY <1>2, <2>1, <2>2 DEF Surroundings
<1>3. ASSUME NEW b \in Bookings, NEW req \in Requests, Create(b, req)
      PROVE  SlotOf(s, a)'
  <2>1. storage' = storage
    BY <1>3 DEF Create
  <2>2. CASE a = b
    <3>1. StateOf(a) = "absent" /\ booking'[a].state = "initiated" /\ booking'[a].locked = FALSE
      BY <1>3, <2>2, CreateEffect
    <3>2. QED
      BY <1>1, <2>1, <3>1 DEF SlotOf, Paid, Reserving, StateOf
  <2>3. CASE a # b
    BY <1>1, <1>3, <2>1, <2>3, CreateEffect, SlotUnchanged DEF Only
  <2>4. QED
    BY <2>2, <2>3
<1>4. ASSUME NEW b \in Bookings, NEW t \in Locations, VerifyDangerous(b, t)
      PROVE  SlotOf(s, a)'
  <2>1. storage'[s] = IF s = t THEN SL!Reserve(r, b) ELSE r
    BY <1>4, VerifyEffect
  <2>2. CASE a = b
    <3>1. /\ StateOf(a) = "docs_submitted" /\ booking'[a].state = "storage_verified"
          /\ booking'[a].location = t /\ booking'[a].locked = TRUE
      BY <1>4, <2>2, VerifyEffect
    <3>2. a \notin r.reserved /\ a \notin r.confirmed
      BY <1>1, <3>1 DEF SlotOf, Paid, Reserving, StateOf
    <3>3. a \notin storage'[s].confirmed /\ (a \in storage'[s].reserved <=> s = t)
      BY <1>1, <2>1, <2>2, <3>2 DEF SL!Reserve, SL!StorageRecord
    <3>4. QED
      BY <3>1, <3>3 DEF SlotOf, Paid, Reserving, Slotless, StateOf
  <2>3. CASE a # b
    <3>1. booking'[a] = booking[a]
      BY <1>4, <2>3, VerifyEffect DEF Only
    <3>2. /\ a \in storage'[s].reserved <=> a \in r.reserved
          /\ a \in storage'[s].confirmed <=> a \in r.confirmed
      BY <1>1, <2>1, <2>3, OthersKeepSlot
    <3>3. QED
      BY <1>1, <3>1, <3>2, SlotUnchanged
  <2>4. QED
    BY <2>2, <2>3
<1>5. ASSUME NEW b \in Bookings, NEW key \in DepositKeys \cup {None}, PayAndWin(b, key)
      PROVE  SlotOf(s, a)'
  <2>1. storage'[s] = IF booking[b].location = s THEN SL!Confirm(r, b) ELSE r
    BY <1>5, WinEffect
  <2>2. Moves(b, "space_allocated", "deposit_paid")
    BY <1>5, WinEffect
  <2>3. CASE a = b
    <3>1. /\ StateOf(a) = "space_allocated" /\ booking'[a].state = "deposit_paid"
          /\ SameSlot(a)
      BY <2>2, <2>3 DEF Moves
    <3>2. /\ a \notin r.confirmed
          /\ a \in r.reserved <=> (booking[a].location = s /\ booking[a].locked)
      BY <1>1, <3>1 DEF SlotOf, Paid, Reserving, StateOf
    <3>3. /\ a \notin storage'[s].reserved
          /\ a \in storage'[s].confirmed <=> (booking[a].location = s /\ booking[a].locked)
      BY <1>1, <2>1, <2>3, <3>2 DEF SL!Confirm, SL!StorageRecord
    <3>4. QED
      BY <3>1, <3>3 DEF SlotOf, SameSlot, Paid, Reserving, Slotless, StateOf
  <2>4. CASE a # b
    <3>1. booking'[a] = booking[a]
      BY <2>2, <2>4 DEF Moves, Only
    <3>2. /\ a \in storage'[s].reserved <=> a \in r.reserved
          /\ a \in storage'[s].confirmed <=> a \in r.confirmed
      BY <1>1, <2>1, <2>4, OthersKeepSlot
    <3>3. QED
      BY <1>1, <3>1, <3>2, SlotUnchanged
  <2>5. QED
    BY <2>3, <2>4
<1>6. ASSUME NEW b \in Bookings, NEW key \in DepositKeys \cup {None}, PayAndLose(b, key)
      PROVE  SlotOf(s, a)'
  <2>1. Moves(b, "space_allocated", "waitlisted") /\ storage' = storage
    BY <1>6, LoseEffect
  <2>2. CASE a = b
    <3>1. SameSlot(a) /\ (Paid(a)' <=> Paid(a)) /\ (Reserving(a)' <=> Reserving(a)) /\ ~Slotless(a)'
      BY <2>1, <2>2 DEF Moves, Paid, Reserving, Slotless, StateOf
    <3>2. QED
      BY <1>1, <2>1, <3>1, SlotFrame
  <2>3. CASE a # b
    BY <1>1, <2>1, <2>3, SlotUnchanged DEF Moves, Only
  <2>4. QED
    BY <2>2, <2>3
<1>7. ASSUME NEW b \in Bookings, NEW target, RollsBack(b, target)
      PROVE  SlotOf(s, a)'
  <2>1. storage'[s] = IF booking[b].location = s THEN SL!Release(r, b) ELSE r
    BY <1>7, RollbackLedgers
  <2>2. CASE a = b
    <3>1. /\ booking'[a].state \in {"cancelled", "pending_review"}
          /\ booking'[a].locked = FALSE
      BY <1>7, <2>2, RollbackBookings DEF RollsBack
    <3>2. a \notin storage'[s].reserved /\ a \notin storage'[s].confirmed
      BY <1>1, <2>1, <2>2 DEF SlotOf, SL!Release, SL!StorageRecord
    <3>3. QED
      BY <3>1, <3>2 DEF SlotOf
  <2>3. CASE a # b
    <3>1. /\ a \in storage'[s].reserved <=> a \in r.reserved
          /\ a \in storage'[s].confirmed <=> a \in r.confirmed
      BY <1>1, <2>1, <2>3, OthersKeepSlot
    <3>2. CASE booking'[a] = booking[a]
      BY <1>1, <3>1, <3>2, SlotUnchanged
    <3>3. CASE /\ StateOf(a) = "waitlisted" /\ booking'[a].state = "space_allocated"
               /\ SameSlot(a)
      <4>1. (Paid(a)' <=> Paid(a)) /\ (Reserving(a)' <=> Reserving(a)) /\ ~Slotless(a)'
        BY <3>3 DEF Paid, Reserving, Slotless, StateOf
      <4>2. QED
        BY <1>1, <3>1, <3>3, <4>1, SlotFrame
    <3>4. QED
      BY <1>7, <2>3, <3>2, <3>3, RollbackBookings
  <2>4. QED
    BY <2>2, <2>3
<1>8. ASSUME NEW b \in Bookings, Advance(b)
      PROVE  SlotOf(s, a)'
  BY <1>1, <1>8, AdvanceKeepsSlots
<1>9. QED
  BY <1>2, <1>3, <1>4, <1>5, <1>6, <1>7, <1>8, StepCases

\* The slots agree with the bookings and the locations are not overbooked.
StorageInv == StorageFollowsState /\ StorageCapacityRespected

\* At the start no location has a slot and no booking is there to want one.
LEMMA StorageInit == Init => StorageInv
<1> SUFFICES ASSUME Init, NEW s \in Locations
             PROVE  /\ SL!UsedSlots(storage[s]) <= storage[s].capacity
                    /\ \A b \in Bookings : SlotOf(s, b)
  BY DEF StorageInv, StorageFollowsState, StorageCapacityRespected, SlotOf, Reserving, Slotless
<1>1. storage[s].capacity = 0 /\ storage[s].reserved = {} /\ storage[s].confirmed = {}
  BY DEF Init, NoStorage, SL!NewStorage
<1>2. SL!UsedSlots(storage[s]) <= storage[s].capacity
  BY <1>1, SlotsCounted, FS_EmptySet
<1>3. ASSUME NEW b \in Bookings
      PROVE  SlotOf(s, b)
  BY <1>1 DEF Init, NoBooking, SlotOf, Paid, Reserving, Slotless, StateOf
<1>4. QED
  BY <1>2, <1>3

\* A storage slot is reserved from the terminal's verification on, confirmed by
\* the deposit and given back by every rollback: through any interleaving of
\* calls and scheduler passes no slot leaks and none is shared.
THEOREM StorageFollowsBookings == Spec => []StorageFollowsState
<1>1. TypeInv /\ StorageInv /\ [Next]_vars => StorageInv'
  BY StorageStep, StorageCapacityStep DEF StorageInv
<1>2. StorageInv => StorageFollowsState
  BY DEF StorageInv
<1>3. QED
  BY <1>1, <1>2, StorageInit, TypeInit, TypeStep, PTL DEF Spec

\* A storage location never takes more dangerous cargo than it has slots.
THEOREM StorageIsNotOverbooked == Spec => []StorageCapacityRespected
<1>1. Init => StorageCapacityRespected
  BY StorageInit DEF StorageInv
<1>2. QED
  BY <1>1, StorageCapacityStep, TypeInit, TypeStep, PTL DEF Spec

------------------------------------------------------------------------------
(* Documents.  PaidDangerousIsReady looks at paid bookings only; the         *)
(* invariant says where each document was required on the way.               *)

HasPapers(b) == booking[b].cert # None /\ booking[b].packing

PreparedOf(b) ==
  IsDangerous(booking[b].kind) =>
    /\ StateOf(b) = "docs_submitted" \/ Reserving(b) \/ Paid(b) => HasPapers(b)
    /\ Reserving(b) \/ Paid(b) => booking[b].locked /\ booking[b].location \in Locations

Prepared == \A b \in Bookings : PreparedOf(b)

\* A booking that keeps what it has, and has no more to show than before.
LEMMA PreparedFrame ==
  ASSUME NEW b \in Bookings, PreparedOf(b), SameCargo(b), SamePapers(b), SameSlot(b),
         Reserving(b)' \/ Paid(b)' => Reserving(b) \/ Paid(b),
         booking'[b].state = "docs_submitted" => StateOf(b) = "docs_submitted"
  PROVE  PreparedOf(b)'
  BY DEF PreparedOf, SameCargo, SamePapers, SameSlot, HasPapers, StateOf

\* Every step keeps the documents in order.
LEMMA PreparedStep == TypeInv /\ Prepared /\ [Next]_vars => Prepared'
<1> SUFFICES ASSUME TypeInv, Prepared, [Next]_vars, NEW a \in Bookings
             PROVE  PreparedOf(a)'
  BY DEF Prepared
<1>1. PreparedOf(a)
  BY DEF Prepared
<1>2. CASE booking'[a] = booking[a]
  BY <1>1, <1>2 DEF PreparedOf, HasPapers, Reserving, Paid, StateOf
<1>3. CASE Surroundings
  BY <1>2, <1>3 DEF Surroundings
<1>4. ASSUME NEW b \in Bookings, NEW req \in Requests, Create(b, req)
      PROVE  PreparedOf(a)'
  <2>1. CASE a = b
    BY <1>4, <2>1, CreateEffect DEF PreparedOf, Reserving, Paid, StateOf
  <2>2. QED
    BY <1>2, <1>4, <2>1, CreateEffect DEF Only
<1>5. ASSUME NEW b \in Bookings, NEW s \in Locations, VerifyDangerous(b, s)
      PROVE  PreparedOf(a)'
  <2>1. CASE a = b
    BY <1>1, <1>5, <2>1, VerifyEffect
    DEF PreparedOf, HasPapers, SameCargo, SamePapers, Reserving, Paid, StateOf
  <2>2. QED
    BY <1>2, <1>5, <2>1, VerifyEffect DEF Only
<1>6. ASSUME NEW b \in Bookings,
             \/ Moves(b, "storage_verified", "space_allocated")
             \/ Moves(b, "space_allocated", "deposit_paid")
             \/ Moves(b, "space_allocated", "waitlisted")
             \/ Moves(b, "deposit_paid", "customs_released")
             \/ Moves(b, "customs_released", "confirmed")
             \/ Moves(b, StateOf(b), StateOf(b))
      PROVE  PreparedOf(a)'
  <2>1. CASE a = b
    <3>1. /\ SameCargo(a) /\ SamePapers(a) /\ SameSlot(a)
          /\ Reserving(a)' \/ Paid(a)' => Reserving(a) \/ Paid(a)
          /\ booking'[a].state = "docs_submitted" => StateOf(a) = "docs_submitted"
      BY <1>6, <2>1 DEF Moves, Reserving, Paid, StateOf
    <3>2. QED
      BY <1>1, <3>1, PreparedFrame
  <2>2. QED
    BY <1>2, <1>6, <2>1 DEF Moves, Only
<1>7. ASSUME NEW b \in Bookings, NEW key \in DepositKeys \cup {None},
             PayAndWin(b, key) \/ PayAndLose(b, key)
      PROVE  PreparedOf(a)'
  BY <1>6, <1>7, WinEffect, LoseEffect
<1>8. ASSUME NEW b \in Bookings, NEW target, RollsBack(b, target)
      PROVE  PreparedOf(a)'
  <2>1. CASE a = b
    BY <1>8, <2>1, RollbackBookings DEF RollsBack, PreparedOf, Reserving, Paid, StateOf
  <2>2. CASE /\ StateOf(a) = "waitlisted" /\ booking'[a].state = "space_allocated"
             /\ SameCargo(a) /\ SamePapers(a) /\ SameSlot(a)
    BY <1>1, <2>2, PreparedFrame DEF Reserving, Paid, StateOf
  <2>3. QED
    BY <1>2, <1>8, <2>1, <2>2, RollbackBookings
<1>9. ASSUME NEW b \in Bookings, Advance(b)
      PROVE  PreparedOf(a)'
  <2>1. CASE \E cert \in Certificates \cup {None} : SubmitDocuments(b, cert)
    <3>1. CASE a = b
      BY <2>1, <3>1, SubmitEffect
      DEF PreparedOf, HasPapers, SameCargo, Reserving, Paid, StateOf
    <3>2. QED
      BY <1>2, <2>1, <3>1, SubmitEffect DEF Only
  <2>2. CASE ~IsDangerous(booking[b].kind) /\ Moves(b, "docs_submitted", "storage_verified")
    <3>1. CASE a = b
      BY <2>2, <3>1 DEF Moves, PreparedOf, SameCargo
    <3>2. QED
      BY <1>2, <2>2, <3>1 DEF Moves, Only
  <2>3. CASE \E bill \in Bills : BindBill(b, bill)
    <3>1. CASE a = b
      <4>1. /\ SameCargo(a) /\ SamePapers(a) /\ SameSlot(a)
            /\ Reserving(a)' \/ Paid(a)' => Reserving(a) \/ Paid(a)
            /\ booking'[a].state = "docs_submitted" => StateOf(a) = "docs_submitted"
        BY <2>3, <3>1, BillEffect DEF Reserving, Paid, StateOf
      <4>2. QED
        BY <1>1, <4>1, PreparedFrame
    <3>2. QED
      BY <1>2, <2>3, <3>1, BillEffect DEF Only
  <2>4. CASE Requeue(b)
    <3>1. CASE a = b
      BY <2>4, <3>1, RequeueEffect
      DEF PreparedOf, HasPapers, SamePapers, Reserving, Paid, StateOf
    <3>2. QED
      BY <1>2, <2>4, <3>1, RequeueEffect DEF Only
  <2>5. QED
    BY <1>6, <1>9, <2>1, <2>2, <2>3, <2>4 DEF Advance
<1>10. QED
  BY <1>3, <1>4, <1>5, <1>7, <1>8, <1>9, StepCases

\* No booking exists at the start.
LEMMA PreparedInit == Init => Prepared
  BY DEF Init, NoBooking, Prepared, PreparedOf, IsDangerous

\* Dangerous cargo that has paid carries a certificate and a packing list and
\* occupies a storage slot, even after a customs rejection and a second pass
\* with the documents of the first.
THEOREM PaidDangerousIsAlwaysReady == Spec => []PaidDangerousIsReady
<1>1. Prepared /\ StorageFollowsState => PaidDangerousIsReady
  <2> SUFFICES ASSUME Prepared, StorageFollowsState, NEW b \in Bookings, Paid(b),
                      IsDangerous(booking[b].kind)
               PROVE  /\ booking[b].cert # None
                      /\ booking[b].packing
                      /\ \E s \in Locations : /\ booking[b].location = s
                                              /\ b \in storage[s].confirmed
    BY DEF PaidDangerousIsReady
  <2>1. HasPapers(b) /\ booking[b].locked /\ booking[b].location \in Locations
    BY DEF Prepared, PreparedOf
  <2>2. b \in storage[booking[b].location].confirmed
    BY <2>1 DEF StorageFollowsState
  <2>3. QED
    BY <2>1, <2>2 DEF HasPapers
<1>2. Spec => []Prepared
  BY PreparedInit, PreparedStep, TypeInit, TypeStep, PTL DEF Spec
<1>3. QED
  BY <1>1, <1>2, StorageFollowsBookings, PTL

------------------------------------------------------------------------------
(* Certificates at customs. *)

\* One conjunct of ReleasedUnderValidCertificate.
ReleasedOf(b) ==
  StateOf(b) \in {"customs_released", "confirmed"} /\ IsDangerous(booking[b].kind)
    => /\ booking[b].cert # None
       /\ booking[b].cert.issued <= booking[b].released
       /\ booking[b].released <= booking[b].cert.expires

\* Every step keeps the certificates of what left customs in force.
LEMMA ReleasedStep ==
  TypeInv /\ ReleasedUnderValidCertificate /\ [Next]_vars => ReleasedUnderValidCertificate'
<1> SUFFICES ASSUME TypeInv, ReleasedUnderValidCertificate, [Next]_vars, NEW a \in Bookings
             PROVE  ReleasedOf(a)'
  BY DEF ReleasedUnderValidCertificate, ReleasedOf
<1>1. ReleasedOf(a)
  BY DEF ReleasedUnderValidCertificate, ReleasedOf
<1>2. ASSUME SameCargo(a), SamePapers(a), booking'[a].released = booking[a].released,
             booking'[a].state \in {"customs_released", "confirmed"} =>
               StateOf(a) \in {"customs_released", "confirmed"}
      PROVE  ReleasedOf(a)'
  BY <1>1, <1>2 DEF ReleasedOf, SameCargo, SamePapers, StateOf
<1>3. CASE booking'[a] = booking[a]
  BY <1>1, <1>3 DEF ReleasedOf, StateOf
<1>4. CASE booking'[a].state \notin {"customs_released", "confirmed"}
  BY <1>4 DEF ReleasedOf, StateOf
<1>5. CASE Surroundings
  BY <1>3, <1>5 DEF Surroundings
<1>6. ASSUME NEW b \in Bookings, NEW req \in Requests, Create(b, req)
      PROVE  ReleasedOf(a)'
  BY <1>3, <1>4, <1>6, CreateEffect DEF Create, Only
<1>7. ASSUME NEW b \in Bookings, NEW s \in Locations, VerifyDangerous(b, s)
      PROVE  ReleasedOf(a)'
  BY <1>3, <1>4, <1>7, VerifyEffect DEF VerifyDangerous, Only
<1>8. ASSUME NEW b \in Bookings, NEW key \in DepositKeys \cup {None},
             PayAndWin(b, key) \/ PayAndLose(b, key)
      PROVE  ReleasedOf(a)'
  <2>1. Moves(b, "space_allocated", "deposit_paid") \/ Moves(b, "space_allocated", "waitlisted")
    BY <1>8, WinEffect, LoseEffect
  <2>2. QED
    BY <1>3, <1>4, <2>1 DEF Moves, Only
<1>9. ASSUME NEW b \in Bookings, NEW target, RollsBack(b, target)
      PROVE  ReleasedOf(a)'
  <2>1. booking'[b].state = target /\ target \in {"cancelled", "pending_review"}
    BY <1>9, RollbackBookings DEF RollsBack
  <2>2. QED
    BY <1>3, <1>4, <1>9, <2>1, RollbackBookings
<1>10. ASSUME NEW b \in Bookings, Advance(b)
       PROVE  ReleasedOf(a)'
  <2>1. CASE \E cert \in Certificates \cup {None} : SubmitDocuments(b, cert)
    BY <1>3, <1>4, <2>1, SubmitEffect DEF Only
  <2>2. CASE CustomsRelease(b)
    <3>1. CASE a = b
      <4>1. /\ IsDangerous(booking[a].kind) => ValidAt(booking[a].cert, now)
            /\ SameCargo(a) /\ SamePapers(a) /\ booking'[a].released = now
        BY <2>2, <3>1, ReleaseEffect DEF CustomsRelease, Moves
      <4>2. QED
        BY <4>1 DEF ReleasedOf, ValidAt, SameCargo, SamePapers
    <3>2. QED
      BY <1>3, <2>2, <3>1, ReleaseEffect DEF Moves, Only
  <2>3. CASE Moves(b, "customs_released", "confirmed") \/ Moves(b, StateOf(b), StateOf(b))
    BY <1>2, <1>3, <2>3 DEF Moves, Only
  <2>4. CASE \E bill \in Bills : BindBill(b, bill)
    BY <1>2, <1>3, <2>4, BillEffect DEF Only
  <2>5. CASE Requeue(b)
    BY <1>3, <1>4, <2>5, RequeueEffect DEF Only
  <2>6. CASE \/ Moves(b, "docs_submitted", "storage_verified")
             \/ Moves(b, "storage_verified", "space_allocated")
    BY <1>3, <1>4, <2>6 DEF Moves, Only
  <2>7. QED
    BY <1>10, <2>1, <2>2, <2>3, <2>4, <2>5, <2>6 DEF Advance
<1>11. QED
  BY <1>5, <1>6, <1>7, <1>8, <1>9, <1>10, StepCases

\* What has left customs, and what is confirmed, was inspected between the issue and
\* the expiry of the certificate it carries: for any certificates, any number of
\* passes and however much time lies between documents, inspection and confirmation.
THEOREM ReleasedUnderCertificate == Spec => []ReleasedUnderValidCertificate
<1>1. Init => ReleasedUnderValidCertificate
  BY DEF Init, NoBooking, ReleasedUnderValidCertificate, IsDangerous
<1>2. QED
  BY <1>1, ReleasedStep, TypeInit, TypeStep, PTL DEF Spec

------------------------------------------------------------------------------
(* Containers and bills of lading. *)

Same(a, c) ==
  \/ booking[a].container = booking[c].container
  \/ booking[a].bill = booking[c].bill /\ booking[a].bill # None

\* One conjunct of OnlyRequeueShares.
ShareOf(a, c) ==
  Active(a) /\ Active(c) /\ Same(a, c) => booking[a].requeues + booking[c].requeues > 0

\* What a booking has to keep for others not to share more with it than before.
Keeps(a) ==
  /\ booking'[a].container = booking[a].container
  /\ booking'[a].bill = booking[a].bill
  /\ booking'[a].requeues = booking[a].requeues
  /\ Active(a)' => Active(a)

\* Two bookings that keep their container, their bill and their turns share no more
\* than before.
LEMMA ShareFrame ==
  ASSUME NEW a \in Bookings, NEW c \in Bookings, ShareOf(a, c), Keeps(a), Keeps(c)
  PROVE  ShareOf(a, c)'
  BY DEF ShareOf, Same, Keeps

\* Two bookings share something or do not, whichever is named first.
LEMMA ShareSymmetric ==
  ASSUME TypeInv, NEW a \in Bookings, NEW c \in Bookings, ShareOf(a, c)
  PROVE  ShareOf(c, a)
<1>1. booking[a].requeues \in Nat /\ booking[c].requeues \in Nat
  BY DEF TypeInv, TypeOK, BookingRecord
<1>2. QED
  BY <1>1 DEF ShareOf, Same

\* Apart from Create, BindBill and Requeue of a booking, every step keeps it.
LEMMA MovesKeeps ==
  ASSUME TypeInv, NEW b \in Bookings, NEW from, NEW to, Moves(b, from, to),
         from \in States \ {"cancelled", "confirmed", "pending_review"} \/ from = to,
         NEW a \in Bookings
  PROVE  Keeps(a)
<1>1. CASE a = b
  BY <1>1 DEF Moves, Keeps, SameCargo, SameBill, Active, IsActive, StateOf
<1>2. CASE a # b
  BY <1>2 DEF Moves, Only, Keeps, Active, StateOf
<1>3. QED
  BY <1>1, <1>2

\* A rollback keeps them for every booking.
LEMMA RollbackKeeps ==
  ASSUME TypeInv, NEW b \in Bookings, NEW target, RollsBack(b, target), NEW a \in Bookings
  PROVE  Keeps(a)
<1>1. CASE a = b
  <2>1. SameCargo(b) /\ SameBill(b) /\ booking'[b].state = target
    BY RollbackBookings
  <2>2. target \in {"cancelled", "pending_review"}
    BY DEF RollsBack
  <2>3. QED
    BY <1>1, <2>1, <2>2 DEF Keeps, SameCargo, SameBill, Active, IsActive, StateOf
<1>2. CASE booking'[a] = booking[a]
  BY <1>2 DEF Keeps, Active, StateOf
<1>3. CASE /\ StateOf(a) = "waitlisted" /\ booking'[a].state = "space_allocated"
           /\ SameCargo(a) /\ SameBill(a)
  BY <1>3 DEF Keeps, SameCargo, SameBill, Active, IsActive, States, validTransitions, StateOf
<1>4. QED
  BY <1>1, <1>2, <1>3, RollbackBookings

\* A step that changes one booking only needs a look at the pairs it is in.
LEMMA ShareByOne ==
  ASSUME TypeInv, OnlyRequeueShares, TypeInv', NEW b \in Bookings, Only(b),
         \A o \in Bookings \ {b} : ShareOf(b, o)'
  PROVE  OnlyRequeueShares'
<1> SUFFICES ASSUME NEW a \in Bookings, NEW c \in Bookings, a # c
             PROVE  ShareOf(a, c)'
  BY DEF OnlyRequeueShares, ShareOf, Same
<1>1. CASE a = b
  BY <1>1
<1>2. CASE c = b
  <2>1. ShareOf(c, a)'
    BY <1>2
  <2>2. /\ booking'[a].requeues \in Nat /\ booking'[c].requeues \in Nat
    BY DEF TypeInv, TypeOK, BookingRecord
  <2>3. QED
    BY <2>1, <2>2 DEF ShareOf, Same
<1>3. CASE a # b /\ c # b
  <2>1. ShareOf(a, c)
    BY DEF OnlyRequeueShares, ShareOf, Same
  <2>2. booking'[a] = booking[a] /\ booking'[c] = booking[c]
    BY <1>3 DEF Only
  <2>3. QED
    BY <2>1, <2>2 DEF ShareOf, Same, Active, StateOf
<1>4. QED
  BY <1>1, <1>2, <1>3

\* Every step keeps containers and bills apart, unless a booking was requeued.
LEMMA ShareStep ==
  TypeInv /\ TypeInv' /\ OnlyRequeueShares /\ [Next]_vars => OnlyRequeueShares'
<1> SUFFICES ASSUME TypeInv, TypeInv', OnlyRequeueShares, [Next]_vars
             PROVE  OnlyRequeueShares'
  OBVIOUS
<1>1. \A a, c \in Bookings : a # c => ShareOf(a, c)
  BY DEF OnlyRequeueShares, ShareOf, Same
<1>2. ASSUME \A a \in Bookings : Keeps(a)
      PROVE  OnlyRequeueShares'
  <2>1. \A a, c \in Bookings : a # c => ShareOf(a, c)'
    BY <1>1, <1>2, ShareFrame
  <2>2. QED
    BY <2>1 DEF OnlyRequeueShares, ShareOf, Same
<1>3. CASE Surroundings
  BY <1>2, <1>3 DEF Surroundings, Keeps, Active, StateOf
<1>4. ASSUME NEW b \in Bookings, NEW req \in Requests, Create(b, req)
      PROVE  OnlyRequeueShares'
  <2>1. ASSUME NEW o \in Bookings \ {b}
        PROVE  ShareOf(b, o)'
    <3>1. booking'[o] = booking[o]
      BY <1>4, CreateEffect DEF Only
    <3>2. Active(o) => booking[o].container # req.container
      BY <1>4 DEF Create, ContainerFree
    <3>3. booking'[b].container = req.container /\ booking'[b].bill = None
      BY <1>4, CreateEffect
    <3>4. QED
      BY <3>1, <3>2, <3>3 DEF ShareOf, Same, Active, StateOf
  <2>2. Only(b)
    BY <1>4, CreateEffect
  <2>3. QED
    BY <2>1, <2>2, ShareByOne
<1>5. ASSUME NEW b \in Bookings, NEW bill \in Bills, BindBill(b, bill)
      PROVE  OnlyRequeueShares'
  <2>1. ASSUME NEW o \in Bookings \ {b}
        PROVE  ShareOf(b, o)'
    <3>1. booking'[o] = booking[o]
      BY <1>5, BillEffect DEF Only
    <3>2. Active(o) => booking[o].bill # bill
      BY <1>5 DEF BindBill
    <3>3. /\ booking'[b].state = booking[b].state /\ booking'[b].bill = bill
          /\ booking'[b].container = booking[b].container
          /\ booking'[b].requeues = booking[b].requeues
      BY <1>5, BillEffect DEF SameCargo, StateOf
    <3>4. QED
      BY <1>1, <3>1, <3>2, <3>3 DEF ShareOf, Same, Active, StateOf
  <2>2. Only(b)
    BY <1>5, BillEffect
  <2>3. QED
    BY <2>1, <2>2, ShareByOne
<1>6. ASSUME NEW b \in Bookings, Requeue(b)
      PROVE  OnlyRequeueShares'
  <2>1. ASSUME NEW o \in Bookings \ {b}
        PROVE  ShareOf(b, o)'
    <3>1. /\ booking'[b].requeues = booking[b].requeues + 1
          /\ booking[b].requeues \in Nat /\ booking'[o].requeues \in Nat
      BY <1>6, RequeueEffect DEF TypeInv, TypeOK, BookingRecord
    <3>2. QED
      BY <3>1 DEF ShareOf
  <2>2. Only(b)
    BY <1>6, RequeueEffect
  <2>3. QED
    BY <2>1, <2>2, ShareByOne
<1>7. ASSUME NEW b \in Bookings, NEW s \in Locations, VerifyDangerous(b, s)
      PROVE  OnlyRequeueShares'
  BY <1>2, <1>7, VerifyEffect
  DEF Keeps, Only, SameCargo, SameBill, Active, IsActive, States, validTransitions, StateOf
<1>8. ASSUME NEW b \in Bookings, NEW key \in DepositKeys \cup {None},
             PayAndWin(b, key) \/ PayAndLose(b, key)
      PROVE  OnlyRequeueShares'
  BY <1>2, <1>8, WinEffect, LoseEffect, MovesKeeps DEF States, validTransitions
<1>9. ASSUME NEW b \in Bookings, NEW target, RollsBack(b, target)
      PROVE  OnlyRequeueShares'
  BY <1>2, <1>9, RollbackKeeps
<1>10. ASSUME NEW b \in Bookings, NEW cert \in Certificates \cup {None}, SubmitDocuments(b, cert)
       PROVE  OnlyRequeueShares'
  BY <1>2, <1>10, SubmitEffect
  DEF Keeps, Only, SameCargo, SameBill, Active, IsActive, States, validTransitions, StateOf
<1>11. ASSUME NEW b \in Bookings, Advance(b)
       PROVE  OnlyRequeueShares'
  <2>1. CASE \/ Moves(b, "docs_submitted", "storage_verified")
             \/ Moves(b, "storage_verified", "space_allocated")
             \/ Moves(b, "deposit_paid", "customs_released")
             \/ Moves(b, "customs_released", "confirmed")
             \/ Moves(b, StateOf(b), StateOf(b))
    BY <1>2, <2>1, MovesKeeps DEF States, validTransitions
  <2>2. QED
    BY <1>5, <1>6, <1>10, <1>11, <2>1 DEF Advance
<1>12. QED
  BY <1>3, <1>4, <1>7, <1>8, <1>9, <1>11, StepCases

\* Two active bookings have different containers and different bills of lading
\* unless one of them came back from a customs rejection.
THEOREM OnlyRequeuedShare == Spec => []OnlyRequeueShares
<1>1. Init => OnlyRequeueShares
  BY DEF Init, NoBooking, OnlyRequeueShares, Active, IsActive, States, validTransitions, StateOf
<1>2. QED
  BY <1>1, ShareStep, TypeInit, TypeStep, PTL DEF Spec

------------------------------------------------------------------------------
(* What no call may do. *)

\* The calls that change a voyage.
LEMMA VoyageCases ==
  ASSUME TypeInv, [Next]_vars
  PROVE  \/ voyage' = voyage
         \/ \E v \in Voyages, req \in VoyageRequests : CreateVoyage(v, req)
         \/ \E b \in Bookings :
              \/ AllocateSpace(b)
              \/ \E key \in DepositKeys \cup {None} : PayAndWin(b, key) \/ PayAndLose(b, key)
              \/ \E target : RollsBack(b, target)
<1>1. CASE Tick \/ UNCHANGED vars
  BY <1>1 DEF Tick, vars
<1>2. CASE \/ \E s \in Locations, c \in StorageCapacities : CreateStorage(s, c)
           \/ \E b \in Bookings :
                \/ \E req \in Requests : Create(b, req)
                \/ \E cert \in Certificates \cup {None} : SubmitDocuments(b, cert)
                \/ VerifyGeneral(b)
                \/ \E s \in Locations : VerifyDangerous(b, s)
                \/ CustomsRelease(b)
                \/ \E bill \in Bills : BindBill(b, bill)
                \/ Confirm(b)
                \/ \E port \in Ports : ChangePort(b, port)
                \/ Requeue(b)
  BY <1>2 DEF CreateStorage, Create, SubmitDocuments, VerifyGeneral, VerifyDangerous,
              CustomsRelease, BindBill, Confirm, ChangePort, Requeue
<1>3. CASE \E b \in Bookings : \/ Cancel(b) \/ CustomsReject(b)
                               \/ CancelExpiredHold(b) \/ CancelForCutoffNonCompliance(b)
  BY <1>3, RollbackCalls
<1>4. QED
  BY <1>1, <1>2, <1>3 DEF Next, ApiStep

\* The space of a confirmed booking stays as it is.
LEMMA ConfirmedKeepsSpace ==
  ASSUME SpaceInv, [Next]_vars, NEW a \in Bookings, StateOf(a) = "confirmed", NEW v \in Voyages
  PROVE  voyage'[v].confirmed[a] = voyage[v].confirmed[a]
<1>1. TypeInv /\ voyage[v] \in VoyageRecord /\ voyage \in [Voyages -> VoyageRecord]
  BY DEF SpaceInv, TypeInv, TypeOK
<1>2. ASSUME NEW u \in Voyages, NEW req \in VoyageRequests, CreateVoyage(u, req)
      PROVE  voyage'[v].confirmed[a] = voyage[v].confirmed[a]
  <2>1. CASE u = v
    <3>1. voyage'[v].confirmed[a] = NoSlot
      BY <1>1, <1>2, <2>1 DEF CreateVoyage, NewVoyage
    <3>2. VoyageExists(VoyageOf(a))
      BY DEF SpaceInv, Sails, Exists, StateOf
    <3>3. VoyageOf(a) # v
      BY <1>2, <2>1, <3>2 DEF CreateVoyage
    <3>4. voyage[v].confirmed[a] = NoSlot
      BY <3>3 DEF SpaceInv, SpaceFollowsState
    <3>5. QED
      BY <3>1, <3>4
  <2>2. CASE u # v
    BY <1>1, <1>2, <2>2 DEF CreateVoyage
  <2>3. QED
    BY <2>1, <2>2
<1>3. ASSUME NEW b \in Bookings, AllocateSpace(b)
      PROVE  voyage'[v].confirmed[a] = voyage[v].confirmed[a]
  BY <1>1, <1>3 DEF AllocateSpace, MayAllocate, AllocateHolds, VoyageRecord
<1>4. ASSUME NEW b \in Bookings, NEW key \in DepositKeys \cup {None},
             PayAndWin(b, key) \/ PayAndLose(b, key)
      PROVE  voyage'[v].confirmed[a] = voyage[v].confirmed[a]
  <2>1. a # b
    BY <1>4 DEF PayAndWin, PayAndLose, MayPay
  <2>2. CASE PayAndWin(b, key)
    BY <1>1, <2>1, <2>2 DEF PayAndWin, ConfirmSpace, VoyageRecord
  <2>3. CASE PayAndLose(b, key)
    BY <1>1, <2>1, <2>3 DEF PayAndLose, AddToWaitlist, ReleaseSpace, VoyageRecord
  <2>4. QED
    BY <1>4, <2>2, <2>3
<1>5. ASSUME NEW b \in Bookings, NEW target, RollsBack(b, target)
      PROVE  voyage'[v].confirmed[a] = voyage[v].confirmed[a]
  <2> DEFINE u == VoyageOf(b)
  <2>1. a # b /\ Exists(b) /\ RollbackTo(b, target)
    BY <1>5 DEF RollsBack, Exists, StateOf
  <2>2. u \in Voyages
    BY <1>1, <2>1 DEF TypeInv, Placed
  <2>3. PICK n \in 0..Len(voyage[u].waitlist) : RolledBack(b, target, u, n)
    BY <1>1, <2>1, <2>2, RollbackEffect
  <2>4. CASE u = v
    <3>1. n \in Nat /\ voyage'[v] = PromoteWaitlist(ReleaseSpace(voyage[v], b), n)
      BY <1>1, <2>3, <2>4 DEF RolledBack, VoyageRecord
    <3>2. QED
      BY <1>1, <2>1, <3>1, PromoteFields
  <2>5. CASE u # v
    BY <1>1, <2>1, <2>2, <2>5, RollbackEffect
  <2>6. QED
    BY <2>4, <2>5
<1>6. QED
  BY <1>1, <1>2, <1>3, <1>4, <1>5, VoyageCases

\* "confirmed is terminal": no call and no scheduler pass takes the space, the
\* storage slot, the deposit or the state of a confirmed booking away.
THEOREM ConfirmedBookingsAreFinal == Spec => ConfirmedIsFinal
<1> DEFINE Kept(b) ==
      /\ booking'[b].state = "confirmed"
      /\ booking'[b].locked = booking[b].locked
      /\ deposit'[b] = deposit[b]
<1>1. ASSUME TypeInv, [Next]_vars, NEW a \in Bookings, StateOf(a) = "confirmed"
      PROVE  Kept(a)
  <2>1. CASE Surroundings
    BY <1>1, <2>1 DEF Surroundings, StateOf
  <2>2. ASSUME booking'[a] = booking[a], deposit'[a] = deposit[a]
        PROVE  Kept(a)
    BY <1>1, <2>2 DEF StateOf
  <2>3. ASSUME NEW b \in Bookings, NEW req \in Requests, Create(b, req)
        PROVE  Kept(a)
    BY <1>1, <2>2, <2>3, CreateEffect DEF Create, Only
  <2>4. ASSUME NEW b \in Bookings, NEW s \in Locations, VerifyDangerous(b, s)
        PROVE  Kept(a)
    BY <1>1, <2>2, <2>4, VerifyEffect DEF VerifyDangerous, Only
  <2>5. ASSUME NEW b \in Bookings, NEW key \in DepositKeys \cup {None},
               PayAndWin(b, key) \/ PayAndLose(b, key)
        PROVE  Kept(a)
    <3>1. StateOf(b) = "space_allocated" /\ Only(b)
          /\ (\A c \in Bookings \ {b} : deposit'[c] = deposit[c])
      BY <1>1, <2>5, WinEffect, LoseEffect DEF Moves
    <3>2. QED
      BY <1>1, <2>2, <3>1 DEF Only
  <2>6. ASSUME NEW b \in Bookings, NEW target, RollsBack(b, target)
        PROVE  Kept(a)
    <3>1. a # b
      BY <1>1, <2>6 DEF RollsBack
    <3>2. deposit'[a] = deposit[a]
      BY <1>1, <2>6, <3>1, RollbackLedgers
    <3>3. \/ booking'[a] = booking[a]
          \/ StateOf(a) = "waitlisted"
      BY <1>1, <2>6, <3>1, RollbackBookings
    <3>4. QED
      BY <1>1, <2>2, <3>2, <3>3
  <2>7. ASSUME NEW b \in Bookings, Advance(b)
        PROVE  Kept(a)
    <3>1. deposit' = deposit
      BY <2>7 DEF Advance
    <3>2. CASE a # b
      <4>1. Only(b)
        BY <1>1, <2>7, SubmitEffect, BillEffect, RequeueEffect DEF Advance, Moves
      <4>2. QED
        BY <2>2, <3>1, <3>2, <4>1 DEF Only
    <3>3. CASE a = b
      <4>1. \/ \E bill \in Bills : BindBill(b, bill)
            \/ Moves(b, StateOf(b), StateOf(b))
        BY <1>1, <2>7, <3>3, SubmitEffect, RequeueEffect DEF Advance, Moves
      <4>2. booking'[b].state = StateOf(b) /\ SameSlot(b)
        BY <1>1, <4>1, BillEffect DEF Moves
      <4>3. QED
        BY <1>1, <3>1, <3>3, <4>2 DEF SameSlot
    <3>4. QED
      BY <3>2, <3>3
  <2>8. QED
    BY <1>1, <2>1, <2>3, <2>4, <2>5, <2>6, <2>7, StepCases
<1>2. SpaceInv /\ [Next]_vars =>
        [\A b \in Bookings : StateOf(b) = "confirmed" =>
           /\ booking'[b].state = "confirmed"
           /\ booking'[b].locked = booking[b].locked
           /\ deposit'[b] = deposit[b]
           /\ \A v \in Voyages : voyage'[v].confirmed[b] = voyage[v].confirmed[b]]_vars
  BY <1>1, ConfirmedKeepsSpace DEF SpaceInv
<1>3. QED
  BY <1>2, SpaceInit, SpaceStep, PTL DEF Spec, ConfirmedIsFinal

\* One conjunct of OthersOnlyPromoted.
OnlyPromoted(o) ==
  /\ deposit'[o] = deposit[o]
  /\ \A s \in Locations : /\ o \in storage'[s].reserved <=> o \in storage[s].reserved
                          /\ o \in storage'[s].confirmed <=> o \in storage[s].confirmed
  /\ \/ booking'[o] = booking[o]
     \/ /\ Waiting(o)
        /\ booking'[o] = [booking[o] EXCEPT !.state = "space_allocated"]

\* A booking that a step leaves alone.
LEMMA UntouchedIsFine ==
  ASSUME NEW o \in Bookings, booking'[o] = booking[o], deposit'[o] = deposit[o],
         \A s \in Locations : \/ storage'[s] = storage[s]
                              \/ /\ storage[s].reserved = {} /\ storage[s].confirmed = {}
                                 /\ storage'[s].reserved = {} /\ storage'[s].confirmed = {}
  PROVE  OnlyPromoted(o)
  BY DEF OnlyPromoted

\* The booking a call is about, if there is one.
LEMMA OthersStep ==
  ASSUME TypeInv, StorageCapacityRespected, [Next]_vars, Bookings # {}
  PROVE  \E b \in Bookings : \A o \in Bookings \ {b} : OnlyPromoted(o)
<1> DEFINE Goal == \E b \in Bookings : \A o \in Bookings \ {b} : OnlyPromoted(o)
<1>1. \A s \in Locations : storage[s] \in SL!StorageRecord
  BY DEF TypeInv, TypeOK
<1>2. CASE Surroundings
  <2>1. ASSUME NEW t \in Locations, NEW c \in StorageCapacities, CreateStorage(t, c),
               NEW s \in Locations
        PROVE  \/ storage'[s] = storage[s]
               \/ /\ storage[s].reserved = {} /\ storage[s].confirmed = {}
                  /\ storage'[s].reserved = {} /\ storage'[s].confirmed = {}
    <3>1. CASE s = t
      <4>1. storage'[s].reserved = {} /\ storage'[s].confirmed = {}
        BY <2>1, <3>1 DEF CreateStorage, SL!NewStorage, TypeInv, TypeOK
      <4>2. storage[s].reserved = {} /\ storage[s].confirmed = {}
        BY <2>1, <3>1, NoSlotsYet DEF CreateStorage
      <4>3. QED
        BY <4>1, <4>2
    <3>2. CASE s # t
      BY <2>1, <3>2 DEF CreateStorage, TypeInv, TypeOK
    <3>3. QED
      BY <3>1, <3>2
  <2>2. ASSUME NEW o \in Bookings
        PROVE  OnlyPromoted(o)
    <3>1. booking'[o] = booking[o] /\ deposit'[o] = deposit[o]
      BY <1>2 DEF Surroundings
    <3>2. \A s \in Locations :
            \/ storage'[s] = storage[s]
            \/ /\ storage[s].reserved = {} /\ storage[s].confirmed = {}
               /\ storage'[s].reserved = {} /\ storage'[s].confirmed = {}
      BY <1>2, <2>1 DEF Surroundings
    <3>3. QED
      BY <3>1, <3>2, UntouchedIsFine
  <2>3. QED
    BY <2>2
<1>3. ASSUME NEW b \in Bookings, Only(b), storage' = storage,
             \A o \in Bookings \ {b} : deposit'[o] = deposit[o]
      PROVE  Goal
  <2>1. ASSUME NEW o \in Bookings \ {b}
        PROVE  OnlyPromoted(o)
    BY <1>3, UntouchedIsFine DEF Only
  <2>2. QED
    BY <2>1
<1>4. ASSUME NEW b \in Bookings, NEW req \in Requests, Create(b, req)
      PROVE  Goal
  <2>1. Only(b) /\ storage' = storage /\ deposit' = deposit
    BY <1>4, CreateEffect DEF Create
  <2>2. QED
    BY <1>3, <2>1
<1>5. ASSUME NEW b \in Bookings, NEW t \in Locations, VerifyDangerous(b, t)
      PROVE  Goal
  <2>1. ASSUME NEW o \in Bookings \ {b}
        PROVE  OnlyPromoted(o)
    <3>1. booking'[o] = booking[o] /\ deposit' = deposit
      BY <1>5, VerifyEffect DEF Only, VerifyDangerous
    <3>2. ASSUME NEW s \in Locations
          PROVE  /\ o \in storage'[s].reserved <=> o \in storage[s].reserved
                 /\ o \in storage'[s].confirmed <=> o \in storage[s].confirmed
      <4>1. storage'[s] = storage[s] \/ storage'[s] = SL!Reserve(storage[s], b)
        BY <1>5, VerifyEffect
      <4>2. QED
        BY <1>1, <4>1, OthersKeepSlot
    <3>3. QED
      BY <3>1, <3>2 DEF OnlyPromoted
  <2>2. QED
    BY <2>1
<1>6. ASSUME NEW b \in Bookings, NEW key \in DepositKeys \cup {None}, PayAndWin(b, key)
      PROVE  Goal
  <2>1. ASSUME NEW o \in Bookings \ {b}
        PROVE  OnlyPromoted(o)
    <3>1. booking'[o] = booking[o] /\ deposit'[o] = deposit[o]
      BY <1>6, WinEffect DEF Moves, Only
    <3>2. ASSUME NEW s \in Locations
          PROVE  /\ o \in storage'[s].reserved <=> o \in storage[s].reserved
                 /\ o \in storage'[s].confirmed <=> o \in storage[s].confirmed
      <4>1. storage'[s] = storage[s] \/ storage'[s] = SL!Confirm(storage[s], b)
        BY <1>6, WinEffect
      <4>2. QED
        BY <1>1, <4>1, OthersKeepSlot
    <3>3. QED
      BY <3>1, <3>2 DEF OnlyPromoted
  <2>2. QED
    BY <2>1
<1>7. ASSUME NEW b \in Bookings, NEW key \in DepositKeys \cup {None}, PayAndLose(b, key)
      PROVE  Goal
  BY <1>3, <1>7, LoseEffect DEF Moves
<1>8. ASSUME NEW b \in Bookings, NEW target, RollsBack(b, target)
      PROVE  Goal
  <2>1. ASSUME NEW o \in Bookings \ {b}
        PROVE  OnlyPromoted(o)
    <3>1. deposit'[o] = deposit[o]
      BY <1>8, RollbackLedgers
    <3>2. ASSUME NEW s \in Locations
          PROVE  /\ o \in storage'[s].reserved <=> o \in storage[s].reserved
                 /\ o \in storage'[s].confirmed <=> o \in storage[s].confirmed
      <4>1. storage'[s] = storage[s] \/ storage'[s] = SL!Release(storage[s], b)
        BY <1>8, RollbackLedgers
      <4>2. QED
        BY <1>1, <4>1, OthersKeepSlot
    <3>3. \/ booking'[o] = booking[o]
          \/ /\ Waiting(o)
             /\ booking'[o] = [booking[o] EXCEPT !.state = "space_allocated"]
      BY <1>8, RollbackBookings DEF Waiting
    <3>4. QED
      BY <3>1, <3>2, <3>3 DEF OnlyPromoted
  <2>2. QED
    BY <2>1
<1>9. ASSUME NEW b \in Bookings, Advance(b)
      PROVE  Goal
  <2>1. storage' = storage /\ deposit' = deposit
    BY <1>9 DEF Advance
  <2>2. Only(b)
    BY <1>9, SubmitEffect, BillEffect, RequeueEffect DEF Advance, Moves
  <2>3. QED
    BY <1>3, <2>1, <2>2
<1>10. QED
  BY <1>2, <1>4, <1>5, <1>6, <1>7, <1>8, <1>9, StepCases

\* A call about one booking changes the others only by promoting them: it moves
\* no other state, document, storage slot or deposit.  Where there is no booking
\* at all the property asks for one, hence the condition.
THEOREM OthersAreOnlyPromoted == Bookings # {} => (Spec => OthersOnlyPromoted)
<1> SUFFICES ASSUME Bookings # {} PROVE Spec => OthersOnlyPromoted
  OBVIOUS
<1>1. TypeInv /\ StorageCapacityRespected /\ [Next]_vars =>
        [\E b \in Bookings : \A o \in Bookings \ {b} :
           /\ deposit'[o] = deposit[o]
           /\ \A s \in Locations : /\ o \in storage'[s].reserved <=> o \in storage[s].reserved
                                   /\ o \in storage'[s].confirmed <=> o \in storage[s].confirmed
           /\ \/ booking'[o] = booking[o]
              \/ /\ Waiting(o)
                 /\ booking'[o] = [booking[o] EXCEPT !.state = "space_allocated"]]_vars
  BY OthersStep DEF OnlyPromoted
<1>2. Spec => []TypeInv
  BY TypeInit, TypeStep, PTL DEF Spec
<1>3. QED
  BY <1>1, <1>2, StorageIsNotOverbooked, PTL DEF Spec, OthersOnlyPromoted

------------------------------------------------------------------------------
(* What a booking goes through. *)

\* One conjunct of TransitionsAreLegal.
Turns(from, to) ==
  from # to => \/ <<from, to>> \in Combined
               \/ from \in States /\ to \in validTransitions[from]

\* The edges that the calls take.
LEMMA CallsTurn ==
  /\ Turns("absent", "initiated")
  /\ Turns("initiated", "docs_submitted")
  /\ Turns("docs_submitted", "storage_verified")
  /\ Turns("storage_verified", "space_allocated")
  /\ Turns("space_allocated", "deposit_paid")
  /\ Turns("space_allocated", "waitlisted")
  /\ Turns("waitlisted", "space_allocated")
  /\ Turns("deposit_paid", "customs_released")
  /\ Turns("customs_released", "confirmed")
  /\ Turns("pending_review", "initiated")
  /\ Turns("pending_review", "docs_submitted")
  /\ Turns("deposit_paid", "pending_review")
  /\ Turns("customs_released", "pending_review")
  /\ \A from \in States \ {"cancelled", "rejected", "confirmed"} : Turns(from, "cancelled")
  /\ \A from : Turns(from, from)
  BY DEF Turns, Combined, States, validTransitions

\* Every step takes each booking along one of them or leaves it where it is.
LEMMA TurnsStep ==
  ASSUME TypeInv, [Next]_vars, NEW a \in Bookings
  PROVE  Turns(StateOf(a), booking'[a].state)
<1>1. StateOf(a) \in States \cup {"absent"}
  BY DEF TypeInv, TypeOK, BookingRecord, StateOf
<1>2. CASE booking'[a].state = StateOf(a)
  BY <1>2, CallsTurn
<1>3. ASSUME NEW b \in Bookings, Only(b), Turns(StateOf(b), booking'[b].state)
      PROVE  Turns(StateOf(a), booking'[a].state)
  BY <1>2, <1>3 DEF Only, StateOf
<1>4. CASE Surroundings
  BY <1>2, <1>4 DEF Surroundings, StateOf
<1>5. ASSUME NEW b \in Bookings, NEW req \in Requests, Create(b, req)
      PROVE  Turns(StateOf(a), booking'[a].state)
  BY <1>3, <1>5, CreateEffect, CallsTurn
<1>6. ASSUME NEW b \in Bookings, NEW s \in Locations, VerifyDangerous(b, s)
      PROVE  Turns(StateOf(a), booking'[a].state)
  BY <1>3, <1>6, VerifyEffect, CallsTurn
<1>7. ASSUME NEW b \in Bookings, NEW key \in DepositKeys \cup {None},
             PayAndWin(b, key) \/ PayAndLose(b, key)
      PROVE  Turns(StateOf(a), booking'[a].state)
  <2>1. \/ Moves(b, "space_allocated", "deposit_paid")
        \/ Moves(b, "space_allocated", "waitlisted")
    BY <1>7, WinEffect, LoseEffect
  <2>2. QED
    BY <1>3, <2>1, CallsTurn DEF Moves
<1>8. ASSUME NEW b \in Bookings, NEW target, RollsBack(b, target)
      PROVE  Turns(StateOf(a), booking'[a].state)
  <2>1. CASE a = b
    <3>1. booking'[a].state = target
      BY <1>8, <2>1, RollbackBookings
    <3>2. CASE target = "cancelled"
      BY <1>1, <1>8, <2>1, <3>1, <3>2, CallsTurn DEF RollsBack
    <3>3. CASE target = "pending_review" /\ Paid(b)
      <4>1. StateOf(a) \in {"deposit_paid", "customs_released"}
        BY <1>8, <2>1, <3>3 DEF RollsBack, Paid
      <4>2. QED
        BY <3>1, <3>3, <4>1, CallsTurn
    <3>4. QED
      BY <1>8, <3>2, <3>3 DEF RollsBack
  <2>2. CASE a # b
    <3>1. \/ booking'[a] = booking[a]
          \/ StateOf(a) = "waitlisted" /\ booking'[a].state = "space_allocated"
      BY <1>8, <2>2, RollbackBookings
    <3>2. QED
      BY <1>2, <3>1, CallsTurn DEF StateOf
  <2>3. QED
    BY <2>1, <2>2
<1>9. ASSUME NEW b \in Bookings, Advance(b)
      PROVE  Turns(StateOf(a), booking'[a].state)
  <2>1. CASE \E cert \in Certificates \cup {None} : SubmitDocuments(b, cert)
    BY <1>3, <2>1, SubmitEffect, CallsTurn
  <2>2. CASE \E bill \in Bills : BindBill(b, bill)
    BY <1>3, <2>2, BillEffect, CallsTurn
  <2>3. CASE Requeue(b)
    BY <1>3, <2>3, RequeueEffect, CallsTurn
  <2>4. CASE \/ Moves(b, "docs_submitted", "storage_verified")
             \/ Moves(b, "storage_verified", "space_allocated")
             \/ Moves(b, "deposit_paid", "customs_released")
             \/ Moves(b, "customs_released", "confirmed")
             \/ Moves(b, StateOf(b), StateOf(b))
    BY <1>3, <2>4, CallsTurn DEF Moves
  <2>5. QED
    BY <1>9, <2>1, <2>2, <2>3, <2>4 DEF Advance
<1>10. QED
  BY <1>4, <1>5, <1>6, <1>7, <1>8, <1>9, StepCases

\* No call, no rollback of another booking and no scheduler pass moves a booking
\* other than along the state table, although most methods never consult it.
THEOREM EveryTransitionIsLegal == Spec => TransitionsAreLegal
<1>1. TypeInv /\ [Next]_vars =>
        [\A b \in Bookings :
           LET from == StateOf(b)
               to   == booking'[b].state
           IN from # to => \/ <<from, to>> \in Combined
                           \/ from \in States /\ to \in validTransitions[from]]_vars
  BY TurnsStep DEF Turns
<1>2. QED
  BY <1>1, TypeInit, TypeStep, PTL DEF Spec, TransitionsAreLegal

------------------------------------------------------------------------------
(* What stays on record. *)

\* A refund changes the status of one confirmed deposit and nothing else in the
\* ledger.
LEMMA RefundChangesOne ==
  ASSUME NEW ledger \in Seq(Deposit)
  PROVE  /\ DOMAIN RefundInTx(ledger) = DOMAIN ledger
         /\ \A i \in DOMAIN ledger : RefundInTx(ledger)[i].key = ledger[i].key
         /\ \A i \in DOMAIN ledger :
              \/ RefundInTx(ledger)[i] = ledger[i]
              \/ /\ ledger[i].status = "confirmed"
                 /\ RefundInTx(ledger)[i] = [ledger[i] EXCEPT !.status = "refunded"]
<1> DEFINE j == CHOOSE j \in ConfirmedDeposits(ledger) : TRUE
           d == [ledger[j] EXCEPT !.status = "refunded"]
<1>1. CASE ConfirmedDeposits(ledger) = {}
  BY <1>1 DEF RefundInTx
<1>2. CASE ConfirmedDeposits(ledger) # {}
  <2>1. j \in DOMAIN ledger /\ ledger[j].status = "confirmed"
    BY <1>2 DEF ConfirmedDeposits
  <2>2. ledger[j] \in Deposit
    BY <2>1, ElementOfSeq, LenProperties
  <2>3. d.key = ledger[j].key
    BY <2>2 DEF Deposit
  <2>4. RefundInTx(ledger) = [ledger EXCEPT ![j] = d]
    BY <1>2 DEF RefundInTx
  <2>5. d = [ledger[j] EXCEPT !.status = "refunded"]
    OBVIOUS
  <2> HIDE DEF j, d
  <2>6. QED
    BY <2>1, <2>3, <2>4, <2>5
<1>3. QED
  BY <1>1, <1>2

\* A new deposit goes to the end of the ledger.
LEMMA AddExtends ==
  ASSUME NEW ledger \in Seq(Deposit), NEW key, NEW status
  PROVE  LET longer == AddDeposit(ledger, key, status)
         IN /\ DOMAIN ledger = 1..Len(ledger)
            /\ DOMAIN longer = 1..(Len(ledger) + 1)
            /\ \A i \in DOMAIN ledger : longer[i] = ledger[i]
            /\ longer[Len(ledger) + 1] = [key |-> key, status |-> status]
            /\ Len(ledger) \in Nat
  BY LenProperties DEF AddDeposit

\* A booking whose ledger has a confirmed deposit is paid.
LEMMA ConfirmedIsPaid ==
  ASSUME DepositFollowsState, NEW b \in Bookings, ConfirmedDeposits(deposit[b]) # {}, TypeInv
  PROVE  Paid(b)
<1>1. IsFiniteSet(ConfirmedDeposits(deposit[b]))
  BY DepositsFinite DEF TypeInv, TypeOK
<1>2. Cardinality(ConfirmedDeposits(deposit[b])) # 0
  BY <1>1, FS_EmptySet
<1>3. QED
  BY <1>2 DEF DepositFollowsState

\* What a step does to one ledger.
LEMMA LedgerCases ==
  ASSUME TypeInv, [Next]_vars, NEW a \in Bookings
  PROVE  \/ deposit'[a] = deposit[a]
         \/ \E key \in DepositKeys \cup {None} :
              /\ NewDepositKey(key)
              /\ \A o \in Bookings \ {a} : deposit'[o] = deposit[o]
              /\ \/ deposit'[a] = AddDeposit(deposit[a], key, "confirmed") /\ Paid(a)'
                 \/ deposit'[a] = AddDeposit(deposit[a], key, "refunded") /\ ~Paid(a)'
         \/ deposit'[a] = RefundInTx(deposit[a]) /\ ~Paid(a)'
<1> DEFINE Goal ==
      \/ deposit'[a] = deposit[a]
      \/ \E key \in DepositKeys \cup {None} :
           /\ NewDepositKey(key)
           /\ \A o \in Bookings \ {a} : deposit'[o] = deposit[o]
           /\ \/ deposit'[a] = AddDeposit(deposit[a], key, "confirmed") /\ Paid(a)'
              \/ deposit'[a] = AddDeposit(deposit[a], key, "refunded") /\ ~Paid(a)'
      \/ deposit'[a] = RefundInTx(deposit[a]) /\ ~Paid(a)'
<1>1. ASSUME NEW b \in Bookings, NEW key \in DepositKeys \cup {None},
             PayAndWin(b, key) \/ PayAndLose(b, key)
      PROVE  Goal
  <2>1. CASE a # b
    BY <1>1, <2>1, WinEffect, LoseEffect
  <2>2. CASE a = b
    <3>1. NewDepositKey(key)
      BY <1>1 DEF PayAndWin, PayAndLose, MayPay
    <3>2. CASE PayAndWin(b, key)
      <4>1. Paid(a)'
        BY <2>2, <3>2, WinEffect DEF Moves, Paid, StateOf
      <4>2. QED
        BY <2>2, <3>1, <3>2, <4>1, WinEffect
    <3>3. CASE PayAndLose(b, key)
      <4>1. ~Paid(a)'
        BY <2>2, <3>3, LoseEffect DEF Moves, Paid, StateOf
      <4>2. QED
        BY <2>2, <3>1, <3>3, <4>1, LoseEffect
    <3>4. QED
      BY <1>1, <3>2, <3>3
  <2>3. QED
    BY <2>1, <2>2
<1>2. ASSUME NEW b \in Bookings, NEW target, RollsBack(b, target)
      PROVE  Goal
  <2>1. CASE a # b
    BY <1>2, <2>1, RollbackLedgers
  <2>2. CASE a = b
    <3>1. deposit'[a] = RefundInTx(deposit[a])
      BY <1>2, <2>2, RollbackLedgers
    <3>2. ~Paid(a)'
      BY <1>2, <2>2, RollbackBookings DEF RollsBack, Paid, StateOf
    <3>3. QED
      BY <3>1, <3>2
  <2>3. QED
    BY <2>1, <2>2
<1>3. CASE \/ Surroundings
           \/ \E b \in Bookings : \/ \E req \in Requests : Create(b, req)
                                  \/ \E s \in Locations : VerifyDangerous(b, s)
                                  \/ Advance(b)
  BY <1>3 DEF Surroundings, Create, VerifyDangerous, Advance
<1>4. QED
  BY <1>1, <1>2, <1>3, StepCases

\* One conjunct of DepositsArePermanent.
Recorded(b) ==
  /\ DOMAIN deposit[b] \subseteq DOMAIN deposit'[b]
  /\ \A i \in DOMAIN deposit[b] :
       \/ deposit'[b][i] = deposit[b][i]
       \/ /\ deposit[b][i].status = "confirmed"
          /\ deposit'[b][i] = [deposit[b][i] EXCEPT !.status = "refunded"]
          /\ Paid(b) /\ ~Paid(b)'
  /\ \A i \in DOMAIN deposit'[b] \ DOMAIN deposit[b] :
       deposit'[b][i].status = "confirmed" <=> Paid(b)'

\* Every step adds a deposit at the end, refunds the one that stands, or does neither.
LEMMA RecordedStep ==
  ASSUME TypeInv, DepositFollowsState, [Next]_vars, NEW a \in Bookings
  PROVE  Recorded(a)
<1>1. deposit[a] \in Seq(Deposit)
  BY DEF TypeInv, TypeOK
<1>2. CASE deposit'[a] = deposit[a]
  BY <1>2 DEF Recorded
<1>3. ASSUME NEW key, NEW status, deposit'[a] = AddDeposit(deposit[a], key, status),
             status = "confirmed" <=> Paid(a)'
      PROVE  Recorded(a)
  <2> DEFINE n == Len(deposit[a])
  <2>1. /\ DOMAIN deposit[a] = 1..n /\ n \in Nat
        /\ DOMAIN deposit'[a] = 1..(n + 1)
        /\ \A i \in DOMAIN deposit[a] : deposit'[a][i] = deposit[a][i]
        /\ deposit'[a][n + 1] = [key |-> key, status |-> status]
    BY <1>1, <1>3, AddExtends
  <2> HIDE DEF n
  <2>2. DOMAIN deposit[a] \subseteq DOMAIN deposit'[a]
    BY <2>1
  <2>3. \A i \in DOMAIN deposit'[a] \ DOMAIN deposit[a] : i = n + 1
    BY <2>1
  <2>4. deposit'[a][n + 1].status = "confirmed" <=> Paid(a)'
    BY <1>3, <2>1
  <2>5. QED
    BY <2>1, <2>2, <2>3, <2>4 DEF Recorded
<1>4. CASE deposit'[a] = RefundInTx(deposit[a]) /\ ~Paid(a)'
  <2>1. /\ DOMAIN deposit'[a] = DOMAIN deposit[a]
        /\ \A i \in DOMAIN deposit[a] :
             \/ deposit'[a][i] = deposit[a][i]
             \/ /\ deposit[a][i].status = "confirmed"
                /\ deposit'[a][i] = [deposit[a][i] EXCEPT !.status = "refunded"]
    BY <1>1, <1>4, RefundChangesOne
  <2>2. ASSUME NEW i \in DOMAIN deposit[a], deposit[a][i].status = "confirmed"
        PROVE  Paid(a)
    BY <2>2, ConfirmedIsPaid DEF ConfirmedDeposits
  <2>3. QED
    BY <1>4, <2>1, <2>2 DEF Recorded
<1>5. QED
  BY <1>2, <1>3, <1>4, LedgerCases

\* What a client was told about a deposit stays on record: none is lost or taken
\* twice, a confirmed one is refunded in the step that takes the space of its
\* booking and at no other time, and a refund is never undone.
THEOREM DepositsStayOnRecord == Spec => DepositsArePermanent
<1>1. TypeInv /\ DepositFollowsState /\ [Next]_vars =>
        [\A b \in Bookings :
           /\ DOMAIN deposit[b] \subseteq DOMAIN deposit'[b]
           /\ \A i \in DOMAIN deposit[b] :
                \/ deposit'[b][i] = deposit[b][i]
                \/ /\ deposit[b][i].status = "confirmed"
                   /\ deposit'[b][i] = [deposit[b][i] EXCEPT !.status = "refunded"]
                   /\ Paid(b) /\ ~Paid(b)'
           /\ \A i \in DOMAIN deposit'[b] \ DOMAIN deposit[b] :
                deposit'[b][i].status = "confirmed" <=> Paid(b)']_vars
  BY RecordedStep DEF Recorded
<1>2. Spec => []TypeInv
  BY TypeInit, TypeStep, PTL DEF Spec
<1>3. QED
  BY <1>1, <1>2, DepositsFollowBookings, PTL DEF Spec, DepositsArePermanent

\* A deposit after a step is one from before it, with its key, or the new last one
\* of the only ledger that changes, under a key nobody has used.
OldDeposit(a, i) == i \in DOMAIN deposit[a] /\ deposit'[a][i].key = deposit[a][i].key

LastDeposit(a, i) ==
  /\ i = Len(deposit[a]) + 1 /\ i \notin DOMAIN deposit[a]
  /\ NewDepositKey(deposit'[a][i].key)
  /\ \A o \in Bookings \ {a} : deposit'[o] = deposit[o]

LEMMA OldOrLast ==
  ASSUME TypeInv, [Next]_vars, NEW a \in Bookings, NEW i \in DOMAIN deposit'[a]
  PROVE  OldDeposit(a, i) \/ LastDeposit(a, i)
<1>1. deposit[a] \in Seq(Deposit)
  BY DEF TypeInv, TypeOK
<1>2. CASE deposit'[a] = deposit[a]
  BY <1>2 DEF OldDeposit
<1>3. ASSUME NEW key, NEW status, NewDepositKey(key),
             \A o \in Bookings \ {a} : deposit'[o] = deposit[o],
             deposit'[a] = AddDeposit(deposit[a], key, status)
      PROVE  OldDeposit(a, i) \/ LastDeposit(a, i)
  <2> DEFINE n == Len(deposit[a])
  <2>1. /\ DOMAIN deposit[a] = 1..n /\ n \in Nat
        /\ DOMAIN deposit'[a] = 1..(n + 1)
        /\ \A k \in DOMAIN deposit[a] : deposit'[a][k] = deposit[a][k]
        /\ deposit'[a][n + 1] = [key |-> key, status |-> status]
    BY <1>1, <1>3, AddExtends
  <2>2. CASE i \in DOMAIN deposit[a]
    BY <2>1, <2>2 DEF OldDeposit
  <2>3. CASE i \notin DOMAIN deposit[a]
    <3>1. i = n + 1
      BY <2>1, <2>3
    <3>2. deposit'[a][i].key = key
      BY <2>1, <3>1
    <3>3. QED
      BY <1>3, <2>3, <3>1, <3>2 DEF LastDeposit
  <2>4. QED
    BY <2>2, <2>3
<1>4. CASE deposit'[a] = RefundInTx(deposit[a])
  <2>1. DOMAIN deposit'[a] = DOMAIN deposit[a]
    BY <1>1, <1>4, RefundChangesOne
  <2>2. RefundInTx(deposit[a])[i].key = deposit[a][i].key
    BY <1>1, <2>1, RefundChangesOne
  <2>3. QED
    BY <1>4, <2>1, <2>2 DEF OldDeposit
<1>5. QED
  BY <1>2, <1>3, <1>4, LedgerCases

\* Only Create gives a booking a key.
LEMMA KeysStand ==
  ASSUME TypeInv, [Next]_vars, NEW a \in Bookings
  PROVE  \/ booking'[a].key = booking[a].key
         \/ \E req \in Requests : Create(a, req)
<1>1. ASSUME NEW b \in Bookings, Only(b), SameCargo(b)
      PROVE  booking'[a].key = booking[a].key
  BY <1>1 DEF Only, SameCargo
<1>2. CASE Surroundings
  BY <1>2 DEF Surroundings
<1>3. ASSUME NEW b \in Bookings, NEW req \in Requests, Create(b, req), a # b
      PROVE  booking'[a].key = booking[a].key
  BY <1>3, CreateEffect DEF Only
<1>4. ASSUME NEW b \in Bookings, NEW s \in Locations, VerifyDangerous(b, s)
      PROVE  booking'[a].key = booking[a].key
  BY <1>1, <1>4, VerifyEffect
<1>5. ASSUME NEW b \in Bookings, NEW key \in DepositKeys \cup {None},
             PayAndWin(b, key) \/ PayAndLose(b, key)
      PROVE  booking'[a].key = booking[a].key
  BY <1>1, <1>5, WinEffect, LoseEffect DEF Moves
<1>6. ASSUME NEW b \in Bookings, NEW target, RollsBack(b, target)
      PROVE  booking'[a].key = booking[a].key
  <2>1. SameCargo(a) \/ booking'[a] = booking[a]
    BY <1>6, RollbackBookings
  <2>2. QED
    BY <2>1 DEF SameCargo
<1>7. ASSUME NEW b \in Bookings, Advance(b)
      PROVE  booking'[a].key = booking[a].key
  BY <1>1, <1>7, SubmitEffect, BillEffect, RequeueEffect DEF Advance, Moves
<1>8. QED
  BY <1>2, <1>3, <1>4, <1>5, <1>6, <1>7, StepCases

\* A key is compared with every booking and every deposit there has ever been.
LEMMA KeysStep == TypeInv /\ KeysNameOne /\ [Next]_vars => KeysNameOne'
<1> SUFFICES ASSUME TypeInv, KeysNameOne, [Next]_vars PROVE KeysNameOne'
  OBVIOUS
<1>1. ASSUME NEW a \in Bookings, NEW b \in Bookings, a # b, booking'[a].key # None,
             booking'[a].key = booking'[b].key
      PROVE  FALSE
  <2>1. ASSUME NEW c \in Bookings, NEW o \in Bookings, o # c, NEW req \in Requests,
               Create(c, req), req.key # None
        PROVE  /\ booking'[c].key = req.key
               /\ booking'[o].key # req.key
    <3>1. NewBookingKey(req.key)
      BY <2>1 DEF Create
    <3>2. booking'[c].key = req.key /\ booking'[o] = booking[o]
      BY <2>1 DEF Create, NewBooking, TypeInv, TypeOK
    <3>3. QED
      BY <2>1, <3>1, <3>2 DEF NewBookingKey
  <2>2. ASSUME NEW c \in Bookings, NEW req \in Requests, Create(c, req)
        PROVE  booking'[c].key = req.key
    BY <2>2 DEF Create, NewBooking, TypeInv, TypeOK
  <2>3. booking'[a].key = booking[a].key /\ booking'[b].key = booking[b].key
    BY <1>1, <2>1, <2>2, KeysStand
  <2>4. QED
    BY <1>1, <2>3 DEF KeysNameOne
<1>2. ASSUME NEW a \in Bookings, NEW b \in Bookings,
             NEW i \in DOMAIN deposit'[a], NEW j \in DOMAIN deposit'[b],
             deposit'[a][i].key # None, deposit'[a][i].key = deposit'[b][j].key
      PROVE  a = b /\ i = j
  <2>1. CASE OldDeposit(a, i) /\ OldDeposit(b, j)
    <3>1. /\ i \in DOMAIN deposit[a] /\ j \in DOMAIN deposit[b]
          /\ deposit[a][i].key # None /\ deposit[a][i].key = deposit[b][j].key
      BY <1>2, <2>1 DEF OldDeposit
    <3>2. QED
      BY <3>1 DEF KeysNameOne
  <2>2. ~(LastDeposit(a, i) /\ OldDeposit(b, j))
    BY <1>2 DEF LastDeposit, OldDeposit, NewDepositKey
  <2>3. ~(OldDeposit(a, i) /\ LastDeposit(b, j))
    BY <1>2 DEF LastDeposit, OldDeposit, NewDepositKey
  <2>4. CASE LastDeposit(a, i) /\ LastDeposit(b, j)
    <3>1. a = b
      BY <2>4 DEF LastDeposit
    <3>2. QED
      BY <2>4, <3>1 DEF LastDeposit
  <2>5. QED
    BY <2>1, <2>2, <2>3, <2>4, OldOrLast
<1>3. QED
  BY <1>1, <1>2 DEF KeysNameOne

\* An idempotency key names one booking and one deposit for good: no cancellation,
\* refund or second pass frees it for another.
THEOREM KeysAreUnique == Spec => []KeysNameOne
<1>1. Init => KeysNameOne
  BY DEF Init, NoBooking, KeysNameOne
<1>2. Spec => []TypeInv
  BY TypeInit, TypeStep, PTL DEF Spec
<1>3. QED
  BY <1>1, <1>2, KeysStep, PTL DEF Spec

------------------------------------------------------------------------------
(* Holds. *)

\* Where the state of a booking stays what it is, its holds do, unless it was
\* waiting to be promoted.
LEMMA HoldsStand ==
  ASSUME SpaceInv, [Next]_vars, NEW a \in Bookings, NEW v \in Voyages,
         StateOf(a) \in {"space_allocated", "cancelled"}, booking'[a].state = StateOf(a)
  PROVE  voyage'[v].holds[a] = voyage[v].holds[a]
<1>1. TypeInv /\ voyage[v] \in VoyageRecord /\ voyage \in [Voyages -> VoyageRecord]
  BY DEF SpaceInv, TypeInv, TypeOK
<1>2. ASSUME NEW u \in Voyages, NEW req \in VoyageRequests, CreateVoyage(u, req)
      PROVE  voyage'[v].holds[a] = voyage[v].holds[a]
  <2>1. CASE u = v
    <3>1. voyage'[v].holds[a] = NoSlot
      BY <1>1, <1>2, <2>1 DEF CreateVoyage, NewVoyage
    <3>2. VoyageExists(VoyageOf(a))
      BY DEF SpaceInv, Sails, Exists, StateOf
    <3>3. VoyageOf(a) # v
      BY <1>2, <2>1, <3>2 DEF CreateVoyage
    <3>4. voyage[v].holds[a] = NoSlot
      BY <3>3 DEF SpaceInv, SpaceFollowsState
    <3>5. QED
      BY <3>1, <3>4
  <2>2. CASE u # v
    BY <1>1, <1>2, <2>2 DEF CreateVoyage
  <2>3. QED
    BY <2>1, <2>2
<1>3. ASSUME NEW b \in Bookings, AllocateSpace(b)
      PROVE  voyage'[v].holds[a] = voyage[v].holds[a]
  <2>1. a # b
    BY <1>3 DEF AllocateSpace, MayAllocate
  <2>2. QED
    BY <1>1, <1>3, <2>1 DEF AllocateSpace, AllocateHolds, VoyageRecord
<1>4. ASSUME NEW b \in Bookings, NEW key \in DepositKeys \cup {None},
             PayAndWin(b, key) \/ PayAndLose(b, key)
      PROVE  voyage'[v].holds[a] = voyage[v].holds[a]
  <2>1. a # b
    BY <1>1, <1>4, WinEffect, LoseEffect DEF Moves
  <2>2. CASE PayAndWin(b, key)
    BY <1>1, <2>1, <2>2 DEF PayAndWin, ConfirmSpace, VoyageRecord
  <2>3. CASE PayAndLose(b, key)
    BY <1>1, <2>1, <2>3 DEF PayAndLose, AddToWaitlist, ReleaseSpace, VoyageRecord
  <2>4. QED
    BY <1>4, <2>2, <2>3
<1>5. ASSUME NEW b \in Bookings, NEW target, RollsBack(b, target)
      PROVE  voyage'[v].holds[a] = voyage[v].holds[a]
  <2> DEFINE u == VoyageOf(b)
  <2>1. a # b /\ Exists(b) /\ RollbackTo(b, target)
    <3>1. booking'[b].state = target
      BY <1>1, <1>5, RollbackBookings
    <3>2. target # StateOf(b) \/ StateOf(b) \notin {"space_allocated", "cancelled"}
      BY <1>5 DEF RollsBack
    <3>3. QED
      BY <1>5, <3>1, <3>2 DEF RollsBack, Exists, StateOf
  <2>2. u \in Voyages
    BY <1>1, <2>1 DEF TypeInv, Placed
  <2>3. PICK n \in 0..Len(voyage[u].waitlist) : RolledBack(b, target, u, n)
    BY <1>1, <2>1, <2>2, RollbackEffect
  <2>4. CASE u = v
    <3>1. n \in Nat /\ voyage'[v] = PromoteWaitlist(ReleaseSpace(voyage[v], b), n)
      BY <1>1, <2>3, <2>4 DEF RolledBack, VoyageRecord
    <3>2. a \notin Promoted(ReleaseSpace(voyage[v], b), n)
      BY DEF Promoted, Waiting
    <3>3. QED
      BY <1>1, <2>1, <3>1, <3>2, PromoteFields
  <2>5. CASE u # v
    BY <1>1, <2>1, <2>2, <2>5, RollbackEffect
  <2>6. QED
    BY <2>4, <2>5
<1>6. QED
  BY <1>1, <1>2, <1>3, <1>4, <1>5, VoyageCases

\* While a booking keeps its place in the deposit race, nothing anybody does moves
\* its deadline.
THEOREM DeadlinesDoNotMove == Spec => DeadlinesStand
<1>1. SpaceInv /\ [Next]_vars =>
        [\A b \in Bookings, v \in Voyages :
           StateOf(b) = "space_allocated" /\ booking'[b].state = "space_allocated"
             => voyage'[v].holds[b] = voyage[v].holds[b]]_vars
  BY HoldsStand
<1>2. QED
  BY <1>1, SpaceInit, SpaceStep, PTL DEF Spec, DeadlinesStand

\* Whoever gets cancelled is rolled back.
LEMMA CancelledByRollback ==
  ASSUME TypeInv, [Next]_vars, NEW a \in Bookings,
         booking'[a].state = "cancelled", StateOf(a) # "cancelled"
  PROVE  RollsBack(a, "cancelled")
<1>1. ASSUME NEW b \in Bookings, Only(b), booking'[b].state # "cancelled" \/ booking'[b].state = StateOf(b)
      PROVE  FALSE
  BY <1>1 DEF Only, StateOf
<1>2. ~Surroundings
  BY DEF Surroundings, StateOf
<1>3. ASSUME NEW b \in Bookings, NEW req \in Requests, Create(b, req)
      PROVE  FALSE
  BY <1>1, <1>3, CreateEffect
<1>4. ASSUME NEW b \in Bookings, NEW s \in Locations, VerifyDangerous(b, s)
      PROVE  FALSE
  BY <1>1, <1>4, VerifyEffect
<1>5. ASSUME NEW b \in Bookings, NEW key \in DepositKeys \cup {None},
             PayAndWin(b, key) \/ PayAndLose(b, key)
      PROVE  FALSE
  BY <1>1, <1>5, WinEffect, LoseEffect DEF Moves
<1>6. ASSUME NEW b \in Bookings, Advance(b)
      PROVE  FALSE
  BY <1>1, <1>6, SubmitEffect, BillEffect, RequeueEffect DEF Advance, Moves
<1>7. ASSUME NEW b \in Bookings, NEW target, RollsBack(b, target)
      PROVE  RollsBack(a, "cancelled")
  <2>1. a = b
    <3>1. SUFFICES ASSUME a # b PROVE FALSE
      OBVIOUS
    <3>2. booking'[a] = booking[a] \/ booking'[a].state = "space_allocated"
      BY <1>7, <3>1, RollbackBookings
    <3>3. QED
      BY <3>2 DEF StateOf
  <2>2. target = "cancelled"
    BY <1>7, <2>1, RollbackBookings
  <2>3. QED
    BY <1>7, <2>1, <2>2
<1>8. QED
  BY <1>2, <1>3, <1>4, <1>5, <1>6, <1>7, StepCases

\* A hold that survives its booking comes from the rollback of a waiting booking
\* that was promoted by it.
LEMMA LeakStep ==
  ASSUME SpaceInv, [Next]_vars, NEW a \in Bookings, NEW v \in Voyages,
         booking'[a].state = "cancelled", voyage'[v].holds[a] # NoSlot
  PROVE  Waiting(a) \/ (StateOf(a) = "cancelled" /\ voyage[v].holds[a] # NoSlot)
<1>1. TypeInv /\ voyage[v] \in VoyageRecord
  BY DEF SpaceInv, TypeInv, TypeOK
<1>2. CASE StateOf(a) = "cancelled"
  BY <1>2, HoldsStand
<1>3. CASE StateOf(a) # "cancelled"
  <2> DEFINE u == VoyageOf(a)
  <2>1. Exists(a) /\ RollbackTo(a, "cancelled") /\ StateOf(a) # "absent"
    BY <1>1, <1>3, CancelledByRollback DEF RollsBack, Exists, StateOf
  <2>2. u \in Voyages
    BY <1>1, <2>1 DEF TypeInv, Placed
  <2>3. PICK n \in 0..Len(voyage[u].waitlist) : RolledBack(a, "cancelled", u, n)
    BY <1>1, <2>1, <2>2, RollbackEffect
  <2>4. CASE u = v
    <3>1. n \in Nat /\ voyage'[v] = PromoteWaitlist(ReleaseSpace(voyage[v], a), n)
      BY <1>1, <2>3, <2>4 DEF RolledBack, VoyageRecord
    <3>2. a \in Promoted(ReleaseSpace(voyage[v], a), n)
      BY <1>1, <3>1, PromoteFields
    <3>3. QED
      BY <3>2 DEF Promoted
  <2>5. CASE u # v
    <3>1. voyage'[v] = voyage[v]
      BY <1>1, <2>1, <2>2, <2>5, RollbackEffect
    <3>2. voyage[v].holds[a] = NoSlot
      BY <2>5 DEF SpaceInv, SpaceFollowsState
    <3>3. QED
      BY <3>1, <3>2
  <2>6. QED
    BY <2>4, <2>5
<1>4. QED
  BY <1>2, <1>3

\* The cancelled bookings that keep a hold (see CancelledHoldsNothing) were waiting
\* when they were cancelled: every other way into that state gives the hold back.
THEOREM OnlyWaitersLeakHolds == Spec => HoldsLeakFromWaitlistOnly
<1>1. SpaceInv /\ [Next]_vars =>
        [\A b \in Bookings, v \in Voyages :
           booking'[b].state = "cancelled" /\ voyage'[v].holds[b] # NoSlot
             => \/ Waiting(b)
                \/ StateOf(b) = "cancelled" /\ voyage[v].holds[b] # NoSlot]_vars
  <2> SUFFICES ASSUME SpaceInv, [Next]_vars
               PROVE  \A b \in Bookings, v \in Voyages :
                        booking'[b].state = "cancelled" /\ voyage'[v].holds[b] # NoSlot
                          => \/ Waiting(b)
                             \/ StateOf(b) = "cancelled" /\ voyage[v].holds[b] # NoSlot
    OBVIOUS
  <2>1. QED
    BY LeakStep
<1>2. QED
  BY <1>1, SpaceInit, SpaceStep, PTL DEF Spec, HoldsLeakFromWaitlistOnly
==============================================================================
