--------------------------- MODULE BookingService ----------------------------
(***************************************************************************)
(* The booking service of internal/booking/service.go with the entities it *)
(* works on.  Every method runs inside one Store.Mutate call: it holds the *)
(* store's lock, works on a private copy, and a returned error discards    *)
(* the copy.  So a call is one atomic action, enabled exactly when the     *)
(* method commits; a call that fails changes nothing and is not a step.    *)
(***************************************************************************)
EXTENDS VoyageSpace, DepositLedger

CONSTANTS
  Voyages, Locations, Containers, BookingKeys, Bills,  \* identifiers
  Certificates,      \* DG certificates: [issued, expires]
  Requests,          \* CreateBookingRequest: [key, voyage, container, kind, port]
  VoyageRequests,    \* CreateVoyageRequest: [capacity, cutoff, departure, ports]
  StorageCapacities, \* capacities asked for in storage.CreateRequest
  HoldDuration, CutoffThreshold, PortChangeWindow,     \* booking.Config
  MaxTime, MaxDeposits, MaxRequeues                    \* bounds of the model

SL == INSTANCE StorageSlots

Certificate == [issued: Int, expires: Int]

ASSUME ConfigAssumption ==
  /\ HoldDuration \in Nat
  /\ CutoffThreshold \in Nat
  /\ PortChangeWindow \in Nat
  /\ MaxTime \in Nat
  /\ MaxDeposits \in Nat
  /\ MaxRequeues \in Nat

ASSUME InputAssumption ==
  /\ Certificates \subseteq Certificate
  /\ Requests \subseteq [key: BookingKeys \cup {None}, voyage: Voyages,
                         container: Containers, kind: Kinds, port: Ports]
  /\ VoyageRequests \subseteq [capacity: [Kinds -> Int], cutoff: Nat,
                               departure: Nat, ports: SUBSET Ports]
  /\ StorageCapacities \subseteq Int

\* None stands for Go's empty string or nil pointer, so it names nothing.
ASSUME NoneAssumption ==
  None \notin Certificates \cup Locations \cup Voyages \cup Bills
              \cup BookingKeys \cup DepositKeys \cup Containers \cup Ports

VARIABLES
  now,      \* the clock
  booking,  \* Data.Bookings
  voyage,   \* Data.Voyages
  storage,  \* Data.Storages
  deposit   \* Data.Deposits, grouped by booking

vars == <<now, booking, voyage, storage, deposit>>

BookingRecord ==
  [ state: States \cup {"absent"}, key: BookingKeys \cup {None},
    voyage: Voyages \cup {None}, container: Containers \cup {None},
    kind: Kinds \cup {"none"}, port: Ports \cup {None},
    cert: Certificates \cup {None}, packing: BOOLEAN,
    location: Locations \cup {None}, locked: BOOLEAN,
    bill: Bills \cup {None}, requeues: Nat,
    released: Nat ]  \* At of the last "customs released" in History

\* An id NextID has not handed out yet.
NoBooking ==
  [ state |-> "absent", key |-> None, voyage |-> None, container |-> None,
    kind |-> "none", port |-> None, cert |-> None, packing |-> FALSE,
    location |-> None, locked |-> FALSE, bill |-> None, requeues |-> 0, released |-> 0 ]

\* Voyages and locations that do not exist yet.
NoVoyage  == NewVoyage([k \in Kinds |-> 0], 0, 0, {})
NoStorage == SL!NewStorage(0)

\* Every variable holds records of the shape the Go structs give it.
TypeOK ==
  /\ now \in Nat
  /\ booking \in [Bookings -> BookingRecord]
  /\ voyage \in [Voyages -> VoyageRecord]
  /\ storage \in [Locations -> SL!StorageRecord]
  /\ deposit \in [Bookings -> Seq(Deposit)]

Init ==
  /\ now = 0
  /\ booking = [b \in Bookings |-> NoBooking]
  /\ voyage = [v \in Voyages |-> NoVoyage]
  /\ storage = [s \in Locations |-> NoStorage]
  /\ deposit = [b \in Bookings |-> <<>>]
------------------------------------------------------------------------------
Exists(b)         == booking[b].state # "absent"
VoyageExists(v)   == voyage[v].ports # {}
LocationExists(s) == storage[s].capacity > 0

StateOf(b)  == booking[b].state
VoyageOf(b) == booking[b].voyage
Active(b)   == IsActive(StateOf(b))
Legal(b, target) == CanTransitionTo(StateOf(b), target)

M_AlreadyIssued(cert, t) == cert # None /\ cert.issued <= t

\* IsValidAt, for a certificate that may be nil.
ValidAt(cert, t) == cert # None /\ cert.issued <= t /\ t <= cert.expires

\* CutoffCompliant: inside the threshold before the cutoff, dangerous cargo
\* needs a valid certificate and a locked storage slot.
CutoffCompliant(b) ==
  \/ ~IsDangerous(booking[b].kind)
  \/ voyage[VoyageOf(b)].cutoff - now > CutoffThreshold
  \/ ValidAt(booking[b].cert, now) /\ booking[b].locked
------------------------------------------------------------------------------
(* Clock and the creation of voyages and storage locations. *)

Tick ==
  /\ now < MaxTime
  /\ now' = now + 1
  /\ UNCHANGED <<booking, voyage, storage, deposit>>

CreateVoyage(v, req) ==
  /\ ~VoyageExists(v)
  /\ req.cutoff < req.departure
  /\ req.ports # {}
  /\ \A k \in Kinds : req.capacity[k] >= 0
  /\ voyage' = [voyage EXCEPT ![v] =
                  NewVoyage(req.capacity, req.cutoff, req.departure, req.ports)]
  /\ UNCHANGED <<now, booking, storage, deposit>>

M_CreateStorage(s, capacity) ==
  /\ ~LocationExists(s)
  /\ storage' = [storage EXCEPT ![s] = SL!NewStorage(capacity)]
  /\ UNCHANGED <<now, booking, voyage, deposit>>

CreateStorage(s, capacity) ==
  /\ ~LocationExists(s)
  /\ capacity > 0
  /\ storage' = [storage EXCEPT ![s] = SL!NewStorage(capacity)]
  /\ UNCHANGED <<now, booking, voyage, deposit>>
------------------------------------------------------------------------------
(* The booking lifecycle. *)

M_KeyOfActiveOnly(key) == key = None \/ \A o \in Bookings : Active(o) => booking[o].key # key

\* Create returns the earlier booking when the key was used before.
NewBookingKey(key) == key = None \/ \A o \in Bookings : booking[o].key # key

NewBooking(req) ==
  [ state |-> "initiated", key |-> req.key, voyage |-> req.voyage,
    container |-> req.container, kind |-> req.kind, port |-> req.port,
    cert |-> None, packing |-> FALSE, location |-> None, locked |-> FALSE,
    bill |-> None, requeues |-> 0, released |-> 0 ]

ContainerFree(container) ==
  \A o \in Bookings : Active(o) => booking[o].container # container

Create(b, req) ==
  /\ ~Exists(b)
  /\ NewBookingKey(req.key)
  /\ req.port \in voyage[req.voyage].ports
  /\ ContainerFree(req.container)
  /\ booking' = [booking EXCEPT ![b] = NewBooking(req)]
  /\ UNCHANGED <<now, voyage, storage, deposit>>

M_DocumentsSuffice(kind, cert) == TRUE

DocumentsSuffice(kind, cert) == IsDangerous(kind) => cert # None

\* The certificate is kept when the forwarder sends none; its validity is not
\* looked at here.
SubmitDocuments(b, cert) ==
  /\ Exists(b)
  /\ DocumentsSuffice(booking[b].kind, cert)
  /\ Legal(b, "docs_submitted")
  /\ booking' = [booking EXCEPT
       ![b].state = "docs_submitted",
       ![b].cert = IF cert # None THEN cert ELSE booking[b].cert,
       ![b].packing = TRUE]
  /\ UNCHANGED <<now, voyage, storage, deposit>>

VerifyGeneral(b) ==
  /\ StateOf(b) = "docs_submitted"
  /\ ~IsDangerous(booking[b].kind)
  /\ booking' = [booking EXCEPT ![b].state = "storage_verified"]
  /\ UNCHANGED <<now, voyage, storage, deposit>>

VerifyDangerous(b, s) ==
  /\ StateOf(b) = "docs_submitted"
  /\ IsDangerous(booking[b].kind)
  /\ LocationExists(s)
  /\ SL!MayReserve(storage[s], b)
  /\ storage' = [storage EXCEPT ![s] = SL!Reserve(@, b)]
  /\ booking' = [booking EXCEPT ![b].state = "storage_verified",
                                ![b].location = s, ![b].locked = TRUE]
  /\ UNCHANGED <<now, voyage, deposit>>

KindOf == [b \in Bookings |-> booking[b].kind]

MayAllocate(b) ==
  /\ StateOf(b) = "storage_verified"
  /\ ~HasAllocation(voyage[VoyageOf(b)], b)
  /\ CanAllocateHold(voyage[VoyageOf(b)], booking[b].kind)

\* On a full pool AllocateHold returns an error that wraps ErrNoCapacity with
\* %v, so errors.Is does not recognise it: the branch of AllocateSpace that
\* would join the waitlist is dead and the call fails.
AllocateSpace(b) ==
  /\ MayAllocate(b)
  /\ voyage' = [voyage EXCEPT ![VoyageOf(b)] = AllocateHolds(@, {b}, KindOf, now + HoldDuration)]
  /\ booking' = [booking EXCEPT ![b].state = "space_allocated"]
  /\ UNCHANGED <<now, storage, deposit>>

M_NewDepositKey(key) == TRUE

\* PayDeposit returns the earlier deposit when the key was used before,
\* whichever booking it belongs to.
NewDepositKey(key) ==
  key = None \/ \A o \in Bookings : \A i \in DOMAIN deposit[o] : deposit[o][i].key # key

MayPay(b, key) ==
  /\ NewDepositKey(key)
  /\ StateOf(b) = "space_allocated"
  /\ voyage[VoyageOf(b)].holds[b] # NoSlot
  /\ Len(deposit[b]) < MaxDeposits

M_Saturated(v, kind) == confirmedCountFor(v, kind) > v.capacity[kind]

\* ConfirmSpace answers ErrNoCapacity.
Saturated(v, kind) == confirmedCountFor(v, kind) >= v.capacity[kind]

PayAndWin(b, key) ==
  LET v == VoyageOf(b)
      s == booking[b].location
  IN
  /\ MayPay(b, key)
  /\ ~Saturated(voyage[v], voyage[v].holds[b].kind)
  /\ voyage' = [voyage EXCEPT ![v] = ConfirmSpace(@, b)]
  /\ storage' = IF s = None THEN storage
                ELSE [storage EXCEPT ![s] = SL!Confirm(@, b)]
  /\ booking' = [booking EXCEPT ![b].state = "deposit_paid"]
  /\ deposit' = [deposit EXCEPT ![b] = AddDeposit(@, key, "confirmed")]
  /\ UNCHANGED now

\* The loser keeps its storage slot while it waits.
PayAndLose(b, key) ==
  LET v == VoyageOf(b) IN
  /\ MayPay(b, key)
  /\ Saturated(voyage[v], voyage[v].holds[b].kind)
  /\ voyage' = [voyage EXCEPT ![v] = AddToWaitlist(ReleaseSpace(@, b), b)]
  /\ booking' = [booking EXCEPT ![b].state = "waitlisted"]
  /\ deposit' = [deposit EXCEPT ![b] = AddDeposit(@, key, "refunded")]
  /\ UNCHANGED <<now, storage>>

CustomsRelease(b) ==
  /\ StateOf(b) = "deposit_paid"
  /\ CutoffCompliant(b)
  /\ IsDangerous(booking[b].kind) => ValidAt(booking[b].cert, now)
  /\ booking[b].packing
  /\ booking' = [booking EXCEPT ![b].state = "customs_released", ![b].released = now]
  /\ UNCHANGED <<now, voyage, storage, deposit>>

M_BillOfContainer(b, bill) ==
  /\ Exists(b)
  /\ \A o \in Bookings \ {b} : Active(o) =>
       ~(booking[o].container = booking[b].container /\ booking[o].bill # None)
  /\ booking' = [booking EXCEPT ![b].bill = bill]
  /\ UNCHANGED <<now, voyage, storage, deposit>>

\* Neither the state of the booking nor a bill it already carries is looked at.
BindBill(b, bill) ==
  /\ Exists(b)
  /\ \A o \in Bookings \ {b} : Active(o) =>
       /\ ~(booking[o].container = booking[b].container /\ booking[o].bill # None)
       /\ booking[o].bill # bill
  /\ booking' = [booking EXCEPT ![b].bill = bill]
  /\ UNCHANGED <<now, voyage, storage, deposit>>

Confirm(b) ==
  /\ StateOf(b) = "customs_released"
  /\ booking[b].bill # None
  /\ booking' = [booking EXCEPT ![b].state = "confirmed"]
  /\ UNCHANGED <<now, voyage, storage, deposit>>

ChangePort(b, port) ==
  /\ Exists(b)
  /\ CanChangePort(voyage[VoyageOf(b)], now, PortChangeWindow)
  /\ port \in voyage[VoyageOf(b)].ports
  /\ booking' = [booking EXCEPT ![b].port = port]
  /\ UNCHANGED <<now, voyage, storage, deposit>>

\* A general booking has no certificate to retain, so it starts over.
Requeue(b) ==
  /\ StateOf(b) = "pending_review"
  /\ booking[b].requeues < MaxRequeues
  /\ booking' = [booking EXCEPT
       ![b].requeues = @ + 1,
       ![b].state = IF booking[b].cert # None /\ booking[b].packing
                    THEN "docs_submitted" ELSE "initiated"]
  /\ UNCHANGED <<now, voyage, storage, deposit>>
------------------------------------------------------------------------------
(* Rollback and waitlist promotion. *)

\* promoteWaitlist drops or promotes the head of the list until it meets a
\* waitlisted booking whose pool is full.  v is the voyage after the release.
Waiting(b) == StateOf(b) = "waitlisted"

Stuck(v, b) == Waiting(b) /\ ~CanAllocateHold(v, booking[b].kind)

M_PromoteHeadOnly(v, n) ==
  n = IF v.waitlist # <<>> /\ ~Stuck(v, Head(v.waitlist)) THEN 1 ELSE 0

\* The loop handles the first n entries.  Promotions add holds only, so the
\* confirmed counts CanAllocateHold looks at stay the same throughout.  The
\* error exits of the loop need a waiting booking with space: see
\* SpaceFollowsState.
LoopStopsAt(v, n) ==
  /\ \A i \in 1..n : ~Stuck(v, v.waitlist[i])
  /\ n < Len(v.waitlist) => Stuck(v, v.waitlist[n + 1])

M_PromoteDropped(v, n) == {b \in Bookings : \E i \in 1..n : v.waitlist[i] = b}

Promoted(v, n) == {b \in Bookings : Waiting(b) /\ \E i \in 1..n : v.waitlist[i] = b}

M_DropOneMore(v, n) ==
  [AllocateHolds(v, Promoted(v, n), KindOf, now + HoldDuration)
     EXCEPT !.waitlist = SubSeq(@, n + 2, Len(@))]

PromoteWaitlist(v, n) ==
  [AllocateHolds(v, Promoted(v, n), KindOf, now + HoldDuration)
     EXCEPT !.waitlist = SubSeq(@, n + 1, Len(@))]

\* The loop itself, one iteration per step.  going says whether it goes on, taken
\* who has been promoted so far.  The result of AllocateHold decides whether the
\* entry goes back to the end of the list.
Iteration(l) ==
  LET b      == Head(l.v.waitlist)
      popped == [l.v EXCEPT !.waitlist = Tail(@)]
      stop   == [v |-> l.v, going |-> FALSE, taken |-> l.taken]
  IN
  IF ~l.going \/ l.v.waitlist = <<>> THEN stop
  ELSE IF ~Waiting(b) \/ b \in l.taken THEN [l EXCEPT !.v = popped]
  ELSE IF ~CanAllocateHold(l.v, booking[b].kind) THEN stop
  ELSE IF HasAllocation(popped, b)
       THEN [l EXCEPT !.v = AddToWaitlist(popped, b), !.going = FALSE]
  ELSE [v |-> AllocateHolds(popped, {b}, KindOf, now + HoldDuration),
        going |-> TRUE, taken |-> l.taken \cup {b}]

\* Each iteration that goes on takes an entry off the list.
Loop(v) ==
  LET run[n \in 0..Len(v.waitlist)] ==
        IF n = 0 THEN [v |-> v, going |-> TRUE, taken |-> {}] ELSE Iteration(run[n - 1])
  IN run[Len(v.waitlist)]

\* rollback(b) followed by the caller's transition of b into target.  A
\* waitlisted b is itself a candidate of the promotion loop.
RollbackTo(b, target) ==
  LET v     == VoyageOf(b)
      freed == ReleaseSpace(voyage[v], b)
      s     == booking[b].location
  IN
  \E n \in 0..Len(freed.waitlist) :
    /\ LoopStopsAt(freed, n)
    /\ voyage' = [voyage EXCEPT ![v] = PromoteWaitlist(freed, n)]
    /\ booking' = [o \in Bookings |->
         IF o = b THEN [booking[b] EXCEPT !.state = target, !.locked = FALSE]
         ELSE IF o \in Promoted(freed, n)
              THEN [booking[o] EXCEPT !.state = "space_allocated"]
              ELSE booking[o]]
    /\ storage' = IF s = None THEN storage
                  ELSE [storage EXCEPT ![s] = SL!Release(@, b)]
    /\ deposit' = [deposit EXCEPT ![b] = RefundInTx(@)]
    /\ UNCHANGED now

\* In a confirmed booking the rollback runs too, but the illegal transition
\* fails afterwards and the whole transaction is discarded.
Cancel(b) ==
  /\ Exists(b)
  /\ StateOf(b) \notin {"cancelled", "pending_review"}
  /\ Legal(b, "cancelled")
  /\ RollbackTo(b, "cancelled")

CustomsReject(b) ==
  /\ StateOf(b) \in {"customs_released", "deposit_paid"}
  /\ RollbackTo(b, "pending_review")

M_CancelAnyState(b) == StateOf(b) \notin {"absent", "cancelled"} /\ RollbackTo(b, "cancelled")

\* The two calls the scheduler makes; both look at the state again.
CancelExpiredHold(b) ==
  /\ StateOf(b) = "space_allocated"
  /\ RollbackTo(b, "cancelled")

M_CancelAnyStateForCutoff(b) ==
  StateOf(b) \notin {"absent", "cancelled"} /\ RollbackTo(b, "cancelled")

CancelForCutoffNonCompliance(b) ==
  /\ StateOf(b) \in {"deposit_paid", "customs_released"}
  /\ RollbackTo(b, "cancelled")
------------------------------------------------------------------------------
(* The queries with a result of their own. *)

\* payment.GetByBooking: the confirmed deposit if there is one, else any.  The
\* set of the answers it can give.
GetByBooking(b) ==
  LET all       == {deposit[b][i] : i \in DOMAIN deposit[b]}
      confirmed == {d \in all : d.status = "confirmed"}
  IN IF confirmed # {} THEN confirmed ELSE all

\* The capacity report of the voyage service.
Capacity(v) ==
  [ available      |-> [k \in Kinds |-> AvailableFor(voyage[v], k)],
    holds          |-> [k \in Kinds |-> HoldCountFor(voyage[v], k)],
    waitlistLength |-> Len(voyage[v].waitlist) ]
------------------------------------------------------------------------------
\* What the HTTP endpoints of internal/httpapi reach.
ApiStep ==
  \/ \E v \in Voyages, req \in VoyageRequests : CreateVoyage(v, req)
  \/ \E s \in Locations, c \in StorageCapacities : CreateStorage(s, c)
  \/ \E b \in Bookings :
       \/ \E req \in Requests : Create(b, req)
       \/ \E cert \in Certificates \cup {None} : SubmitDocuments(b, cert)
       \/ VerifyGeneral(b)
       \/ \E s \in Locations : VerifyDangerous(b, s)
       \/ AllocateSpace(b)
       \/ \E key \in DepositKeys \cup {None} : PayAndWin(b, key) \/ PayAndLose(b, key)
       \/ CustomsRelease(b)
       \/ \E bill \in Bills : BindBill(b, bill)
       \/ Confirm(b)
       \/ \E port \in Ports : ChangePort(b, port)
       \/ Requeue(b)
       \/ Cancel(b)
       \/ CustomsReject(b)

\* The scheduler's calls for an arbitrary booking, as any stale list would
\* make them.  Module Scheduler models where the lists come from.
Next ==
  \/ Tick
  \/ ApiStep
  \/ \E b \in Bookings : CancelExpiredHold(b) \/ CancelForCutoffNonCompliance(b)

Spec == Init /\ [][Next]_vars
==============================================================================
