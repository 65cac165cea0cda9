----------------------------- MODULE BookingProps -----------------------------
(***************************************************************************)
(* What the booking service promises across its entities: the voyage, the  *)
(* storage locations and the deposits must agree with the booking states   *)
(* after every sequence of calls, whatever their order.                    *)
(***************************************************************************)
EXTENDS BookingService

\* The states in which the deposit has been taken and not given back.
Paid(b) == StateOf(b) \in {"deposit_paid", "customs_released", "confirmed"}

\* The competition for a pool may hand out more holds than slots, but the
\* deposits that win never exceed the capacity: whatever holds, payments and
\* rollbacks interleave, ConfirmSpace admits no more than capacityFor.
CapacityRespected ==
  \A v \in Voyages, k \in Kinds :
    confirmedCountFor(voyage[v], k) <= voyage[v].capacity[k]

\* The voyage's two maps follow the booking states: space is confirmed exactly
\* for the paid bookings of the voyage, in the pool of their cargo, and a
\* booking in space_allocated has a hold, so PayDeposit never meets ErrNoHold
\* and promoteWaitlist never meets ErrAlreadyAllocated.  (The converse for
\* holds fails for cancelled bookings: see CancelledHoldsNothing.)
SpaceFollowsState ==
  \A v \in Voyages, b \in Bookings :
    /\ voyage[v].confirmed[b] # NoSlot <=> VoyageOf(b) = v /\ Paid(b)
    /\ VoyageOf(b) = v /\ StateOf(b) = "space_allocated" => voyage[v].holds[b] # NoSlot
    /\ voyage[v].holds[b] # NoSlot =>
         VoyageOf(b) = v /\ StateOf(b) \in {"space_allocated", "cancelled"}
    /\ voyage[v].confirmed[b].kind \in {booking[b].kind, "none"}
    /\ voyage[v].holds[b].kind \in {booking[b].kind, "none"}

\* Money: a booking has exactly one confirmed deposit while it is paid and none
\* before it pays, while it waits and after any rollback.
DepositFollowsState ==
  \A b \in Bookings :
    Cardinality(ConfirmedDeposits(deposit[b])) = IF Paid(b) THEN 1 ELSE 0

\* A storage slot is reserved from the terminal's verification on, confirmed by
\* the deposit and given back by every rollback, and StorageLocked says so:
\* no slot leaks and none is shared with a booking that left.
StorageFollowsState ==
  \A s \in Locations, b \in Bookings :
    LET mine == booking[b].location = s /\ booking[b].locked IN
    /\ b \in storage[s].confirmed <=> mine /\ Paid(b)
    /\ b \in storage[s].reserved <=>
         mine /\ StateOf(b) \in {"storage_verified", "space_allocated", "waitlisted"}
    /\ StateOf(b) \in {"docs_submitted", "initiated", "pending_review", "cancelled"} => ~mine

\* Reservations and confirmed slots together never exceed a location's capacity.
StorageCapacityRespected == \A s \in Locations : SL!UsedSlots(storage[s]) <= storage[s].capacity

\* Nobody waits unlisted and nobody is listed twice: a waitlisted booking is an
\* entry of its own voyage's waitlist, and the other entries are cancelled
\* bookings that promoteWaitlist drops when it reaches them.
WaitlistFollowsState ==
  \A v \in Voyages :
    /\ \A b \in Bookings : Waiting(b) /\ VoyageOf(b) = v => OnWaitlist(voyage[v], b)
    /\ \A i \in DOMAIN voyage[v].waitlist :
         LET b == voyage[v].waitlist[i] IN
         /\ VoyageOf(b) = v
         /\ StateOf(b) \in {"waitlisted", "cancelled"}
         /\ \A j \in DOMAIN voyage[v].waitlist : voyage[v].waitlist[j] = b => j = i

\* Every release of space promotes as far as it can: when a waitlist is not
\* empty, the pool its first entry waits for is full.
HeadIsBlocked ==
  \A v \in Voyages :
    voyage[v].waitlist # <<>> =>
      ~CanAllocateHold(voyage[v], booking[Head(voyage[v].waitlist)].kind)

\* The closed form of promoteWaitlist is what its loop computes, whichever booking
\* of the voyage gives up its space: one number of entries fits, and with it the
\* same bookings are promoted, the same entries are left and the same holds made,
\* and no error exit is taken.
LoopIsClosedForm ==
  \A b \in Bookings : Exists(b) =>
    LET freed == ReleaseSpace(voyage[VoyageOf(b)], b)
        fits  == {n \in 0..Len(freed.waitlist) : LoopStopsAt(freed, n)}
    IN
    /\ Cardinality(fits) = 1
    /\ \A n \in fits :
         /\ Loop(freed).v = PromoteWaitlist(freed, n)
         /\ Loop(freed).taken = Promoted(freed, n)

\* Dangerous cargo that has paid, and may sail, carries a certificate and a
\* packing list and occupies a storage slot, even after a customs rejection and
\* a second pass through the flow with the documents of the first.
PaidDangerousIsReady ==
  \A b \in Bookings :
    Paid(b) /\ IsDangerous(booking[b].kind) =>
      /\ booking[b].cert # None
      /\ booking[b].packing
      /\ \E s \in Locations : booking[b].location = s /\ b \in storage[s].confirmed

\* What has left customs carries the certificate it was inspected under, and the
\* inspection took place between its two dates: the certificate is neither swapped
\* nor lost after the release, and a second pass does not live on the first release.
ReleasedUnderValidCertificate ==
  \A b \in Bookings :
    StateOf(b) \in {"customs_released", "confirmed"} /\ IsDangerous(booking[b].kind)
      => /\ booking[b].cert # None
         /\ booking[b].cert.issued <= booking[b].released
         /\ booking[b].released <= booking[b].cert.expires

\* Create and BindBill keep containers and bills of lading to one active
\* booking each; two active bookings can only share one after a Requeue.
OnlyRequeueShares ==
  \A a, b \in Bookings :
    /\ a # b /\ Active(a) /\ Active(b)
    /\ \/ booking[a].container = booking[b].container
       \/ booking[a].bill = booking[b].bill /\ booking[a].bill # None
    => booking[a].requeues + booking[b].requeues > 0

\* An idempotency key names one booking and one deposit, for good: whatever was
\* cancelled, refunded or paid again since, a key is never taken a second time,
\* not even by another booking.
KeysNameOne ==
  /\ \A a, b \in Bookings :
       a # b /\ booking[a].key # None => booking[a].key # booking[b].key
  /\ \A a, b \in Bookings : \A i \in DOMAIN deposit[a], j \in DOMAIN deposit[b] :
       deposit[a][i].key # None /\ deposit[a][i].key = deposit[b][j].key => a = b /\ i = j

\* What the queries say is what the next call meets.  The capacity report tells
\* who gets a hold, who wins with a deposit, and that nobody waits while both
\* pools have room; the holds it counts include everyone in space_allocated; the
\* deposit shown is a confirmed one exactly while the booking is paid.
QueriesPredictCalls ==
  /\ \A b \in Bookings : Exists(b) =>
       LET v      == VoyageOf(b)
           report == Capacity(v)
           kind   == booking[b].kind
       IN
       /\ StateOf(b) = "storage_verified"
            => (report.available[kind] > 0 <=> MayAllocate(b))
       /\ StateOf(b) = "space_allocated"
            => (report.available[kind] <= 0 <=> Saturated(voyage[v], voyage[v].holds[b].kind))
       /\ Waiting(b) => \E k \in Kinds : report.available[k] <= 0
       /\ report.holds[kind] >= Cardinality({o \in Bookings : /\ VoyageOf(o) = v
                                                             /\ booking[o].kind = kind
                                                             /\ StateOf(o) = "space_allocated"})
  /\ \A b \in Bookings :
       Paid(b) <=> \E d \in GetByBooking(b) : d.status = "confirmed"
------------------------------------------------------------------------------
(* Action properties. *)

Ahead(v, a, b) ==
  \E i, j \in DOMAIN voyage[v].waitlist :
    i < j /\ voyage[v].waitlist[i] = a /\ voyage[v].waitlist[j] = b

\* First come, first served: while a booking waits, nobody gets ahead of it in
\* the list, neither by joining nor by reordering, and only a booking that was
\* ahead of it is promoted.
NoOvertaking ==
  [][\A v \in Voyages, a, b \in Bookings :
       /\ a # b
       /\ VoyageOf(a) = v
       /\ Waiting(a)
       /\ booking'[a].state = "waitlisted"
       => /\ Ahead(v, b, a)' => Ahead(v, b, a)
          /\ Waiting(b) /\ VoyageOf(b) = v /\ booking'[b].state = "space_allocated"
             => Ahead(v, b, a)]_vars

\* "confirmed is terminal": no later call or scheduler pass takes the space, the
\* storage slot, the deposit or the state of a confirmed booking away.
ConfirmedIsFinal ==
  [][\A b \in Bookings : StateOf(b) = "confirmed" =>
       /\ booking'[b].state = "confirmed"
       /\ booking'[b].locked = booking[b].locked
       /\ deposit'[b] = deposit[b]
       /\ \A v \in Voyages : voyage'[v].confirmed[b] = voyage[v].confirmed[b]]_vars

\* A rollback touches other bookings only to promote them: a call about one
\* booking changes the state of another one from waitlisted to space_allocated
\* or not at all, and never its documents, its storage or its deposits.
OthersOnlyPromoted ==
  [][\E b \in Bookings : \A o \in Bookings \ {b} :
       /\ deposit'[o] = deposit[o]
       /\ \A s \in Locations : /\ o \in storage'[s].reserved <=> o \in storage[s].reserved
                               /\ o \in storage'[s].confirmed <=> o \in storage[s].confirmed
       /\ \/ booking'[o] = booking[o]
          \/ /\ Waiting(o)
             /\ booking'[o] = [booking[o] EXCEPT !.state = "space_allocated"]]_vars
\* Transactions that take several edges of the state table at once, and creation.
Combined ==
  { <<"absent", "initiated">>,
    <<"deposit_paid", "pending_review">>, <<"customs_released", "pending_review">>,
    <<"pending_review", "docs_submitted">> }

\* The state table holds for every booking a call touches, though most methods
\* compare states by hand and a rollback moves bookings its caller never looked at:
\* what is cancelled or confirmed stays so, and no stage is skipped.
TransitionsAreLegal ==
  [][\A b \in Bookings :
       LET from == StateOf(b)
           to   == booking'[b].state
       IN from # to => \/ <<from, to>> \in Combined
                       \/ from \in States /\ to \in validTransitions[from]]_vars

\* A hold that survives its booking was made by the rollback of that booking, out
\* of the waitlist: no other way into cancelled leaves a hold behind.
HoldsLeakFromWaitlistOnly ==
  [][\A b \in Bookings, v \in Voyages :
       booking'[b].state = "cancelled" /\ voyage'[v].holds[b] # NoSlot
         => \/ Waiting(b)
            \/ StateOf(b) = "cancelled" /\ voyage[v].holds[b] # NoSlot]_vars

\* While a booking keeps its place in the deposit race, nothing anybody does moves
\* its deadline: neither promotions on its voyage nor allocations of others.
DeadlinesStand ==
  [][\A b \in Bookings, v \in Voyages :
       StateOf(b) = "space_allocated" /\ booking'[b].state = "space_allocated"
         => voyage'[v].holds[b] = voyage[v].holds[b]]_vars

\* What a client was told about a deposit stays on record.  Deposits are neither
\* lost nor taken twice; a confirmed one is refunded in the step that takes the
\* booking's space, at no other time, and a refund is never undone.
DepositsArePermanent ==
  [][\A b \in Bookings :
       /\ DOMAIN deposit[b] \subseteq DOMAIN deposit'[b]
       /\ \A i \in DOMAIN deposit[b] :
            \/ deposit'[b][i] = deposit[b][i]
            \/ /\ deposit[b][i].status = "confirmed"
               /\ deposit'[b][i] = [deposit[b][i] EXCEPT !.status = "refunded"]
               /\ Paid(b) /\ ~Paid(b)'
       /\ \A i \in DOMAIN deposit'[b] \ DOMAIN deposit[b] :
            deposit'[b][i].status = "confirmed" <=> Paid(b)']_vars
------------------------------------------------------------------------------
(* The abstract competition.  Roles are read off the booking states and only *)
(* those who wait are ordered, while the service decides by the voyage's     *)
(* maps and its raw waitlist.                                                *)

RoleOf(b) ==
  CASE StateOf(b) = "space_allocated" -> "holder"
    [] StateOf(b) = "waitlisted"      -> "waiting"
    [] Paid(b)                        -> "winner"
    [] OTHER                          -> "out"

\* Both wait for the same voyage, a ahead of b.
WaitsAhead(a, b) ==
  /\ Waiting(a) /\ Waiting(b) /\ VoyageOf(a) = VoyageOf(b)
  /\ Ahead(VoyageOf(a), a, b)

Order == {pair \in Bookings \X Bookings : WaitsAhead(pair[1], pair[2])}

SC == INSTANCE SlotCompetition WITH
        Players <- Bookings,
        Venues  <- Voyages,
        Classes <- Kinds,
        Nowhere <- None,
        room    <- [v \in Voyages |-> voyage[v].capacity],
        venue   <- [b \in Bookings |-> VoyageOf(b)],
        class   <- [b \in Bookings |-> booking[b].kind],
        role    <- [b \in Bookings |-> RoleOf(b)],
        ahead   <- Order

\* The service implements the competition: holds, deposits, lost races, rollbacks
\* and promotions are its steps, and stale list entries, leftover holds and the
\* second passes of requeued bookings never show.
ImplementsSlotCompetition == SC!Spec
------------------------------------------------------------------------------
(* What comments and the README say and the code does not keep.  Each is     *)
(* refuted by a run of its own; README.md explains the counterexamples.      *)

\* service.go, AllocateSpace: "When no confirmed capacity remains the booking is
\* placed on the waitlist": the call commits for every verified booking.
VerifiedCanAllocate ==
  \A b \in Bookings : StateOf(b) = "storage_verified" => ENABLED AllocateSpace(b)

\* service.go, Create: "A container may only belong to one active booking."
OneActiveBookingPerContainer ==
  \A a, b \in Bookings :
    a # b /\ Active(a) /\ Active(b)
      => booking[a].container # booking[b].container

\* service.go, promoteWaitlist: "moves waitlisted bookings into tentative holds
\* while capacity is available": whoever is first of those who wait has no room.
FirstInLineIsServed ==
  \A v \in Voyages : \A i \in DOMAIN voyage[v].waitlist :
    LET b == voyage[v].waitlist[i] IN
    Waiting(b) /\ (\A j \in 1..(i - 1) : ~Waiting(voyage[v].waitlist[j]))
      => ~CanAllocateHold(voyage[v], booking[b].kind)

\* service.go, Cancel: "rolls back resources": a cancelled booking has no space.
CancelledHoldsNothing ==
  \A b \in Bookings, v \in Voyages :
    StateOf(b) = "cancelled" => ~HasAllocation(voyage[v], b)
==============================================================================
