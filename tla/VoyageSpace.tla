----------------------------- MODULE VoyageSpace -----------------------------
(***************************************************************************)
(* The Voyage aggregate of internal/domain/voyage.go: a record with the    *)
(* maps Holds and Confirmed (a booking that is not a key maps to NoSlot)   *)
(* and the Waitlist.  The operators are the methods of the Go type, as     *)
(* functions from the old record to the new one.                           *)
(***************************************************************************)
EXTENDS BookingStates, Integers, Sequences, FiniteSets

CONSTANTS Bookings, Ports

ASSUME BookingsFinite == IsFiniteSet(Bookings)

\* HoldAllocation: the cargo class copied from the booking and the deposit
\* deadline.  The copied port and the other two timestamps are left out: no
\* code of the service reads them back.
NoSlot == [kind |-> "none", expires |-> 0]
Slot   == [kind: Kinds, expires: Nat] \cup {NoSlot}

VoyageRecord ==
  [ capacity: [Kinds -> Nat], cutoff: Nat, departure: Nat, ports: SUBSET Ports,
    holds: [Bookings -> Slot], confirmed: [Bookings -> Slot],
    waitlist: Seq(Bookings) ]

NewVoyage(capacity, cutoff, departure, ports) ==
  [ capacity |-> capacity, cutoff |-> cutoff, departure |-> departure,
    ports |-> ports, holds |-> [b \in Bookings |-> NoSlot],
    confirmed |-> [b \in Bookings |-> NoSlot], waitlist |-> <<>> ]

\* Bookings of one cargo class in one of the two maps.
InPool(slots, kind) == {b \in Bookings : slots[b].kind = kind}

confirmedCountFor(v, kind) == Cardinality(InPool(v.confirmed, kind))

HoldCountFor(v, kind) == Cardinality(InPool(v.holds, kind))

M_AvailableFor(v, kind) == v.capacity[kind] - confirmedCountFor(v, kind) - HoldCountFor(v, kind)

AvailableFor(v, kind) == v.capacity[kind] - confirmedCountFor(v, kind)

M_OffByOne(v, kind) == confirmedCountFor(v, kind) <= v.capacity[kind]

CanAllocateHold(v, kind) == confirmedCountFor(v, kind) < v.capacity[kind]

HasAllocation(v, b) == v.holds[b] # NoSlot \/ v.confirmed[b] # NoSlot

M_RenewHolds(v, set, kindOf, expires) ==
  [v EXCEPT !.holds = [b \in Bookings |->
                         IF b \in set \/ v.holds[b] # NoSlot
                         THEN [kind |-> kindOf[b], expires |-> expires] ELSE v.holds[b]]]

\* AllocateHold for every booking of a set: a single one for the space
\* endpoint, all the promoted ones for the waitlist.
AllocateHolds(v, set, kindOf, expires) ==
  [v EXCEPT !.holds = [b \in Bookings |->
                         IF b \in set THEN [kind |-> kindOf[b], expires |-> expires]
                                      ELSE v.holds[b]]]

M_KeepHold(v, b) == [v EXCEPT !.confirmed[b] = v.holds[b]]

ConfirmSpace(v, b) == [v EXCEPT !.confirmed[b] = v.holds[b], !.holds[b] = NoSlot]

M_ReleaseHoldOnly(v, b) == [v EXCEPT !.holds[b] = NoSlot]

M_ReleaseConfirmedOnly(v, b) == [v EXCEPT !.confirmed[b] = NoSlot]

ReleaseSpace(v, b) == [v EXCEPT !.holds[b] = NoSlot, !.confirmed[b] = NoSlot]

OnWaitlist(v, b) == \E i \in DOMAIN v.waitlist : v.waitlist[i] = b

M_JumpQueue(v, b) == [v EXCEPT !.waitlist = <<b>> \o @]

AddToWaitlist(v, b) ==
  IF OnWaitlist(v, b) THEN v ELSE [v EXCEPT !.waitlist = Append(@, b)]

M_NotYetExpired(v, t) == {b \in Bookings : v.holds[b] # NoSlot /\ t < v.holds[b].expires}

\* The holds whose deposit deadline has passed at time t.
ExpiredHolds(v, t) == {b \in Bookings : v.holds[b] # NoSlot /\ t >= v.holds[b].expires}

CanChangePort(v, t, window) == v.departure - t >= window
==============================================================================
