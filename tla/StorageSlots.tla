---------------------------- MODULE StorageSlots -----------------------------
(***************************************************************************)
(* The StorageLocation aggregate of internal/domain/storage.go: a capacity *)
(* and the key sets of the maps Reserved and Confirmed.                    *)
(***************************************************************************)
EXTENDS Integers, FiniteSets

CONSTANT Bookings

StorageRecord == [capacity: Nat, reserved: SUBSET Bookings, confirmed: SUBSET Bookings]

NewStorage(capacity) == [capacity |-> capacity, reserved |-> {}, confirmed |-> {}]

UsedSlots(s) == Cardinality(s.reserved) + Cardinality(s.confirmed)

M_CountReservedOnly(s) == Cardinality(s.reserved) < s.capacity

CanReserve(s) == UsedSlots(s) < s.capacity

\* Reserve succeeds exactly in this case.
MayReserve(s, b) == b \notin s.reserved /\ b \notin s.confirmed /\ CanReserve(s)

Reserve(s, b) == [s EXCEPT !.reserved = @ \cup {b}]

Confirm(s, b) ==
  IF b \in s.reserved
  THEN [s EXCEPT !.reserved = @ \ {b}, !.confirmed = @ \cup {b}]
  ELSE s

M_ReleaseReservation(s, b) == [s EXCEPT !.reserved = @ \ {b}]

Release(s, b) == [s EXCEPT !.reserved = @ \ {b}, !.confirmed = @ \ {b}]
==============================================================================
