----------------------------- MODULE StoreData -------------------------------
(***************************************************************************)
(* The aggregate Data of internal/store/store.go, reduced to its id        *)
(* counter and two of its maps.  An entity is the name of the transaction  *)
(* that put it there: enough to tell lost, doubled, overwritten and half   *)
(* written transactions from whole ones.                                   *)
(***************************************************************************)
EXTENDS Naturals

CONSTANT Writers   \* the goroutines that call Mutate, once each

NewData == [counter |-> 0, bookings |-> <<>>, deposits |-> <<>>]

\* Tx.PutBooking and Tx.PutDeposit: an entity already under this id is replaced.
PutEntity(map, id, w) ==
  [i \in DOMAIN map \cup {id} |-> IF i = id THEN w ELSE map[i]]

NextID(d) == [d EXCEPT !.counter = @ + 1]

\* The transaction all writers run, in two steps that touch one map each: take
\* an id and put a booking under it, then put a deposit under the same id.
PutBooking(d, w) ==
  LET e == NextID(d) IN [e EXCEPT !.bookings = PutEntity(@, e.counter, w)]

PutDeposit(d, w) == [d EXCEPT !.deposits = PutEntity(@, d.counter, w)]

Transaction(d, w) == PutDeposit(PutBooking(d, w), w)

Owns(w, map) == {i \in DOMAIN map : map[i] = w}
==============================================================================
