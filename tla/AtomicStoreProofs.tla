------------------------- MODULE AtomicStoreProofs ---------------------------
(***************************************************************************)
(* What the abstract store does to the ids and owners in its database: the *)
(* facts behind OutcomesAreKept, proved where a transaction is one step.   *)
(* StoreProofs carries them over to the steps of the store.                *)
(***************************************************************************)
EXTENDS AtomicStore, TLAPS

Outcomes == {"open", "applied", "answered", "refused", "unknown"}

Holdings(w) == Owns(w, db.bookings)

\* Both maps agree, no id is ahead of the counter, and what a writer owns
\* follows from what became of its transaction.
Ledger ==
  /\ db = [counter |-> db.counter, bookings |-> db.bookings, deposits |-> db.deposits]
  /\ db.counter \in Nat
  /\ db.bookings = db.deposits
  /\ \A i \in DOMAIN db.bookings : i \in Nat /\ i <= db.counter
  /\ outcome \in [Writers -> Outcomes]
  /\ \A w \in Writers : \A i, j \in Holdings(w) : i = j
  /\ \A w \in Writers : outcome[w] \in {"open", "refused"} => Holdings(w) = {}
  /\ \A w \in Writers : outcome[w] \in {"applied", "answered"} => Holdings(w) # {}

\* What a transaction makes of a Data, field by field.
LEMMA TransactionFields ==
  ASSUME NEW d, NEW w,
         d = [counter |-> d.counter, bookings |-> d.bookings, deposits |-> d.deposits]
  PROVE  Transaction(d, w) =
           [counter  |-> d.counter + 1,
            bookings |-> PutEntity(d.bookings, d.counter + 1, w),
            deposits |-> PutEntity(d.deposits, d.counter + 1, w)]
<1> DEFINE half == [counter  |-> d.counter + 1,
                    bookings |-> PutEntity(d.bookings, d.counter + 1, w),
                    deposits |-> d.deposits]
<1> DEFINE numbered == [counter  |-> d.counter + 1,
                        bookings |-> d.bookings,
                        deposits |-> d.deposits]
<1>0. NextID(d) = numbered
  BY DEF NextID
<1>1. PutBooking(d, w) = half
  <2>1. /\ numbered.counter = d.counter + 1
        /\ numbered.bookings = d.bookings
        /\ numbered.deposits = d.deposits
    OBVIOUS
  <2>2. PutBooking(d, w) =
          [numbered EXCEPT !.bookings = PutEntity(d.bookings, d.counter + 1, w)]
    BY <1>0, <2>1 DEF PutBooking
  <2> QED
    BY <2>1, <2>2
<1>2. PutDeposit(half, w) =
        [half EXCEPT !.deposits = PutEntity(half.deposits, half.counter, w)]
  BY DEF PutDeposit
<1>3. half.deposits = d.deposits /\ half.counter = d.counter + 1
  OBVIOUS
<1> QED
  BY <1>1, <1>2, <1>3 DEF Transaction

\* The empty database.
LEMMA LedgerInit == Init => Ledger
BY DEF Init, Ledger, Holdings, Owns, NewData, Outcomes

\* A commit puts one entity under an id nobody has, in both maps.
LEMMA LedgerCommit ==
  ASSUME Ledger, NEW w \in Writers, Commit(w)
  PROVE  Ledger'
<1> DEFINE id == db.counter + 1
<1>1. db' = [counter  |-> id,
             bookings |-> PutEntity(db.bookings, id, w),
             deposits |-> PutEntity(db.deposits, id, w)]
  BY TransactionFields DEF Ledger, Commit
<1>2. /\ db'.counter = id
      /\ db'.bookings = PutEntity(db.bookings, id, w)
      /\ db'.deposits = PutEntity(db.deposits, id, w)
  BY <1>1
<1>3. db' = [counter |-> db'.counter, bookings |-> db'.bookings, deposits |-> db'.deposits]
  BY <1>1, <1>2
<1>4. id \in Nat /\ id \notin DOMAIN db.bookings
  BY DEF Ledger
<1>5. /\ DOMAIN db'.bookings = DOMAIN db.bookings \cup {id}
      /\ \A i \in DOMAIN db.bookings : db'.bookings[i] = db.bookings[i]
      /\ db'.bookings[id] = w
  BY <1>2, <1>4 DEF PutEntity
<1>6. \A v \in Writers : Holdings(v)' = IF v = w THEN Holdings(v) \cup {id} ELSE Holdings(v)
  BY <1>4, <1>5 DEF Holdings, Owns
<1>7. Holdings(w) = {} /\ outcome[w] = "open"
  BY DEF Ledger, Commit
<1>8. outcome' = [outcome EXCEPT ![w] = "applied"]
  BY DEF Commit
<1>9. \A i \in DOMAIN db'.bookings : i \in Nat /\ i <= db'.counter
  BY <1>2, <1>4, <1>5 DEF Ledger
<1>10. db'.counter \in Nat /\ db'.bookings = db'.deposits
  BY <1>2, <1>4 DEF Ledger
<1>11. outcome' \in [Writers -> Outcomes]
  BY <1>8 DEF Ledger, Outcomes
<1>12. \A v \in Writers : \A i, j \in Holdings(v)' : i = j
  BY <1>6, <1>7 DEF Ledger
<1>13. \A v \in Writers : outcome'[v] \in {"open", "refused"} => Holdings(v)' = {}
  BY <1>6, <1>7, <1>8 DEF Ledger
<1>14. \A v \in Writers : outcome'[v] \in {"applied", "answered"} => Holdings(v)' # {}
  BY <1>6, <1>7, <1>8 DEF Ledger
<1> QED
  BY <1>3, <1>9, <1>10, <1>11, <1>12, <1>13, <1>14 DEF Ledger

\* The other steps leave the database alone and close no outcome the wrong way.
LEMMA LedgerKept ==
  ASSUME Ledger,
         \/ \E w \in Writers : Answer(w) \/ Refuse(w)
         \/ \E r \in Readers : Read(r) \/ Finish(r)
         \/ Stop
         \/ UNCHANGED vars
  PROVE  Ledger'
<1>1. db' = db
  BY DEF Answer, Refuse, Read, Finish, Stop, vars
<1>2. \A w \in Writers : Holdings(w)' = Holdings(w)
  BY <1>1 DEF Holdings, Owns
<1>3. /\ outcome' \in [Writers -> Outcomes]
      /\ \A w \in Writers : \/ outcome'[w] = outcome[w]
                            \/ outcome[w] = "applied" /\ outcome'[w] = "answered"
                            \/ outcome[w] = "open" /\ outcome'[w] = "refused"
                            \/ outcome'[w] = "unknown"
  BY DEF Ledger, Outcomes, Answer, Refuse, Read, Finish, Stop, vars
<1> QED
  BY <1>1, <1>2, <1>3 DEF Ledger

\* Every step of the store keeps the ledger.
LEMMA LedgerStep == Ledger /\ [Next]_vars => Ledger'
<1> SUFFICES ASSUME Ledger, [Next]_vars
             PROVE  Ledger'
  OBVIOUS
<1>1. CASE \E w \in Writers : Commit(w)
  BY <1>1, LedgerCommit
<1>2. CASE ~ \E w \in Writers : Commit(w)
  BY <1>2, LedgerKept DEF Next
<1> QED
  BY <1>1, <1>2
==============================================================================
