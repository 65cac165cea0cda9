# Verification of the Arctic Express booking backend

TLA+ models of the booking backend in `src/`, the TLC runs that check them and the
TLAPS proofs about them. All paths below are relative to the repository root.

## 1. Inventory of the system

The program is one Go process. Clients (cargo owners, forwarders, the terminal, the
shipping company, customs, specialists) call an HTTP API; a scheduler goroutine runs
beside it; both work on one store.

| Component | Source | State | Operations |
|---|---|---|---|
| booking state machine | `internal/domain/booking.go`, `types.go`, `cargo.go` | state, documents, container, port, storage, bill, requeue count of a booking | `Transition`, `IsActive`, `CutoffCompliant`, `IsValidAt` |
| voyage space | `internal/domain/voyage.go` | two capacity pools, tentative `Holds` with deadlines, `Confirmed`, `Waitlist` | `AllocateHold`, `ConfirmSpace`, `ReleaseSpace`, `AddToWaitlist`, `RemoveFromWaitlist`, `ExpiredHolds`, `CanChangePort` |
| storage locations | `internal/domain/storage.go` | `Reserved`, `Confirmed`, capacity | `Reserve`, `Confirm`, `Release` |
| deposits | `internal/domain/deposit.go`, `internal/payment` | confirmed and refunded deposits, idempotency keys | `Refund`, `RefundInTx`, queries |
| booking service | `internal/booking/service.go` | none of its own | the lifecycle: create, documents, storage, space, deposit, customs, bill, confirm, cancel, change port, requeue; `rollback` and `promoteWaitlist`; the scheduler's two cancellations |
| voyage and storage services | `internal/voyage`, `internal/storage` | none | creation, queries |
| scheduler | `internal/scheduler` | the two lists of a pass | deposit timeouts, cutoff compliance |
| store | `internal/store` | all entities in memory, a JSON file | `Mutate`, `View`, load, save |
| HTTP layer | `internal/httpapi` | none | routes, decoding, status codes |
| process | `cmd/server` | configuration | wiring, start of scheduler and server, shutdown |

**Interaction.** Each service method is one `Store.Mutate` call: it takes the write lock,
clones all data, runs on the clone, saves the clone and publishes it; any error discards
it. The scheduler lists its candidates in a `View` (read lock) and then calls the booking
service once per candidate. So the units that interleave are whole service calls, the two
`View`s and the individual cancellations. That a `Mutate` may be taken as one step is a
property of the store, shown in module `Store`. What a method returns points into the data;
the handlers encode it when the lock is gone.

**What is hard.** Many bookings hold the same remaining slot and deposits decide
(`ConfirmSpace`); losers, rollbacks and promotions move bookings through a waitlist that
two cargo classes share; one call changes up to four entities and other bookings; the
scheduler acts on lists that are no longer true; errors of its cancellations are dropped;
customs rejections send bookings through the flow a second time with what they had. A save
can fail at every step, the process can die or be stopped in the middle of one, and an
answer can be lost after the call has committed.

**What makes each component correct.**
Pools are never oversold and space, storage, deposits and waitlist agree with the booking
states after every sequence of calls; waiting is first come first served; confirmed
bookings are final; containers and bills are exclusive; dangerous cargo leaves customs
only under documents in force; stale lists harm nobody who paid; deadlines are enforced
eventually. The store is atomic and durable up to what its callers were told; a refusal
changes nothing; a repeated call does nothing twice.

The complete list of hazards, each at its line, is in `PROJECT.json`.

## 2. The modules

| Module | Models | Extends |
|---|---|---|
| `BookingStates` | states, legal edges, cargo classes | |
| `VoyageSpace` | the `Voyage` aggregate, its methods as functions on a record | `BookingStates` |
| `StorageSlots` | the `StorageLocation` aggregate | (instantiated as `SL`) |
| `DepositLedger` | the deposits of one booking | |
| `BookingService` | all entities and every service call as an action, the queries | `VoyageSpace`, `DepositLedger` |
| `SlotCompetition` | abstract: players who hold, win, lose and queue for slots | |
| `BookingProps` | the properties of the service, its mapping to `SlotCompetition` | `BookingService` |
| `Scheduler` | the scheduler beside the API, with faults and fairness | `BookingProps` |
| `Api` | the endpoints, their refusals and answers, clients that repeat calls | `BookingProps` |
| `StoreData` | the data of the store, a transaction | |
| `AtomicStore` | abstract: one database, changed and read in single steps | `StoreData` |
| `Store` | locks, private copies, files, failing saves, restarts | `StoreData` |
| `MCBooking`, `MCScheduler`, `MCApi` | instances for TLC (`Store` needs none) | `BookingProps`, `Scheduler`, `Api` |
| `BookingProofs` | theorems: types; lemmas about the operators of `VoyageSpace` | `BookingProps` |
| `BookingSpaceProofs` | theorems: capacity, space | `BookingProofs` |
| `BookingLedgerProofs` | theorems: deposits, storage, documents, keys, deadlines, leftover holds, transitions, exclusiveness, finality | `BookingSpaceProofs` |
| `WaitlistProofs` | theorems: waitlists, their order, queries, the promotion loop | `BookingLedgerProofs` |
| `CompetitionProofs` | theorem: the service implements `SlotCompetition` | `WaitlistProofs` |
| `CallerProofs` | theorems: scheduler, HTTP clients | `Scheduler`, `Api`, `CompetitionProofs` |
| `AtomicStoreProofs`, `StoreProofs` | theorems: the store | `AtomicStore`, `Store` |

The modules meet at `Store.Mutate`. `Store` models what happens inside it for an arbitrary
transaction and shows that it is atomic; `BookingService` models what the transactions do
and takes each as one step; `Scheduler` and `Api` add the two callers.

**State.** `booking`, `voyage` and `storage` are the maps of `store.Data`; `deposit`
groups `Data.Deposits` by booking, in order of creation. `now` is the clock all services
share. A Go map is a function on all ids in which `NoSlot` (voyage) or absence from the
set (storage) stands for a missing key, and an id not yet handed out by `NextID` is a
record with state `"absent"`, no ports or no capacity.

**Actions.** One action per service method, enabled exactly when the method commits with a
change. A method that fails, or that answers from an earlier call (idempotency keys,
`Cancel` of a cancelled booking), changes nothing and is not a step. `PayDeposit` is two
actions, winner and loser of the race; `VerifyStorage` is two, general and dangerous
cargo. `M_` operators are deliberately wrong variants used only to test the properties.

**The promotion loop.** `promoteWaitlist` is written in closed form. The loop pops entries
that are not waitlisted or that it promotes, and stops at the first waiting entry whose
pool is full. Promotions create holds only and `CanAllocateHold` reads confirmed space
only, so one number `n` (`LoopStopsAt`) determines the result (`PromoteWaitlist`,
`Promoted`). The two error exits of the loop would need a waiting booking that has space;
`SpaceFollowsState`, which is proved, excludes them. `Loop` is the same loop with one
iteration per step and with its error exits, and `LoopIsClosedForm`, proved as well, says that
both agree in every reachable state. A waitlisted booking that is being
cancelled is itself a candidate of the loop, as in the code.

**AllocateSpace** has no waitlist branch because the code has none that can run: see
finding 1.

**Scheduler.** `phase` is the place of `Run`, `expired` and `overdue` are the lists not yet
worked off. `ReleaseExpired(b)` and `CancelOverdue(b)` call the service's action, or do
nothing if the booking has moved on. The lists are sets because Go iterates maps in any
order. `LoseCancellation` is a save that fails with its error ignored; `Restart` keeps the
store and loses the lists.

**Api.** `Calls` are the decoded requests. `Refusal(c)` is the error the service method
returns, its checks in the order of the code, `Replayed(c)` the early returns of calls
answered from what is there, `Status(c)` what `writeErr` or the handler sends. `LoseAnswer`
is a call that commits without its client learning so; `Retry` is the same call again, after
any number of other calls. `fresh` remembers whether anybody else did anything in between.
One client at a time is in this situation, any number one after the other.

**Store.** Data objects live on a heap, `live` is `Store.data` and `got` the pointers that
`View` callbacks took with them. A `Mutate` is `Lock` (with the clone), the puts of its
callback, `OpenTmp`, `WriteTmp`, `Rename`, `Publish`; `Fail` is an error of the callback or
of any step of `saveData`. The transaction is a representative one: it takes an id and puts
entities into two maps, so a torn, lost or doubled transaction can be told. `StopProcess`
may come between any two steps: the process is killed, or `main` returns, which it does as
soon as `ListenAndServe` returns and without waiting for `Shutdown` to drain the requests
(`src/cmd/server/main.go:148-156`). `Start` loads what the file holds. A transaction takes
effect with the rename: that is where `ImplementsAtomicStore` puts the step of the abstract
store.

**SlotCompetition** knows no maps, documents or stale entries: a player holds while there is
room, wins while there is room, otherwise waits behind all those who wait. Whoever gives up,
from whatever role, lets those who wait in, in order, until the first one there is no room
for. That a player without any space may trigger admissions is the code's doing: a waiting
booking that is cancelled blocks those behind it (finding 4), and they are let in by the next
rollback on the voyage, whosever it is. The order is a set of pairs (`ahead`), so no list
operator is needed to say it or to prove it kept. `RoleOf` reads the roles and `Order` the
pairs off the booking states and the entries of those who wait, while the service decides by
the voyage's maps and its raw waitlist.

**Abstractions.** The four cargo types become the two classes `IsDangerous` separates.
Amounts, names, owner and consignee ids (bound together with the bill), the history but for
the time of the last release by customs, timestamps nobody reads, and the port copied into a hold are left out; the times the
code compares (hold deadlines, cutoff, departure, certificate dates) are kept. Inputs that fail
before the transaction starts (missing owner, forwarder, packing list) are not modelled;
inputs refused by a condition on the data (capacity, cutoff after departure) are. Reading
the clock and scanning the data is one step of the scheduler: with an older time the list
of expired holds is a part of the modelled one. The list then ages for any number of
steps, which covers what happens between reading the clock and taking the lock.

**Bounds**, all named constants: `MaxTime` (clock), `MaxDeposits` (deposits per booking; a
booking that loses and is promoted again pays once more), `MaxRequeues`, `MaxFaults`,
`MaxStops`. The code bounds none of them.

## 3. What the runs show

Passing runs. The MCBooking and MCApi configurations set `CHECK_DEADLOCK FALSE`: with
finitely many ids and a bounded clock the clients may run out of calls, which is a legal
end; so does `store`, where every goroutine makes one call. The scheduler never stops, so
MCScheduler's runs check for deadlock. Symmetry (bookings, and in `race` and `mixed` the
containers and locations no request tells apart) is used for safety only.

| Run | Instance | Shows |
|---|---|---|
| `race` | 3 dangerous bookings, a voyage with 1 or 2 slots, two storage locations, one requeue each | `CapacityRespected`: no oversold pool. `SpaceFollowsState`, `WaitlistFollowsState`, `StorageFollowsState`, `StorageCapacityRespected`, `DepositFollowsState`: voyage, storage and deposits agree with the booking states, nothing leaks. `PaidDangerousIsReady`. `QueriesPredictCalls`: the capacity report and the deposit query say what the next call meets. `NoOvertaking`: first come first served. `OthersOnlyPromoted`: a call about one booking only ever promotes others. `TransitionsAreLegal`: the state table holds for everyone a call moves. `DepositsArePermanent`: no deposit is lost, rewritten or refunded at another time than its booking's space. `ImplementsSlotCompetition` (refinement) |
| `mixed` | 2 dangerous and 2 general bookings, 1 slot per class | one waitlist for two pools: `WaitlistFollowsState`; `HeadIsBlocked`: after every call, whoever heads a waitlist waits for a full pool; `LoopIsClosedForm`; `HoldsLeakFromWaitlistOnly`: holds are left behind here, and finding 3 is the only way; `ImplementsSlotCompetition` |
| `cutoff` | 2 dangerous bookings, clock 0..4, cutoff 2, departure 4, certificates that expire at 1 or start at 2, two ports, three containers, one bill, one requeue each | `TypeOK` with refused inputs. `ReleasedUnderValidCertificate`: what has left customs was inspected between the two dates of the certificate it carries. `OnlyRequeueShares`: exclusiveness of containers and bills is lost by requeueing only. `ConfirmedIsFinal` |
| `sched_timeouts` | 3 general bookings, clock 0..1, one fault | `PaidSurvivesTimeouts`: a deposit that beats the scheduler is safe. `DeadlinesStand`: nobody moves the deadline of a hold. `ImplementsBookingService` (refinement). `SchedTypeOK`: no list outlives its half of the pass |
| `sched_pass` | 1 dangerous, 1 general booking, clock 0..2, one requeue each, one fault | `OnlyDangerousOverdue`; liveness: `ExpiredHoldReleased`, `BreachIsResolved` |
| `api` | 2 bookings of one container, as dangerous or general cargo, keys for bookings and deposits, bills, refused inputs, clock 0..1, a port window that closes at 1, room for both cargo classes, one requeue each | `RetryIsHarmless`: a client without an answer may ask again. `RetryIsAnswered`: with a key, or about a cancellation, it learns the outcome. `RetryTellsOutcome`: repeated at once, any call is answered with a status that tells it was carried out. `KeysNameOne`: a key is never taken twice, by anybody. `ConfirmedIsFinal` |
| `store` | 3 transactions, 1 reader, 2 stops | `StoreOK`: mutual exclusion, and a file that can always be loaded. `OutcomesAreKept`: answered transactions survive restarts once and whole, failed ones leave no trace. `ImplementsAtomicStore` (refinement). `CallsReturn` (liveness): the lock is always given back |

*Why these bounds are enough to be interesting.* Three bookings on one slot give a winner,
a loser and a third who is promoted or keeps waiting; on two slots a release lets one of
them in. Four with two classes are needed for
an entry of one class behind a stuck entry of the other. One requeue lets a booking go
through every state twice, including with another storage location. Clock values lie
before, at and after each deadline in use. One fault per behaviour is enough to lose any
single cancellation or to restart at any point. Three writers give one transaction before,
one in the middle of and one after a stop; two stops interrupt one run and the run that
reloaded it. Two bookings of one container are enough for the endpoints, whose answers
depend on the booking itself, on one other (container, bill, key) or on a full pool. That two
containers may share a bill, and one container two bookings, is left to `cutoff`, which has
both.

*Fairness.* `FairSpec` adds weak fairness of `Pass`, one step of the scheduler goroutine:
the ticker keeps firing and Go's mutex does not starve a waiting goroutine. Nothing is
assumed of clients or of the clock. Faults are finitely many, since a store that can never
save can never release anything. `ExpiredHoldReleased` and `BreachIsResolved` say the bad
condition does not persist, not that it cannot come back: a promotion after the clock has
stopped creates a new hold with a new deadline. `FairSpec` of `Store` assumes weak fairness
of every goroutine that can take a step; each makes one call, so a writer cannot starve a
reader, as Go's `RWMutex` promises. Nothing is assumed of the process being started again:
`CallsReturn` counts a call that dies with its process as ended.

### Findings

Each is a run that expects a violation of one property.

1. **`v_allocate`, a full pool does not lead to the waitlist.** `AllocateHold`
   (`src/internal/domain/voyage.go:114`) wraps `ErrNoCapacity` with `%v`, so `errors.Is`
   in `AllocateSpace` fails and the call returns an error. The comment at
   `src/internal/booking/service.go:191-192` promises the waitlist. Counterexample: one
   booking pays for the only slot, another one is verified and is stuck there.
2. **`v_container`, two active bookings of one container.** A is rejected by customs and
   under review, so B may be created with the same container; then `Requeue`
   (`service.go:499`) makes A active again. `service.go:51` says a container "may only
   belong to one active booking".
3. **`v_cancelled`, a cancelled booking keeps a hold.** `Cancel` (`service.go:454`)
   promotes from the waitlist before it changes the state of the booking, so a waitlisted
   booking whose pool has room but which was stuck behind another class is promoted by
   its own cancellation, and cancelled with its hold. The hold is never removed: the
   scheduler lists it in every pass and skips it because of the state.
   `HoldsLeakFromWaitlistOnly`, which is proved, says that nothing else leaves a hold behind.
4. **`v_blocked`, those behind a cancelled booking are not served.** The same order of steps in
   `Cancel` seen from the others: when the waiting booking that is cancelled heads the list and
   its pool is full, `promoteWaitlist` stops in front of it (`service.go:627`), and nothing
   promotes again once it has left. The booking behind it, of the other class, stays on the
   list although its pool has room, until some other call releases space. `service.go:614-615`
   says that promotion goes on "while capacity is available". The theorem `OnlyCancelledBlocks`
   says that nothing else does this: in every such state a cancelled booking of the other class
   heads the list.
5. **`v_expired`, a fresh hold is cancelled for a deadline that passed earlier.**
   `CheckDepositTimeouts` (`src/internal/scheduler/scheduler.go:65`) lists a booking; the
   booking loses the deposit race, is promoted again with a new deadline, and
   `CancelExpiredHold` only looks at its state. `DeadlinesStand`, which is proved, bounds it: as
   long as a listed booking keeps its hold its deadline stays where it was, so only a hold made
   anew can be hit.

Other differences that were noted and have no run: `BindBill` ignores confirmed bookings,
so a container can get a second bill on the same voyage (`README.md:15`); promotion stops
at the head of the list, not at "the first eligible" booking (`service.go:595`); general
cargo is requeued to `initiated`, not to docs-submitted (`service.go:496-498`); nothing
checks that storage was locked before the cutoff threshold (`README.md:11-12`); losers are
not "offered the next voyage" (`README.md:19`); a listed breach that has been made good by the
time its booking is cancelled, because the certificate has become valid or the booking is back
after a rejection, is cancelled all the same (`service.go:573-574` says "bookings that breach
the cutoff threshold"); `Cancel` of a booking in `pending_review`
(`service.go:449`) answers with OK and changes nothing, so a specialist may requeue it, where
`service.go:441` says that it "marks the booking cancelled"; `VerifyStorage` of general cargo commits and
returns a nil booking that the handler dereferences, so its client gets no answer
(`handler.go:254`, `Aborted` in `Api`).

## 4. What is proved

For any number of bookings (finite), voyages, locations and requests, any capacities,
durations and bounds. Assumptions: `BookingsFinite`, `ConfigAssumption`,
`InputAssumption` (the shape of requests), `NoneAssumption` (the empty string names
nothing), `FaultAssumption`, and for the store `NamesAssumption` (goroutines and objects have
names of their own) and `StopsAssumption`; TLC evaluates each of them.

- `TypeCorrect`: `Spec => []TypeOK`. Inductive invariant `TypeInv == TypeOK /\ Placed`:
  without `Placed` (an existing booking names a voyage and a class) the type of the voyage
  a call updates would not follow.
- `CapacityIsRespected`: `Spec => []CapacityRespected`. Inductive together with `TypeInv`.
  Only `PayAndWin` adds to a pool, by at most one and only below capacity
  (`PoolGrowsByOne`); every other call leaves pools alone or shrinks them
  (`PoolMonotone`).
- `SpaceFollowsBookings`: `Spec => []SpaceFollowsState`. Not inductive as it stands.
  `SpaceInv` adds `ListedHere` (the entries of a waitlist are existing bookings of that
  voyage: a promotion of a stranger would give it space on the wrong voyage) and `Sails`
  (a booking's voyage exists: a newly created voyage would otherwise wipe space its
  bookings have). Consequence: the error exits of `PayDeposit` and `promoteWaitlist` that
  concern missing or double holds are never taken.
- `DepositsFollowBookings`: `Spec => []DepositFollowsState`, inductive with `TypeInv`. The work
  is in two lemmas about a ledger: `AddDeposit` adds its index or none to the confirmed ones
  (`AddDepositCounts`), `RefundInTx` takes exactly one away if there is one (`RefundCounts`).
- `StorageFollowsBookings`, `StorageIsNotOverbooked`: the two halves of `StorageInv`. They need
  each other: a location created anew would wipe the slots of bookings unless one without
  capacity has none (`NoSlotsYet`).
- `PaidDangerousIsAlwaysReady`: not inductive, since the documents are checked long before the
  deposit. `Prepared` says what a dangerous booking has at every stage in between: papers from
  `docs_submitted` on, also in a second pass, a locked slot from `storage_verified` on. With
  `StorageInv` it gives the property.
- `ReleasedUnderCertificate`: `Spec => []ReleasedUnderValidCertificate`. `released` is the time of
  the last release in the booking's history, so the invariant compares the inspection with both
  dates of the certificate the booking carries now. It is inductive with `TypeInv`: of the calls
  that leave a booking released or confirmed, none but `CustomsRelease` touches the certificate
  or the time (`Moves`, `BillEffect`, `ReleaseEffect`), and whatever replaces a certificate needs
  a booking back at its start.
- `OnlyRequeuedShare`: inductive with `TypeInv`; by symmetry only the pairs with the booking a
  call is about have to be looked at (`ShareByOne`), and `Create` and `BindBill` look at all
  active ones.
- `WaitlistFollowsBookings`, `HeadsAreBlocked`: with `SpaceInv`. The calls fall into four kinds
  (`QueueCases`): those that change no list and free no slot, a new voyage, a loser that joins,
  a rollback that drops the first n entries. That a loser joins behind a full pool needs
  `SpaceFollowsState`; that a rollback removes all whom it promotes needs that nobody is
  listed twice.
- `ConfirmedBookingsAreFinal`, `OthersAreOnlyPromoted`, `NobodyOvertakes` (action properties)
  follow step by step from these invariants. `OthersOnlyPromoted` names the booking a call is
  about, so it is false when there is none to name and the clock ticks: the theorem asks for
  `Bookings # {}` and nothing else.
- `OnlyCancelledBlocks`: bounds finding 4, from `WaitlistFollowsState` and `HeadIsBlocked`.
- `EveryTransitionIsLegal`: `Spec => TransitionsAreLegal`. The booking a call is about takes one
  edge or two (`CallsTurn`); the ones it promotes take the edge from `waitlisted`.
- `DepositsStayOnRecord`: `Spec => DepositsArePermanent`, with `DepositFollowsState`: a refund hits
  the confirmed deposit (`RefundChangesOne`), and there is one exactly while the booking is paid.
- `KeysAreUnique`: `Spec => []KeysNameOne`. Inductive with `TypeInv`, because refunds keep the keys
  and both lookups see all bookings, the cancelled ones included.
- `DeadlinesDoNotMove`, `OnlyWaitersLeakHolds`: action properties from `SpaceInv`. A promotion
  writes holds of waiting bookings only, and those have none; a rollback releases the space
  first, so what is left in the end was promoted in between, out of the waitlist.
- `QueriesAreRight`: `Spec => []QueriesPredictCalls` from `SpaceInv`, `DepositFollowsState`,
  `WaitlistFollowsState` and `HeadIsBlocked`. `MayAllocate` names the guard of `AllocateSpace`,
  so that the property can be stated without `ENABLED`.
- `LoopHasClosedForm`: `Spec => []LoopIsClosedForm`, from `SpaceInv` (no waiting booking has
  space, so the error exits are dead). The induction over the iterations is done without the
  induction theorems: `LoopState` says where the loop is after i iterations, `OneIteration`
  that one iteration leads from one to the next, and two solutions of the loop's recursion
  that differ would differ first somewhere (`LeastNatural`, from the well-foundedness of the
  finite sets), which no iteration allows (`LoopSolved`). `OneStop`: there is one stuck entry
  to stop at, or the end.
- `ServiceImplementsCompetition`: `Spec => ImplementsSlotCompetition`. `CompetitionInv` is
  `SpaceInv`, `WaitlistFollowsState` and `Blank` (an id not handed out names no voyage: the
  abstract player enters once). The winners of a class are the confirmed pool
  (`WinnersArePool`), so room is room; `AllocateSpace`, the two outcomes of `PayDeposit` and
  the four rollbacks are `Hold`, `Win`, `Lose` and `Leave`, all other calls stutter or open
  and enter. For `Leave` the admitted are the waiting bookings among the first n entries
  (`Places`, `RollbackAdmits`), and those who keep waiting keep their order (`RollbackOrder`).
- `SchedulerImplementsService`: every step of the system with the scheduler is a step of
  the booking service or leaves the entities alone. So `SchedulerKeepsInvariants` and
  `SchedulerKeepsPromises` carry everything above over.
- `PaidIsSafe`: `SchedSpec => PaidSurvivesTimeouts`, from `TypeInv` and the fact that a
  rollback changes only its own booking and waiting ones. `OnlyDangerousIsCancelled` needs
  that the list names dangerous cargo (`OverdueIsDangerous`) and that a booking keeps its
  cargo for good, however old the list is. `ListsBelongToPass` is inductive by itself.
- `ApiImplementsService`: `ApiSpec => Spec`, with the invariant that a lost answer is the answer
  of a call (`LostIsCall`). `ApiKeepsPromises` carries everything above over.
- `RetriesAreHarmless`: `ApiSpec => RetryIsHarmless`. Two invariants remember what the lost
  call did: what it created or cancelled is there for good (`LostIsKept`, `Remembered`), and while
  nobody else has done anything its booking is where the call left it (`Done`), so that repeating
  it is refused, answered from the record, or writes what is there already.
- `RetriesAreAnswered`: `ApiSpec => []RetryIsAnswered`, from the first of the two.
- `RetriesTellOutcome`: `ApiSpec => []RetryTellsOutcome`. With `Done`, which also remembers that a
  bill or a port is still free for the booking, and `SpaceInv`, which says that a booking's voyage
  exists. `MovedOnRefuses` is the core: after any call of the lifecycle, the check of the state
  is the first that fails, whatever the call has used up.

- `StoreIsSound`: `Spec => []StoreOK` for the store. `StoreInv` adds what the steps leave
  behind: the writer's copy holds the published data plus the puts done so far, the live
  data is what the file holds except between rename and publication, and objects that
  readers or the live pointer lead to are not written.
- `StoreIsAtomic`: `Spec => ImplementsAtomicStore`, by the mapping of section 2: `Rename` is
  the abstract commit, `RLock` the read, every other step of a call is a stutter, an answer
  or a refusal.
- `OutcomesHold`: `Spec => []OutcomesAreKept`. It is a property of the abstract store
  (`AtomicStoreProofs`), carried over by the refinement.

Only model-checked: the liveness properties (`ExpiredHoldReleased`, `BreachIsResolved`,
`CallsReturn`), which are out of TLAPS' reach. Every invariant, every action property and the
three refinements the runs check are proved. The refuted properties are refuted by their runs.

## 5. Not modelled

- A machine that loses power. `saveData` syncs neither the file nor its directory, and
  `load` takes an empty file for an empty store, so what a file system then shows is beyond
  what the code controls; `StopProcess` stops the process only.
- `payment.Service.Refund`: no route and no other code calls it. It would leave a booking
  paid without a deposit.
- JSON (a Go map that was encoded as `null` comes back as an empty one, see `ensureMaps`),
  undecodable or incomplete requests, which are refused before any data is looked at.
- Parsing the configuration. The model assumes what `loadConfig` does not check: durations
  that are not negative and a scheduler interval above zero.
- The GET endpoints beyond the capacity report and the deposit query: they copy entities.

## 6. Plan

The two repairs of `Cancel` (findings 3 and 4) as variants of `RollbackTo`, to see which of the
refuted properties they would restore. (That every promotion needs a release on the same voyage
needs no history variable: `SlotCompetition` admits in `Leave` only, and the service is proved
to implement it.)
