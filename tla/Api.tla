--------------------------------- MODULE Api ----------------------------------
(***************************************************************************)
(* The HTTP layer of internal/httpapi on top of the booking service: which *)
(* calls there are, how each is answered, and clients who do not receive   *)
(* an answer and repeat the call, at once or much later.                   *)
(*                                                                         *)
(* A call that is refused, or answered from what an earlier call did,      *)
(* changes nothing; only its answer is modelled.  Malformed requests,      *)
(* refused before any service is called, are left out.                     *)
(***************************************************************************)
EXTENDS BookingProps

VARIABLES
  lost,     \* the committed call whose client waits to repeat it, or None
  fresh     \* nothing but time has changed anything since it committed

client == <<lost, fresh>>
apiVars == <<vars, client>>

\* The request bodies and path ids of the endpoints that change something.
Calls ==
  [op: {"createBooking"}, req: Requests]
    \cup [op: {"submitDocuments"}, b: Bookings, cert: Certificates \cup {None}]
    \cup [op: {"verifyStorage"}, b: Bookings, s: Locations]
    \cup [op: {"payDeposit"}, b: Bookings, key: DepositKeys \cup {None}]
    \cup [op: {"bindBill"}, b: Bookings, bill: Bills]
    \cup [op: {"changePort"}, b: Bookings, port: Ports]
    \cup [op: {"allocateSpace", "customsRelease", "customsReject", "confirmBooking",
               "cancelBooking", "requeueBooking"}, b: Bookings]
    \cup [op: {"createVoyage"}, req: VoyageRequests]
    \cup [op: {"createStorageLocation"}, capacity: StorageCapacities]

\* What a call does when the service commits.
Commit(c) ==
  \/ c.op = "createBooking" /\ \E b \in Bookings : Create(b, c.req)
  \/ c.op = "submitDocuments" /\ SubmitDocuments(c.b, c.cert)
  \/ c.op = "verifyStorage" /\ (VerifyGeneral(c.b) \/ VerifyDangerous(c.b, c.s))
  \/ c.op = "allocateSpace" /\ AllocateSpace(c.b)
  \/ c.op = "payDeposit" /\ (PayAndWin(c.b, c.key) \/ PayAndLose(c.b, c.key))
  \/ c.op = "customsRelease" /\ CustomsRelease(c.b)
  \/ c.op = "customsReject" /\ CustomsReject(c.b)
  \/ c.op = "confirmBooking" /\ Confirm(c.b)
  \/ c.op = "cancelBooking" /\ Cancel(c.b)
  \/ c.op = "changePort" /\ ChangePort(c.b, c.port)
  \/ c.op = "bindBill" /\ BindBill(c.b, c.bill)
  \/ c.op = "requeueBooking" /\ Requeue(c.b)
  \/ c.op = "createVoyage" /\ \E v \in Voyages : CreateVoyage(v, c.req)
  \/ c.op = "createStorageLocation" /\ \E s \in Locations : CreateStorage(s, c.capacity)
------------------------------------------------------------------------------
(* Refusals: the error each service method returns, or Fine, its checks in *)
(* the order of the code.                                                  *)

Fine == "fine"

\* if err := ...; err != nil { return err }, followed by the rest.
Check(ok, err, rest) == IF ok THEN rest ELSE err

Found(b, rest) == Check(Exists(b), "ErrNotFound", rest)

InState(b, states, rest) == Found(b, Check(StateOf(b) \in states, "ErrInvalidState", rest))

CreateRefusal(req) ==
  Check(VoyageExists(req.voyage), "ErrNotFound",
  Check(req.port \in voyage[req.voyage].ports, "ErrConflict",
  Check(ContainerFree(req.container), "ErrConflict", Fine)))

DocumentsRefusal(b, cert) ==
  Found(b,
  Check(DocumentsSuffice(booking[b].kind, cert), "ErrMissingDocs",
  Check(Legal(b, "docs_submitted"), "ErrInvalidState", Fine)))

M_StorageRefusal(b, s) ==
  Found(b,
  Check(LocationExists(s), "ErrNotFound",
  Check(b \notin storage[s].reserved \cup storage[s].confirmed, "ErrAlreadyReserved",
  InState(b, {"docs_submitted"}, Fine))))

StorageRefusal(b, s) ==
  InState(b, {"docs_submitted"},
  IF ~IsDangerous(booking[b].kind) THEN Fine
  ELSE Check(LocationExists(s), "ErrNotFound",
       Check(b \notin storage[s].reserved \cup storage[s].confirmed, "ErrAlreadyReserved",
       Check(SL!CanReserve(storage[s]), "ErrNoCapacity", Fine))))

\* The last error hides the ErrNoCapacity it was made from.
SpaceRefusal(b) ==
  InState(b, {"storage_verified"},
  Check(voyage[VoyageOf(b)].holds[b] = NoSlot, "ErrAlreadyAllocated",
  Check(voyage[VoyageOf(b)].confirmed[b] = NoSlot, "ErrAlreadyConfirmed",
  Check(CanAllocateHold(voyage[VoyageOf(b)], booking[b].kind), "no capacity left", Fine))))

DepositRefusal(b) ==
  InState(b, {"space_allocated"},
  Check(voyage[VoyageOf(b)].holds[b] # NoSlot, "ErrNoHold", Fine))

ReleaseRefusal(b) ==
  InState(b, {"deposit_paid"},
  Check(CutoffCompliant(b), "ErrMissingDocs",
  Check(IsDangerous(booking[b].kind) => ValidAt(booking[b].cert, now), "ErrMissingDocs",
  Check(booking[b].packing, "ErrMissingDocs", Fine))))

BillRefusal(b, bill) ==
  LET others == {o \in Bookings \ {b} : Active(o)} IN
  Found(b,
  Check(\A o \in others : booking[o].container = booking[b].container
                            => booking[o].bill = None, "ErrConflict",
  Check(\A o \in others : booking[o].bill # bill, "ErrConflict", Fine)))

ConfirmRefusal(b) ==
  InState(b, {"customs_released"}, Check(booking[b].bill # None, "ErrMissingDocs", Fine))

\* The transition is what refuses, after the rollback.
CancelRefusal(b) == Found(b, Check(Legal(b, "cancelled"), "ErrInvalidState", Fine))

PortRefusal(b, port) ==
  Found(b,
  Check(CanChangePort(voyage[VoyageOf(b)], now, PortChangeWindow), "ErrWindowClosed",
  Check(port \in voyage[VoyageOf(b)].ports, "ErrConflict", Fine)))

VoyageRefusal(req) ==
  Check(req.cutoff < req.departure, "cutoff must be before departure",
  Check(req.ports # {}, "at least one destination port is required",
  Check(\A k \in Kinds : req.capacity[k] >= 0, "capacity must be non-negative", Fine)))

LocationRefusal(capacity) == Check(capacity > 0, "capacity must be positive", Fine)

Refusal(c) ==
  CASE c.op = "createBooking"         -> CreateRefusal(c.req)
    [] c.op = "submitDocuments"       -> DocumentsRefusal(c.b, c.cert)
    [] c.op = "verifyStorage"         -> StorageRefusal(c.b, c.s)
    [] c.op = "allocateSpace"         -> SpaceRefusal(c.b)
    [] c.op = "payDeposit"            -> DepositRefusal(c.b)
    [] c.op = "customsRelease"        -> ReleaseRefusal(c.b)
    [] c.op = "customsReject"         -> InState(c.b, {"customs_released", "deposit_paid"}, Fine)
    [] c.op = "confirmBooking"        -> ConfirmRefusal(c.b)
    [] c.op = "cancelBooking"         -> CancelRefusal(c.b)
    [] c.op = "changePort"            -> PortRefusal(c.b, c.port)
    [] c.op = "bindBill"              -> BillRefusal(c.b, c.bill)
    [] c.op = "requeueBooking"        -> InState(c.b, {"pending_review"}, Fine)
    [] c.op = "createVoyage"          -> VoyageRefusal(c.req)
    [] c.op = "createStorageLocation" -> LocationRefusal(c.capacity)
------------------------------------------------------------------------------
(* Answers. *)

\* Calls answered from what is there already, before anything is checked.
Replayed(c) ==
  \/ c.op = "createBooking" /\ ~NewBookingKey(c.req.key)
  \/ c.op = "payDeposit" /\ ~NewDepositKey(c.key)
  \/ c.op = "cancelBooking" /\ StateOf(c.b) \in {"cancelled", "pending_review"}

\* The service answers with a nil booking, which the handler dereferences: the
\* connection is closed without an answer, although the call has committed.
Aborted(c) == c.op = "verifyStorage" /\ ~IsDangerous(booking[c.b].kind)

\* writeErr.
StatusOf(err) ==
  CASE err = "ErrNotFound" -> 404
    [] err \in {"ErrInvalidState", "ErrWindowClosed", "ErrMissingDocs"} -> 422
    [] err \in {"ErrConflict", "ErrNoCapacity", "ErrAlreadyAllocated",
                "ErrAlreadyConfirmed", "ErrAlreadyReserved"} -> 409
    [] OTHER -> 400

NoAnswer == 0

Status(c) ==
  LET done == IF c.op \in {"createBooking", "createVoyage", "createStorageLocation"}
              THEN 201 ELSE 200
  IN
  IF Replayed(c) THEN done
  ELSE IF Refusal(c) # Fine THEN StatusOf(Refusal(c))
  ELSE IF Aborted(c) THEN NoAnswer ELSE done

------------------------------------------------------------------------------
(* Clients, the clock and the scheduler. *)

ApiInit ==
  /\ Init
  /\ lost = None
  /\ fresh = TRUE

\* Somebody else has changed something since the lost answer.
Disturb == fresh' = (lost = None) /\ UNCHANGED lost

Serve(c) == Commit(c) /\ Disturb

\* The call commits and its answer does not arrive: the connection breaks, the
\* write timeout passes, or the process is stopped.  One client at a time gets
\* into this, any number one after the other.  Voyages and storage locations
\* are left out: repeating their creation simply creates another one.
LoseAnswer(c) ==
  /\ lost = None
  /\ c.op \notin {"createVoyage", "createStorageLocation"}
  /\ Commit(c)
  /\ lost' = c
  /\ fresh' = TRUE

Accepted(c) == ~Replayed(c) /\ Refusal(c) = Fine

\* The client repeats its call.
Retry ==
  /\ lost # None
  /\ Commit(lost) \/ (~Accepted(lost) /\ UNCHANGED vars)
  /\ lost' = None
  /\ fresh' = TRUE

TimePasses == Tick /\ UNCHANGED client

Background ==
  /\ \E b \in Bookings : CancelExpiredHold(b) \/ CancelForCutoffNonCompliance(b)
  /\ Disturb

ApiNext ==
  \/ \E c \in Calls : Serve(c) \/ LoseAnswer(c)
  \/ Retry
  \/ TimePasses
  \/ Background

ApiSpec == ApiInit /\ [][ApiNext]_apiVars
------------------------------------------------------------------------------
(* Properties. *)

Keyed(c) ==
  \/ c.op = "createBooking" /\ c.req.key # None
  \/ c.op = "payDeposit" /\ c.key # None

entities == <<booking, voyage, storage, deposit>>

\* A client that got no answer may ask again.  With an idempotency key it may do
\* so at any later time, after cancellations, rejections and second passes too;
\* without one, as long as nobody else has done anything.
RetryIsHarmless ==
  [][Retry /\ (fresh \/ Keyed(lost)) => entities' = entities]_apiVars

\* What the answer to a repeated call shows: the booking or deposit found by the
\* key is the one this call made, a cancelled booking is the one it cancelled.
ShowsItsEffect(c) ==
  /\ c.op = "createBooking" =>
       \E b \in Bookings :
         /\ booking[b].key = c.req.key
         /\ booking[b].voyage = c.req.voyage
         /\ booking[b].container = c.req.container
         /\ booking[b].kind = c.req.kind
  /\ c.op = "payDeposit" => \E i \in DOMAIN deposit[c.b] : deposit[c.b][i].key = c.key
  /\ c.op = "cancelBooking" => StateOf(c.b) = "cancelled"

\* A client that got no answer to a call with a key, or to a cancellation, can
\* always learn the outcome by asking again: the call is answered with success
\* and with its own result, whatever others and the scheduler have done since.
RetryIsAnswered ==
  lost # None /\ (Keyed(lost) \/ lost.op = "cancelBooking") =>
    Replayed(lost) /\ ShowsItsEffect(lost)

\* A client that repeats its call at once can tell from the status that the call had
\* been carried out: it gets a success, or 422 because its booking has moved on (or
\* the window for port changes has closed since), or, for a creation without a key,
\* 409 because the container is its own by now.  No service looks at anything its
\* own call has used up before it looks at the state: the client is never told that
\* the slot it took itself is gone.
RetryTellsOutcome ==
  lost # None /\ fresh =>
    Status(lost) \in
      CASE Keyed(lost) \/ lost.op \in {"cancelBooking", "bindBill"} -> {200, 201}
        [] ~Keyed(lost) /\ lost.op = "createBooking"                -> {409}
        [] lost.op = "changePort"                                  -> {200, 422}
        [] OTHER                                                   -> {422}
==============================================================================
