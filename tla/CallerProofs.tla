----------------------------- MODULE CallerProofs -----------------------------
(***************************************************************************)
(* Proofs about those who call the booking service: the scheduler with its *)
(* stale lists, and HTTP clients who do not get their answers.  Every step *)
(* of either is a step of the service or leaves its entities alone, so     *)
(* whatever is proved of the service holds beside them.                    *)
(***************************************************************************)
EXTENDS Scheduler, Api, CompetitionProofs

------------------------------------------------------------------------------
(* The scheduler. *)

\* One step of the composed system, seen from the booking service.
LEMMA StepRefines == [SchedNext]_allVars => [Next]_vars
<1> SUFFICES ASSUME [SchedNext]_allVars PROVE [Next]_vars
  OBVIOUS
<1>1. CASE (Tick \/ ApiStep) /\ UNCHANGED scheduler
  BY <1>1 DEF Next
<1>2. CASE ScanTimeouts \/ ScanCompliance \/ Sleep \/ Restart
  BY <1>2 DEF ScanTimeouts, ScanCompliance, Sleep, Restart
<1>3. ASSUME NEW b \in Bookings, ReleaseExpired(b)
      PROVE  [Next]_vars
  BY <1>3 DEF ReleaseExpired, Next
<1>4. ASSUME NEW b \in Bookings, CancelOverdue(b)
      PROVE  [Next]_vars
  BY <1>4 DEF CancelOverdue, Next
<1>5. ASSUME NEW b \in Bookings, LoseCancellation(b)
      PROVE  [Next]_vars
  BY <1>5 DEF LoseCancellation
<1>6. CASE UNCHANGED allVars
  BY <1>6 DEF allVars
<1>7. QED
  BY <1>1, <1>2, <1>3, <1>4, <1>5, <1>6 DEF SchedNext, Pass

\* The system with the scheduler, its stale lists, its failed saves and its
\* restarts implements the booking service.
THEOREM SchedulerImplementsService == SchedSpec => ImplementsBookingService
<1>1. SchedInit => Init
  BY DEF SchedInit
<1>2. QED
  BY <1>1, StepRefines, PTL DEF SchedSpec, Spec, ImplementsBookingService

\* Space, money, storage slots, documents, waitlists, keys and queries agree.
ServiceInvariants ==
  /\ TypeOK /\ CapacityRespected /\ SpaceFollowsState /\ DepositFollowsState
  /\ StorageFollowsState /\ StorageCapacityRespected /\ PaidDangerousIsReady
  /\ ReleasedUnderValidCertificate /\ OnlyRequeueShares
  /\ WaitlistFollowsState /\ HeadIsBlocked /\ QueriesPredictCalls /\ LoopIsClosedForm
  /\ KeysNameOne

\* The state properties proved of the service, together.
LEMMA ServiceKeepsInvariants == Spec => []ServiceInvariants
  BY TypeCorrect, CapacityIsRespected, SpaceFollowsBookings, DepositsFollowBookings,
     StorageFollowsBookings, StorageIsNotOverbooked, PaidDangerousIsAlwaysReady,
     ReleasedUnderCertificate, OnlyRequeuedShare, WaitlistFollowsBookings, HeadsAreBlocked,
     QueriesAreRight, LoopHasClosedForm, KeysAreUnique, PTL DEF ServiceInvariants

\* They hold beside the scheduler, whose lists are stale, whose saves fail and
\* whose process is restarted.
THEOREM SchedulerKeepsInvariants == SchedSpec => []ServiceInvariants
  BY SchedulerImplementsService, ServiceKeepsInvariants, PTL DEF ImplementsBookingService

\* What no call may do, and the competition that all of them play.
ServicePromises ==
  /\ ConfirmedIsFinal /\ NoOvertaking /\ TransitionsAreLegal
  /\ HoldsLeakFromWaitlistOnly /\ DeadlinesStand /\ DepositsArePermanent
  /\ ImplementsSlotCompetition
  /\ Bookings # {} => OthersOnlyPromoted

\* The action properties proved of the service, together.
LEMMA ServiceKeepsPromises == Spec => ServicePromises
  BY ConfirmedBookingsAreFinal, NobodyOvertakes, EveryTransitionIsLegal, OnlyWaitersLeakHolds,
     DeadlinesDoNotMove, DepositsStayOnRecord, ServiceImplementsCompetition,
     OthersAreOnlyPromoted
  DEF ServicePromises

\* No pass of the scheduler takes anything from a confirmed booking, lets anybody
\* overtake in a waitlist, skips a stage, moves a deadline, loses a deposit, or
\* changes two bookings but by promotion; and the competition for slots is the
\* abstract one.
THEOREM SchedulerKeepsPromises == SchedSpec => ServicePromises
  BY SchedulerImplementsService, ServiceKeepsPromises DEF ImplementsBookingService

\* The pass over the expired holds never takes a booking whose deposit arrived
\* between the listing and the cancellation.
THEOREM PaidIsSafe == SchedSpec => PaidSurvivesTimeouts
<1>1. TypeInv /\ [SchedNext]_allVars =>
        [phase = "timeouts" /\ phase' = "timeouts" /\ expired' # expired =>
           \A b \in Bookings :
             Paid(b) => booking'[b] = booking[b] /\ deposit'[b] = deposit[b]]_allVars
  <2> SUFFICES ASSUME TypeInv, [SchedNext]_allVars, phase = "timeouts", phase' = "timeouts",
                      expired' # expired, NEW a \in Bookings, Paid(a)
               PROVE  booking'[a] = booking[a] /\ deposit'[a] = deposit[a]
    OBVIOUS
  <2>1. ASSUME NEW b \in Bookings, ReleaseExpired(b), CancelExpiredHold(b)
        PROVE  booking'[a] = booking[a] /\ deposit'[a] = deposit[a]
    <3>1. a # b /\ ~Waiting(a)
      BY <2>1 DEF CancelExpiredHold, Paid, Waiting
    <3>2. RollbackTo(b, "cancelled")
      BY <2>1 DEF CancelExpiredHold
    <3>3. booking'[a] = booking[a]
      BY <3>1, <3>2 DEF RollbackTo, Promoted
    <3>4. deposit'[a] = deposit[a]
      BY <3>1, <3>2 DEF RollbackTo, TypeInv, TypeOK
    <3>5. QED
      BY <3>3, <3>4
  <2>2. CASE UNCHANGED vars
    BY <2>2 DEF vars
  <2>3. ASSUME NEW b \in Bookings, ReleaseExpired(b), ~CancelExpiredHold(b)
        PROVE  UNCHANGED vars
    BY <2>3 DEF ReleaseExpired
  <2>4. ASSUME NEW b \in Bookings, LoseCancellation(b)
        PROVE  UNCHANGED vars
    BY <2>4 DEF LoseCancellation
  <2>5. ASSUME NEW b \in Bookings, CancelOverdue(b)
        PROVE  FALSE
    BY <2>5 DEF CancelOverdue
  <2>6. CASE \/ (Tick \/ ApiStep) /\ UNCHANGED scheduler
             \/ ScanTimeouts \/ ScanCompliance \/ Sleep \/ Restart
             \/ UNCHANGED allVars
    BY <2>6 DEF ScanTimeouts, ScanCompliance, Sleep, Restart, scheduler, allVars
  <2>7. QED
    BY <2>1, <2>2, <2>3, <2>4, <2>5, <2>6 DEF SchedNext, Pass
<1>2. Spec => []TypeInv
  BY TypeInit, TypeStep, PTL DEF Spec
<1>3. SchedSpec => []TypeInv
  BY <1>2, SchedulerImplementsService, PTL DEF ImplementsBookingService
<1>4. QED
  BY <1>1, <1>3, PTL DEF SchedSpec, PaidSurvivesTimeouts

\* Every service step leaves the lists of the scheduler alone.
LEMMA SchedTypeStep == SchedTypeOK /\ [SchedNext]_allVars => SchedTypeOK'
<1> SUFFICES ASSUME SchedTypeOK, [SchedNext]_allVars PROVE SchedTypeOK'
  OBVIOUS
<1>1. CASE UNCHANGED scheduler \/ UNCHANGED allVars
  BY <1>1 DEF scheduler, allVars, SchedTypeOK
<1>2. CASE ScanTimeouts
  <2>1. UNION {ExpiredHolds(voyage[v], now) : v \in Voyages} \subseteq Bookings
    BY DEF ExpiredHolds
  <2>2. QED
    BY <1>2, <2>1 DEF ScanTimeouts, SchedTypeOK
<1>3. CASE ScanCompliance \/ Sleep \/ Restart
  BY <1>3 DEF ScanCompliance, Sleep, Restart, SchedTypeOK
<1>4. ASSUME NEW b \in Bookings, ReleaseExpired(b) \/ CancelOverdue(b) \/ LoseCancellation(b)
      PROVE  SchedTypeOK'
  BY <1>4 DEF ReleaseExpired, CancelOverdue, LoseCancellation, SchedTypeOK
<1>5. QED
  BY <1>1, <1>2, <1>3, <1>4 DEF SchedNext, Pass

\* A list of the scheduler exists only during its half of the pass; a failed save
\* shortens it and a restart drops it.
THEOREM ListsBelongToPass == SchedSpec => []SchedTypeOK
<1>1. SchedInit => SchedTypeOK
  BY DEF SchedInit, SchedTypeOK
<1>2. QED
  BY <1>1, SchedTypeStep, PTL DEF SchedSpec

\* Whoever is on the list of the cutoff check is dangerous cargo, and stays so
\* while the list grows stale.
OverdueIsDangerous == \A b \in overdue : Exists(b) /\ IsDangerous(booking[b].kind)

\* No step lists anything else, and no call changes what a booking carries.
LEMMA OverdueStep ==
  TypeInv /\ SchedTypeOK /\ OverdueIsDangerous /\ [SchedNext]_allVars => OverdueIsDangerous'
<1> SUFFICES ASSUME TypeInv, SchedTypeOK, OverdueIsDangerous, [SchedNext]_allVars
             PROVE  OverdueIsDangerous'
  OBVIOUS
<1>1. CASE ScanCompliance
  BY <1>1 DEF ScanCompliance, OverdueIsDangerous, InInspection, CutoffCompliant, Exists, StateOf,
              vars
<1>2. CASE overdue' \subseteq overdue
  BY <1>2, StepRefines, BookingsLast DEF OverdueIsDangerous, SameCargo, SchedTypeOK
<1>3. CASE ~ScanCompliance
  <2>1. overdue' \subseteq overdue
    BY <1>3 DEF SchedNext, Pass, ScanTimeouts, Sleep, ReleaseExpired, CancelOverdue,
                LoseCancellation, Restart, scheduler, allVars
  <2>2. QED
    BY <1>2, <2>1
<1>4. QED
  BY <1>1, <1>3

\* However old its list is, the cutoff check cancels only dangerous cargo that is
\* between its deposit and its confirmation.
THEOREM OnlyDangerousIsCancelled == SchedSpec => OnlyDangerousOverdue
<1> DEFINE Inv == TypeInv /\ SchedTypeOK /\ OverdueIsDangerous
<1>1. Inv /\ [SchedNext]_allVars =>
        [phase = "compliance" /\ phase' = "compliance" /\ overdue' # overdue =>
           \A b \in Bookings :
             booking'[b].state = "cancelled" /\ StateOf(b) # "cancelled" =>
               InInspection(b) /\ IsDangerous(booking[b].kind)]_allVars
  <2> SUFFICES ASSUME Inv, [SchedNext]_allVars, phase = "compliance", phase' = "compliance",
                      overdue' # overdue, NEW a \in Bookings,
                      booking'[a].state = "cancelled", StateOf(a) # "cancelled"
               PROVE  InInspection(a) /\ IsDangerous(booking[a].kind)
    OBVIOUS
  <2>1. ASSUME NEW b \in Bookings, CancelOverdue(b), CancelForCutoffNonCompliance(b)
        PROVE  InInspection(a) /\ IsDangerous(booking[a].kind)
    <3>1. RollbackTo(b, "cancelled") /\ InInspection(b)
      BY <2>1 DEF CancelForCutoffNonCompliance, InInspection
    <3>2. a = b
      BY <3>1 DEF RollbackTo, Promoted, StateOf
    <3>3. b \in overdue
      BY <2>1 DEF CancelOverdue
    <3>4. QED
      BY <3>1, <3>2, <3>3 DEF OverdueIsDangerous
  <2>2. CASE booking' = booking
    BY <2>2 DEF StateOf
  <2>3. ASSUME NEW b \in Bookings, CancelOverdue(b), ~CancelForCutoffNonCompliance(b)
        PROVE  booking' = booking
    BY <2>3 DEF CancelOverdue, vars
  <2>4. ASSUME NEW b \in Bookings, LoseCancellation(b) \/ ReleaseExpired(b)
        PROVE  booking' = booking
    BY <2>4 DEF LoseCancellation, ReleaseExpired, vars
  <2>5. CASE \/ (Tick \/ ApiStep) /\ UNCHANGED scheduler
             \/ ScanTimeouts \/ ScanCompliance \/ Sleep \/ Restart
             \/ UNCHANGED allVars
    BY <2>5 DEF ScanTimeouts, ScanCompliance, Sleep, Restart, scheduler, allVars
  <2>6. QED
    BY <2>1, <2>2, <2>3, <2>4, <2>5 DEF SchedNext, Pass
<1>2. SchedSpec => []TypeInv
  <2>1. Spec => []TypeInv
    BY TypeInit, TypeStep, PTL DEF Spec
  <2>2. QED
    BY <2>1, SchedulerImplementsService, PTL DEF ImplementsBookingService
<1>3. SchedInit => OverdueIsDangerous
  BY DEF SchedInit, OverdueIsDangerous
<1>4. SchedSpec => []OverdueIsDangerous
  BY <1>2, <1>3, ListsBelongToPass, OverdueStep, PTL DEF SchedSpec
<1>5. QED
  BY <1>1, <1>2, <1>4, ListsBelongToPass, PTL DEF SchedSpec, OnlyDangerousOverdue

------------------------------------------------------------------------------
(* HTTP clients. *)

\* The fields of a call, by its operation.
LEMMA CallFields ==
  ASSUME NEW c \in Calls
  PROVE  /\ c.op = "createBooking" => c.req \in Requests
         /\ c.op = "submitDocuments" => c.cert \in Certificates \cup {None}
         /\ c.op = "verifyStorage" => c.s \in Locations
         /\ c.op = "payDeposit" => c.key \in DepositKeys \cup {None}
         /\ c.op = "bindBill" => c.bill \in Bills
         /\ c.op = "changePort" => c.port \in Ports
         /\ c.op = "createVoyage" => c.req \in VoyageRequests
         /\ c.op = "createStorageLocation" => c.capacity \in StorageCapacities
         /\ c.op \notin {"createBooking", "createVoyage", "createStorageLocation"}
              => c.b \in Bookings
  BY DEF Calls

\* A call that commits is a step of the service.
LEMMA CommitIsStep ==
  ASSUME NEW c \in Calls, Commit(c)
  PROVE  ApiStep
<1>1. CASE c.op \in {"createBooking", "submitDocuments", "verifyStorage", "payDeposit",
                     "bindBill", "changePort"}
  BY <1>1, CallFields DEF Commit, ApiStep
<1>2. CASE c.op \in {"createVoyage", "createStorageLocation"}
  BY <1>2, CallFields DEF Commit, ApiStep
<1>3. CASE c.op \in {"allocateSpace", "customsRelease", "customsReject", "confirmBooking",
                     "cancelBooking", "requeueBooking"}
  BY <1>3, CallFields DEF Commit, ApiStep
<1>4. QED
  BY <1>1, <1>2, <1>3 DEF Commit

\* The lost call is one of those a client can make.
LostIsCall == lost \in Calls \cup {None}

\* Only such a call gets lost, and only once.
LEMMA LostStep == LostIsCall /\ [ApiNext]_apiVars => LostIsCall'
  BY DEF LostIsCall, ApiNext, Serve, LoseAnswer, Retry, TimePasses, Background, Disturb, client,
         apiVars

\* One step of the layer, seen from the booking service.
LEMMA ApiRefines == LostIsCall /\ [ApiNext]_apiVars => [Next]_vars
<1> SUFFICES ASSUME LostIsCall, [ApiNext]_apiVars PROVE [Next]_vars
  OBVIOUS
<1>1. ASSUME NEW c \in Calls, Serve(c) \/ LoseAnswer(c)
      PROVE  Next
  BY <1>1, CommitIsStep DEF Serve, LoseAnswer, Next
<1>2. CASE Retry
  <2>1. lost \in Calls
    BY <1>2 DEF Retry, LostIsCall
  <2>2. QED
    BY <1>2, <2>1, CommitIsStep DEF Retry, Next
<1>3. CASE TimePasses \/ Background
  BY <1>3 DEF TimePasses, Background, Next
<1>4. CASE UNCHANGED apiVars
  BY <1>4 DEF apiVars
<1>5. QED
  BY <1>1, <1>2, <1>3, <1>4 DEF ApiNext

\* Clients who lose answers and repeat their calls implement the booking service:
\* a repeated call does what some first call could have done, or nothing.
THEOREM ApiImplementsService == ApiSpec => Spec
<1>1. ApiInit => Init /\ LostIsCall
  BY DEF ApiInit, LostIsCall
<1>2. QED
  BY <1>1, LostStep, ApiRefines, PTL DEF ApiSpec, Spec

\* So neither repeated nor refused calls break what the service promises.
THEOREM ApiKeepsPromises ==
  ApiSpec => []ServiceInvariants /\ ServicePromises
  BY ApiImplementsService, ServiceKeepsInvariants, ServiceKeepsPromises

\* What a committed call leaves behind: where its booking is, or what it has set.
Done(c) ==
  /\ c.op = "createBooking" =>
       \E b \in Bookings : Active(b) /\ booking[b].container = c.req.container
  /\ c.op = "submitDocuments" => StateOf(c.b) = "docs_submitted"
  /\ c.op = "verifyStorage" => StateOf(c.b) = "storage_verified"
  /\ c.op = "allocateSpace" => StateOf(c.b) = "space_allocated"
  /\ c.op = "payDeposit" => StateOf(c.b) \in {"deposit_paid", "waitlisted"}
  /\ c.op = "customsRelease" => StateOf(c.b) = "customs_released"
  /\ c.op = "customsReject" => StateOf(c.b) = "pending_review"
  /\ c.op = "confirmBooking" => StateOf(c.b) = "confirmed"
  /\ c.op = "cancelBooking" => StateOf(c.b) = "cancelled"
  /\ c.op = "changePort" =>
       /\ Exists(c.b)
       /\ booking[c.b].port = c.port
       /\ c.port \in voyage[VoyageOf(c.b)].ports
  /\ c.op = "bindBill" =>
       /\ Exists(c.b)
       /\ booking[c.b].bill = c.bill
       /\ \A o \in Bookings \ {c.b} : Active(o) =>
            /\ ~(booking[o].container = booking[c.b].container /\ booking[o].bill # None)
            /\ booking[o].bill # c.bill
  /\ c.op = "requeueBooking" => StateOf(c.b) \in {"initiated", "docs_submitted"}

\* What is left of it for good: the booking or the deposit it created, with its
\* idempotency key, or the cancellation.
Remembered(c) ==
  /\ c.op = "createBooking" =>
       \E b \in Bookings :
         /\ Exists(b)
         /\ booking[b].key = c.req.key
         /\ booking[b].voyage = c.req.voyage
         /\ booking[b].container = c.req.container
         /\ booking[b].kind = c.req.kind
  /\ c.op = "payDeposit" => \E i \in DOMAIN deposit[c.b] : deposit[c.b][i].key = c.key
  /\ c.op = "cancelBooking" => StateOf(c.b) = "cancelled"

\* A new booking is active and carries what it was asked for with.
LEMMA CreateIsDone ==
  ASSUME TypeInv, NEW b \in Bookings, NEW req \in Requests, Create(b, req)
  PROVE  /\ booking'[b].state = "initiated"
         /\ booking'[b].container = req.container /\ booking'[b].key = req.key
         /\ booking'[b].voyage = req.voyage /\ booking'[b].kind = req.kind
  BY DEF Create, NewBooking, TypeInv, TypeOK

\* A deposit call stores its key, whether it wins or loses.
LEMMA PayIsRemembered ==
  ASSUME TypeInv, NEW b \in Bookings, NEW key \in DepositKeys \cup {None},
         PayAndWin(b, key) \/ PayAndLose(b, key)
  PROVE  /\ booking'[b].state \in {"deposit_paid", "waitlisted"}
         /\ \E i \in DOMAIN deposit'[b] : deposit'[b][i].key = key
<1>1. deposit[b] \in Seq(Deposit)
  BY DEF TypeInv, TypeOK
<1>2. PICK status : deposit'[b] = Append(deposit[b], [key |-> key, status |-> status])
  BY WinEffect, LoseEffect DEF AddDeposit
<1>3. Len(deposit[b]) + 1 \in DOMAIN deposit'[b]
        /\ deposit'[b][Len(deposit[b]) + 1] = [key |-> key, status |-> status]
  BY <1>1, <1>2
<1>4. booking'[b].state \in {"deposit_paid", "waitlisted"}
  BY WinEffect, LoseEffect DEF Moves
<1>5. QED
  BY <1>3, <1>4

\* A call that commits is done and remembered.
LEMMA CommitIsDone ==
  ASSUME TypeInv, NEW c \in Calls, Commit(c)
  PROVE  Done(c)' /\ Remembered(c)'
<1>1. CASE c.op = "createBooking"
  <2>1. PICK b \in Bookings : Create(b, c.req)
    BY <1>1 DEF Commit
  <2>2. /\ booking'[b].state = "initiated"
        /\ booking'[b].container = c.req.container /\ booking'[b].key = c.req.key
        /\ booking'[b].voyage = c.req.voyage /\ booking'[b].kind = c.req.kind
    BY <1>1, <2>1, CallFields, CreateIsDone
  <2>3. IsActive("initiated")
    BY DEF IsActive, States, validTransitions
  <2>4. QED
    BY <1>1, <2>2, <2>3 DEF Done, Remembered, Active, StateOf, Exists
<1>2. CASE c.op = "payDeposit"
  <2>1. PayAndWin(c.b, c.key) \/ PayAndLose(c.b, c.key)
    BY <1>2 DEF Commit
  <2>2. /\ booking'[c.b].state \in {"deposit_paid", "waitlisted"}
        /\ \E i \in DOMAIN deposit'[c.b] : deposit'[c.b][i].key = c.key
    BY <1>2, <2>1, CallFields, PayIsRemembered
  <2>3. c.b \in Bookings
    BY <1>2, CallFields
  <2>4. QED
    BY <1>2, <2>2, <2>3 DEF Done, Remembered, StateOf
<1>3. CASE c.op \in {"createVoyage", "createStorageLocation"}
  BY <1>3 DEF Done, Remembered
<1>4. CASE c.op \in {"customsReject", "cancelBooking"}
  <2>1. /\ c.op = "customsReject" => RollbackTo(c.b, "pending_review")
        /\ c.op = "cancelBooking" => RollbackTo(c.b, "cancelled")
    BY <1>4 DEF Commit, CustomsReject, Cancel
  <2>2. c.b \in Bookings /\ booking[c.b] \in BookingRecord
    BY <1>4, CallFields DEF TypeInv, TypeOK
  <2>3. ASSUME NEW target, RollbackTo(c.b, target)
        PROVE  booking'[c.b].state = target
    <3>1. booking'[c.b] = [booking[c.b] EXCEPT !.state = target, !.locked = FALSE]
      BY <2>2, <2>3 DEF RollbackTo
    <3>2. QED
      BY <2>2, <3>1 DEF BookingRecord
  <2>4. /\ c.op = "customsReject" => booking'[c.b].state = "pending_review"
        /\ c.op = "cancelBooking" => booking'[c.b].state = "cancelled"
    BY <2>1, <2>3
  <2>5. QED
    BY <1>4, <2>4 DEF Done, Remembered, StateOf
<1>5. CASE c.op \in {"submitDocuments", "verifyStorage", "allocateSpace", "customsRelease",
                     "confirmBooking", "changePort", "bindBill", "requeueBooking"}
  <2>1. c.b \in Bookings /\ booking \in [Bookings -> BookingRecord]
    BY <1>5, CallFields DEF TypeInv, TypeOK
  <2>2. CASE c.op = "submitDocuments"
    BY <2>1, <2>2 DEF Commit, SubmitDocuments, Done, Remembered, StateOf, BookingRecord
  <2>3. CASE c.op = "verifyStorage"
    BY <2>1, <2>3 DEF Commit, VerifyGeneral, VerifyDangerous, Done, Remembered, StateOf,
                      BookingRecord
  <2>4. CASE c.op = "allocateSpace"
    BY <2>1, <2>4 DEF Commit, AllocateSpace, Done, Remembered, StateOf, BookingRecord
  <2>5. CASE c.op = "customsRelease"
    BY <2>1, <2>5 DEF Commit, CustomsRelease, Done, Remembered, StateOf, BookingRecord
  <2>6. CASE c.op = "confirmBooking"
    BY <2>1, <2>6 DEF Commit, Confirm, Done, Remembered, StateOf, BookingRecord
  <2>7. CASE c.op = "changePort"
    <3>1. ChangePort(c.b, c.port) /\ voyage' = voyage
      BY <2>7 DEF Commit, ChangePort
    <3>2. booking'[c.b] = [booking[c.b] EXCEPT !.port = c.port] /\ booking[c.b] \in BookingRecord
      BY <2>1, <3>1 DEF ChangePort
    <3>3. /\ booking'[c.b].port = c.port
          /\ booking'[c.b].state = booking[c.b].state
          /\ booking'[c.b].voyage = booking[c.b].voyage
      BY <3>2 DEF BookingRecord
    <3>4. QED
      BY <2>7, <3>1, <3>3 DEF ChangePort, Done, Remembered, Exists, VoyageOf
  <2>8. CASE c.op = "bindBill"
    <3>1. BindBill(c.b, c.bill) /\ c.bill \in Bills
      BY <2>8, CallFields DEF Commit
    <3>2. /\ booking'[c.b].bill = c.bill
          /\ booking'[c.b].state # "absent"
          /\ booking'[c.b].container = booking[c.b].container
          /\ \A o \in Bookings \ {c.b} : booking'[o] = booking[o]
      BY <2>1, <3>1, BillEffect DEF Only, SameCargo
    <3>3. QED
      BY <2>8, <3>1, <3>2 DEF BindBill, Done, Remembered, Exists, Active, StateOf
  <2>9. CASE c.op = "requeueBooking"
    BY <2>1, <2>9, RequeueEffect DEF Commit, Done, Remembered, StateOf
  <2>10. QED
    BY <1>5, <2>2, <2>3, <2>4, <2>5, <2>6, <2>7, <2>8, <2>9
<1>6. QED
  BY <1>1, <1>2, <1>3, <1>4, <1>5 DEF Commit

\* Deposits are refunded, but never removed, and keep their keys.
LEMMA DepositsLast ==
  ASSUME TypeInv, [Next]_vars, NEW a \in Bookings, NEW i \in DOMAIN deposit[a]
  PROVE  i \in DOMAIN deposit'[a] /\ deposit'[a][i].key = deposit[a][i].key
<1>1. deposit[a] \in Seq(Deposit)
  BY DEF TypeInv, TypeOK
<1>2. CASE deposit'[a] = deposit[a]
  BY <1>2
<1>3. ASSUME NEW key, NEW status, deposit'[a] = AddDeposit(deposit[a], key, status)
      PROVE  i \in DOMAIN deposit'[a] /\ deposit'[a][i].key = deposit[a][i].key
  <2> DEFINE longer == AddDeposit(deposit[a], key, status)
  <2>1. /\ DOMAIN deposit[a] = 1..Len(deposit[a])
        /\ DOMAIN longer = 1..(Len(deposit[a]) + 1)
        /\ \A k \in DOMAIN deposit[a] : longer[k] = deposit[a][k]
        /\ longer[Len(deposit[a]) + 1] = [key |-> key, status |-> status]
        /\ Len(deposit[a]) \in Nat
    BY <1>1, AddExtends
  <2> HIDE DEF longer
  <2>2. i \in DOMAIN longer /\ longer[i] = deposit[a][i]
    BY <2>1
  <2>3. QED
    BY <1>3, <2>2 DEF longer
<1>4. CASE deposit'[a] = RefundInTx(deposit[a])
  <2>1. i \in DOMAIN deposit'[a]
    BY <1>1, <1>4, RefundChangesOne
  <2>2. RefundInTx(deposit[a])[i].key = deposit[a][i].key
    BY <1>1, RefundChangesOne
  <2>3. QED
    BY <1>4, <2>1, <2>2
<1>5. QED
  BY <1>2, <1>3, <1>4, LedgerCases

\* What a call has left for good is never forgotten: neither cancellations nor
\* rejections nor second passes remove the booking or the deposit it came with.
LEMMA KeysLast ==
  ASSUME TypeInv, [Next]_vars, NEW c \in Calls, Remembered(c)
  PROVE  Remembered(c)'
<1>1. ASSUME c.op = "createBooking"
      PROVE  \E b \in Bookings :
               /\ Exists(b)'
               /\ booking'[b].key = c.req.key
               /\ booking'[b].voyage = c.req.voyage
               /\ booking'[b].container = c.req.container
               /\ booking'[b].kind = c.req.kind
  <2>1. PICK b \in Bookings :
          /\ Exists(b)
          /\ booking[b].key = c.req.key
          /\ booking[b].voyage = c.req.voyage
          /\ booking[b].container = c.req.container
          /\ booking[b].kind = c.req.kind
    BY <1>1 DEF Remembered
  <2>2. Exists(b)' /\ SameCargo(b)
    BY <2>1, BookingsLast
  <2>3. QED
    BY <2>1, <2>2 DEF SameCargo
<1>2. ASSUME c.op = "payDeposit"
      PROVE  \E i \in DOMAIN deposit'[c.b] : deposit'[c.b][i].key = c.key
  <2>1. PICK i \in DOMAIN deposit[c.b] : deposit[c.b][i].key = c.key
    BY <1>2 DEF Remembered
  <2>2. c.b \in Bookings
    BY <1>2, CallFields
  <2>3. i \in DOMAIN deposit'[c.b] /\ deposit'[c.b][i].key = c.key
    BY <2>1, <2>2, DepositsLast
  <2>4. QED
    BY <2>3
<1>3. ASSUME c.op = "cancelBooking"
      PROVE  booking'[c.b].state = "cancelled"
  <2>1. StateOf(c.b) = "cancelled" /\ c.b \in Bookings
    BY <1>3, CallFields DEF Remembered
  <2>2. Turns("cancelled", booking'[c.b].state)
    BY <2>1, TurnsStep
  <2>3. QED
    BY <2>2 DEF Turns, Combined, States, validTransitions
<1>4. QED
  BY <1>1, <1>2, <1>3 DEF Remembered, StateOf

\* A call whose key is stored does not commit.
LEMMA KeyedCallIsReplayed ==
  ASSUME NEW c \in Calls, Keyed(c), Remembered(c)
  PROVE  ~Commit(c)
<1>1. CASE c.op = "createBooking"
  <2>1. ~NewBookingKey(c.req.key)
    BY <1>1 DEF Keyed, Remembered, NewBookingKey
  <2>2. QED
    BY <1>1, <2>1 DEF Commit, Create
<1>2. CASE c.op = "payDeposit"
  <2>1. ~NewDepositKey(c.key)
    BY <1>2, CallFields DEF Keyed, Remembered, NewDepositKey
  <2>2. QED
    BY <1>2, <2>1 DEF Commit, PayAndWin, PayAndLose, MayPay
<1>3. QED
  BY <1>1, <1>2 DEF Keyed

\* Repeating a call that is done is refused, or sets again what is set.
LEMMA DoneCallChangesNothing ==
  ASSUME TypeInv, NEW c \in Calls, c.op \notin {"createVoyage", "createStorageLocation"},
         Done(c), Commit(c)
  PROVE  entities' = entities
<1>1. c.op # "createBooking"
  <2>1. ASSUME c.op = "createBooking"
        PROVE  FALSE
    <3>1. PICK b \in Bookings : Active(b) /\ booking[b].container = c.req.container
      BY <2>1 DEF Done
    <3>2. ContainerFree(c.req.container)
      BY <2>1 DEF Commit, Create
    <3>3. QED
      BY <3>1, <3>2 DEF ContainerFree
  <2>2. QED
    BY <2>1
<1>2. c.b \in Bookings /\ booking \in [Bookings -> BookingRecord]
  BY <1>1, CallFields DEF TypeInv, TypeOK
<1>3. c.op # "submitDocuments"
  <2>1. ~CanTransitionTo("docs_submitted", "docs_submitted")
    BY DEF CanTransitionTo, validTransitions
  <2>2. QED
    BY <2>1 DEF Commit, SubmitDocuments, Legal, Done
<1>4. c.op \notin {"verifyStorage", "allocateSpace", "payDeposit", "customsRelease",
                   "customsReject", "confirmBooking", "cancelBooking", "requeueBooking"}
  BY DEF Commit, VerifyGeneral, VerifyDangerous, AllocateSpace, MayAllocate, PayAndWin, PayAndLose,
         MayPay, CustomsRelease, CustomsReject, Confirm, Cancel, Requeue, Done
<1>5. CASE c.op = "changePort"
  <2>1. ChangePort(c.b, c.port) /\ booking[c.b].port = c.port
    BY <1>5 DEF Commit, Done
  <2>2. [booking EXCEPT ![c.b].port = c.port] = booking
    BY <1>2, <2>1 DEF BookingRecord
  <2>3. QED
    BY <2>1, <2>2 DEF ChangePort, entities
<1>6. CASE c.op = "bindBill"
  <2>1. BindBill(c.b, c.bill) /\ booking[c.b].bill = c.bill
    BY <1>6 DEF Commit, Done
  <2>2. [booking EXCEPT ![c.b].bill = c.bill] = booking
    BY <1>2, <2>1 DEF BookingRecord
  <2>3. QED
    BY <2>1, <2>2 DEF BindBill, entities
<1>7. QED
  BY <1>1, <1>3, <1>4, <1>5, <1>6 DEF Commit

\* While a client waits to repeat its call, what the call leaves for good is there,
\* and as long as only time has passed, all that it did is.
LostIsKept ==
  lost # None =>
    /\ lost \in Calls
    /\ lost.op \notin {"createVoyage", "createStorageLocation"}
    /\ Remembered(lost)
    /\ fresh => Done(lost)

\* The next state in terms of the call that is lost there.
LEMMA LostNext ==
  ASSUME NEW c \in Calls, lost' = c, c.op \notin {"createVoyage", "createStorageLocation"},
         Remembered(c)', fresh' => Done(c)'
  PROVE  LostIsKept'
<1>1. Remembered(lost)'
  BY DEF Remembered
<1>2. fresh' => Done(lost)'
  BY DEF Done
<1>3. QED
  BY <1>1, <1>2 DEF LostIsKept

\* Everybody else's calls keep the key; whatever they do ends the freshness.
LEMMA LostIsKeptStep ==
  TypeInv /\ LostIsCall /\ LostIsKept /\ [ApiNext]_apiVars => LostIsKept'
<1> SUFFICES ASSUME TypeInv, LostIsCall, LostIsKept, [ApiNext]_apiVars PROVE LostIsKept'
  OBVIOUS
<1>1. [Next]_vars
  BY ApiRefines
<1>2. ASSUME NEW c \in Calls, LoseAnswer(c)
      PROVE  LostIsKept'
  <2>1. Done(c)' /\ Remembered(c)'
    BY <1>2, CommitIsDone DEF LoseAnswer
  <2>2. lost' = c /\ c.op \notin {"createVoyage", "createStorageLocation"}
    BY <1>2 DEF LoseAnswer
  <2>3. QED
    BY <2>1, <2>2, LostNext
<1>3. CASE lost' = None
  BY <1>3 DEF LostIsKept
<1>4. ASSUME NEW c \in Calls, lost = c, c # None, lost' = c,
             fresh' => fresh /\ booking' = booking /\ voyage' = voyage
      PROVE  LostIsKept'
  <2>1. /\ c.op \notin {"createVoyage", "createStorageLocation"}
        /\ Remembered(c)
        /\ fresh => Done(c)
    BY <1>4 DEF LostIsKept
  <2>2. Remembered(c)'
    BY <1>1, <2>1, KeysLast
  <2>3. fresh' => Done(c)'
    BY <1>4, <2>1 DEF Done, Active, StateOf, VoyageOf, Exists
  <2>4. QED
    BY <1>4, <2>1, <2>2, <2>3, LostNext
<1>5. CASE Retry
  BY <1>3, <1>5 DEF Retry
<1>6. CASE TimePasses \/ Background \/ UNCHANGED apiVars
  <2>1. lost' = lost /\ (lost # None => (fresh' => fresh /\ booking' = booking /\ voyage' = voyage))
    <3>1. CASE TimePasses
      BY <3>1 DEF TimePasses, Tick, client
    <3>2. CASE Background
      BY <3>2 DEF Background, Disturb
    <3>3. CASE UNCHANGED apiVars
      BY <3>3 DEF apiVars, client, vars
    <3>4. QED
      BY <1>6, <3>1, <3>2, <3>3
  <2>2. QED
    BY <1>3, <1>4, <2>1 DEF LostIsCall
<1>7. ASSUME NEW c \in Calls, Serve(c)
      PROVE  LostIsKept'
  <2>1. lost' = lost /\ (lost # None => (fresh' => fresh /\ booking' = booking /\ voyage' = voyage))
    BY <1>7 DEF Serve, Disturb
  <2>2. QED
    BY <1>3, <1>4, <2>1 DEF LostIsCall
<1>8. QED
  BY <1>2, <1>5, <1>6, <1>7 DEF ApiNext

\* Both hold throughout.
LEMMA LostCallsAreKept == ApiSpec => [](TypeInv /\ LostIsCall /\ LostIsKept)
<1>1. ApiInit => Init /\ LostIsCall /\ LostIsKept
  BY DEF ApiInit, LostIsCall, LostIsKept
<1>2. ApiSpec => []TypeInv
  BY ApiImplementsService, TypeInit, TypeStep, PTL DEF Spec
<1>3. ApiSpec => []LostIsCall
  BY <1>1, LostStep, PTL DEF ApiSpec
<1>4. ApiSpec => []LostIsKept
  BY <1>1, <1>2, <1>3, LostIsKeptStep, PTL DEF ApiSpec
<1>5. QED
  BY <1>2, <1>3, <1>4, PTL

\* A client that got no answer may ask again: with an idempotency key whenever it
\* likes, without one as long as nobody else has done anything.
THEOREM RetriesAreHarmless == ApiSpec => RetryIsHarmless
<1> DEFINE Inv == TypeInv /\ LostIsCall /\ LostIsKept
<1>1. Inv /\ [ApiNext]_apiVars =>
        [Retry /\ (fresh \/ Keyed(lost)) => entities' = entities]_apiVars
  <2> SUFFICES ASSUME Inv, Retry, fresh \/ Keyed(lost)
               PROVE  entities' = entities
    OBVIOUS
  <2>1. CASE UNCHANGED vars
    BY <2>1 DEF vars, entities
  <2>2. CASE Commit(lost)
    <3>1. PICK c \in Calls : lost = c
      BY DEF Retry, LostIsKept
    <3>2. /\ c.op \notin {"createVoyage", "createStorageLocation"}
          /\ Remembered(c)
          /\ fresh => Done(c)
      BY <3>1 DEF Retry, LostIsKept
    <3>3. ~Keyed(c)
      BY <2>2, <3>1, <3>2, KeyedCallIsReplayed
    <3>4. Done(c)
      BY <3>1, <3>2, <3>3
    <3>5. QED
      BY <2>2, <3>1, <3>2, <3>4, DoneCallChangesNothing
  <2>3. QED
    BY <2>1, <2>2 DEF Retry
<1>2. QED
  BY <1>1, LostCallsAreKept, PTL DEF ApiSpec, RetryIsHarmless

\* What is remembered of a call is what it is answered from.
LEMMA LostIsAnswered == LostIsKept => RetryIsAnswered
<1> SUFFICES ASSUME LostIsKept, lost # None, Keyed(lost) \/ lost.op = "cancelBooking"
             PROVE  Replayed(lost) /\ ShowsItsEffect(lost)
  BY DEF RetryIsAnswered
<1>1. PICK c \in Calls : lost = c
  BY DEF LostIsKept
<1>2. Remembered(c)
  BY <1>1 DEF LostIsKept
<1>3. ShowsItsEffect(c)
  BY <1>2 DEF Remembered, ShowsItsEffect
<1>4. CASE c.op = "createBooking"
  <2>1. c.req.key # None
    BY <1>1, <1>4 DEF Keyed
  <2>2. ~NewBookingKey(c.req.key)
    BY <1>2, <1>4, <2>1 DEF Remembered, NewBookingKey
  <2>3. QED
    BY <1>1, <1>3, <1>4, <2>2 DEF Replayed
<1>5. CASE c.op = "payDeposit"
  <2>1. c.key # None /\ c.b \in Bookings
    BY <1>1, <1>5, CallFields DEF Keyed
  <2>2. ~NewDepositKey(c.key)
    BY <1>2, <1>5, <2>1 DEF Remembered, NewDepositKey
  <2>3. QED
    BY <1>1, <1>3, <1>5, <2>2 DEF Replayed
<1>6. CASE c.op = "cancelBooking"
  BY <1>1, <1>2, <1>3, <1>6 DEF Remembered, Replayed
<1>7. QED
  BY <1>1, <1>4, <1>5, <1>6 DEF Keyed

\* A client that got no answer to a call with a key, or to a cancellation, learns the
\* outcome by asking again: the call is answered with success and with its own
\* result, whatever anybody else and the scheduler have done since.
THEOREM RetriesAreAnswered == ApiSpec => []RetryIsAnswered
  BY LostIsAnswered, LostCallsAreKept, PTL

\* How writeErr answers.
LEMMA Statuses ==
  /\ \A e \in {"ErrInvalidState", "ErrWindowClosed", "ErrMissingDocs"} : StatusOf(e) = 422
  /\ StatusOf("ErrConflict") = 409
  BY DEF StatusOf

\* A booking that has moved on refuses the call that moved it, before anything that
\* call has used up is looked at.
LEMMA MovedOnRefuses ==
  ASSUME NEW c \in Calls, Done(c), ~Keyed(c),
         c.op \in {"submitDocuments", "verifyStorage", "allocateSpace", "payDeposit",
                   "customsRelease", "customsReject", "confirmBooking", "requeueBooking"}
  PROVE  Status(c) = 422
<1>1. ~Replayed(c)
  BY DEF Replayed, Keyed, NewDepositKey
<1>2. CASE c.op = "submitDocuments"
  <2>1. StateOf(c.b) = "docs_submitted" /\ Exists(c.b) /\ ~Legal(c.b, "docs_submitted")
    BY <1>2 DEF Done, Exists, StateOf, Legal, CanTransitionTo, validTransitions
  <2>2. Refusal(c) = DocumentsRefusal(c.b, c.cert)
    BY <1>2 DEF Refusal
  <2>3. Refusal(c) \in {"ErrMissingDocs", "ErrInvalidState"}
    BY <2>1, <2>2 DEF DocumentsRefusal, Found, Check
  <2>4. QED
    BY <1>1, <2>3, Statuses DEF Status, Fine
<1>3. CASE c.op # "submitDocuments"
  <2>1. Exists(c.b)
    BY <1>3 DEF Done, Exists, StateOf
  <2>2. Refusal(c) = "ErrInvalidState"
    <3>1. CASE c.op = "verifyStorage"
      BY <2>1, <3>1 DEF Refusal, StorageRefusal, Done, InState, Found, Check
    <3>2. CASE c.op = "allocateSpace"
      BY <2>1, <3>2 DEF Refusal, SpaceRefusal, Done, InState, Found, Check
    <3>3. CASE c.op = "payDeposit"
      BY <2>1, <3>3 DEF Refusal, DepositRefusal, Done, InState, Found, Check
    <3>4. CASE c.op = "customsRelease"
      BY <2>1, <3>4 DEF Refusal, ReleaseRefusal, Done, InState, Found, Check
    <3>5. CASE c.op = "customsReject"
      BY <2>1, <3>5 DEF Refusal, Done, InState, Found, Check
    <3>6. CASE c.op = "confirmBooking"
      BY <2>1, <3>6 DEF Refusal, ConfirmRefusal, Done, InState, Found, Check
    <3>7. CASE c.op = "requeueBooking"
      BY <2>1, <3>7 DEF Refusal, Done, InState, Found, Check
    <3>8. QED
      BY <1>3, <3>1, <3>2, <3>3, <3>4, <3>5, <3>6, <3>7
  <2>3. QED
    BY <1>1, <2>2, Statuses DEF Status, Fine
<1>4. QED
  BY <1>2, <1>3

\* Whoever repeats a call at once can tell from the status that it was carried out:
\* no service looks at what its own call has used up before it looks at the state,
\* whatever the capacities, the stock of slots and the other bookings are.
THEOREM RetriesTellOutcome == ApiSpec => []RetryTellsOutcome
<1>1. SpaceInv /\ LostIsKept => RetryTellsOutcome
  <2> SUFFICES ASSUME SpaceInv, LostIsKept, lost # None, fresh
               PROVE  RetryTellsOutcome
    BY DEF RetryTellsOutcome
  <2>1. PICK c \in Calls : lost = c
    BY DEF LostIsKept
  <2>2. /\ c.op \notin {"createVoyage", "createStorageLocation"}
        /\ Remembered(c) /\ Done(c)
    BY <2>1 DEF LostIsKept
  <2>3. CASE Keyed(c) \/ c.op = "cancelBooking"
    <3>1. Replayed(c)
      BY <2>1, <2>3, LostIsAnswered DEF RetryIsAnswered
    <3>2. Status(c) \in {200, 201}
      BY <3>1 DEF Status
    <3>3. QED
      BY <2>1, <2>3, <3>2 DEF Keyed, RetryTellsOutcome
  <2>4. CASE c.op = "createBooking" /\ ~Keyed(c)
    <3>1. ~Replayed(c)
      BY <2>4 DEF Replayed, Keyed, NewBookingKey
    <3>2. VoyageExists(c.req.voyage)
      BY <2>2, <2>4 DEF Remembered, SpaceInv, Sails, VoyageOf
    <3>3. ~ContainerFree(c.req.container)
      BY <2>2, <2>4 DEF Done, ContainerFree
    <3>4. Refusal(c) = CreateRefusal(c.req)
      BY <2>4 DEF Refusal
    <3>5. Refusal(c) = "ErrConflict"
      BY <3>2, <3>3, <3>4 DEF CreateRefusal, Check
    <3>6. Status(c) = 409
      BY <3>1, <3>5, Statuses DEF Status, Fine
    <3>7. QED
      BY <2>1, <2>4, <3>6 DEF RetryTellsOutcome
  <2>5. CASE c.op = "bindBill"
    <3>1. Refusal(c) = Fine
      <4>1. Refusal(c) = BillRefusal(c.b, c.bill)
        BY <2>5 DEF Refusal
      <4>2. BillRefusal(c.b, c.bill) = Fine
        BY <2>2, <2>5 DEF Done, BillRefusal, Found, Check
      <4>3. QED
        BY <4>1, <4>2
    <3>2. Status(c) = 200
      BY <2>5, <3>1 DEF Status, Aborted
    <3>3. QED
      BY <2>1, <2>5, <3>2 DEF RetryTellsOutcome
  <2>6. CASE c.op = "changePort"
    <3>1. Refusal(c) \in {Fine, "ErrWindowClosed"}
      <4>1. Refusal(c) = PortRefusal(c.b, c.port)
        BY <2>6 DEF Refusal
      <4>2. PortRefusal(c.b, c.port) \in {Fine, "ErrWindowClosed"}
        BY <2>2, <2>6 DEF Done, PortRefusal, Found, Check
      <4>3. QED
        BY <4>1, <4>2
    <3>2. Status(c) \in {200, 422}
      BY <2>6, <3>1, Statuses DEF Status, Aborted
    <3>3. QED
      BY <2>1, <2>6, <3>2 DEF RetryTellsOutcome, Keyed
  <2>7. CASE /\ ~Keyed(c)
             /\ c.op \notin {"createBooking", "cancelBooking", "bindBill", "changePort"}
    <3>1. c.op \in {"submitDocuments", "verifyStorage", "allocateSpace", "payDeposit",
                    "customsRelease", "customsReject", "confirmBooking", "requeueBooking"}
      BY <2>2, <2>7 DEF Calls
    <3>2. Status(c) = 422
      BY <2>2, <2>7, <3>1, MovedOnRefuses
    <3>3. QED
      BY <2>1, <2>7, <3>2 DEF RetryTellsOutcome
  <2>8. QED
    BY <2>3, <2>4, <2>5, <2>6, <2>7
<1>2. ApiSpec => []SpaceInv
  BY ApiImplementsService, SpaceInit, SpaceStep, PTL DEF Spec
<1>3. QED
  BY <1>1, <1>2, LostCallsAreKept, PTL
==============================================================================
