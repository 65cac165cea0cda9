------------------------------ MODULE Scheduler -------------------------------
(***************************************************************************)
(* The scheduler of internal/scheduler/scheduler.go running beside the     *)
(* booking API.  One pass lists the expired holds under a read lock, then  *)
(* cancels them one transaction at a time; then it does the same for the   *)
(* dangerous bookings that breach the cutoff rule.  API calls come between *)
(* any two of these steps, so the lists grow stale.  The error of a        *)
(* cancellation (the store failed to save) is dropped, and a restart of    *)
(* the process loses the lists but not the store.                          *)
(***************************************************************************)
EXTENDS BookingProps

CONSTANT MaxFaults   \* bound on failed saves and restarts

ASSUME FaultAssumption == MaxFaults \in Nat

VARIABLES
  phase,    \* what Run is doing
  expired,  \* bookings CheckDepositTimeouts still has to cancel
  overdue,  \* bookings CheckCutoffCompliance still has to cancel
  faults    \* failures so far

scheduler == <<phase, expired, overdue, faults>>
allVars   == <<vars, scheduler>>

\* A list exists only while its half of the pass works it off: none outlives
\* the pass, not even by a restart.
SchedTypeOK ==
  /\ phase \in {"waiting", "timeouts", "compliance"}
  /\ expired \in SUBSET Bookings
  /\ overdue \in SUBSET Bookings
  /\ expired # {} => phase = "timeouts"
  /\ overdue # {} => phase = "compliance"
  /\ faults \in Nat

SchedInit ==
  /\ Init
  /\ phase = "waiting"
  /\ expired = {}
  /\ overdue = {}
  /\ faults = 0
------------------------------------------------------------------------------
InInspection(b) == StateOf(b) \in {"deposit_paid", "customs_released"}

\* The ticker fires.  The clock is read and the voyages are scanned in one step:
\* a scan that used an older time would list fewer holds.
ScanTimeouts ==
  /\ phase = "waiting"
  /\ phase' = "timeouts"
  /\ expired' = UNION {ExpiredHolds(voyage[v], now) : v \in Voyages}
  /\ UNCHANGED <<vars, overdue, faults>>

M_ReleaseExpired(b) ==
  /\ phase = "timeouts"
  /\ b \in expired
  /\ expired' = expired \ {b}
  /\ IF StateOf(b) = "space_allocated"
     THEN /\ booking' = [booking EXCEPT ![b].state = "cancelled"]
          /\ voyage' = [voyage EXCEPT ![VoyageOf(b)] = ReleaseSpace(@, b)]
          /\ UNCHANGED <<now, storage, deposit>>
     ELSE UNCHANGED vars
  /\ UNCHANGED <<phase, overdue, faults>>

\* CancelExpiredHold returns nil without a change when the booking moved on.
ReleaseExpired(b) ==
  /\ phase = "timeouts"
  /\ b \in expired
  /\ expired' = expired \ {b}
  /\ CancelExpiredHold(b) \/ (StateOf(b) # "space_allocated" /\ UNCHANGED vars)
  /\ UNCHANGED <<phase, overdue, faults>>

M_ScanPaidOnly ==
  /\ phase = "timeouts"
  /\ expired = {}
  /\ phase' = "compliance"
  /\ overdue' = {b \in Bookings : StateOf(b) = "deposit_paid" /\ ~CutoffCompliant(b)}
  /\ UNCHANGED <<vars, expired, faults>>

ScanCompliance ==
  /\ phase = "timeouts"
  /\ expired = {}
  /\ phase' = "compliance"
  /\ overdue' = {b \in Bookings : InInspection(b) /\ ~CutoffCompliant(b)}
  /\ UNCHANGED <<vars, expired, faults>>

CancelOverdue(b) ==
  /\ phase = "compliance"
  /\ b \in overdue
  /\ overdue' = overdue \ {b}
  /\ CancelForCutoffNonCompliance(b) \/ (~InInspection(b) /\ UNCHANGED vars)
  /\ UNCHANGED <<phase, expired, faults>>

Sleep ==
  /\ phase = "compliance"
  /\ overdue = {}
  /\ phase' = "waiting"
  /\ UNCHANGED <<vars, expired, overdue, faults>>

\* saveData fails, Mutate discards the transaction, the error is ignored.
LoseCancellation(b) ==
  /\ faults < MaxFaults
  /\ faults' = faults + 1
  /\ b \in expired \cup overdue
  /\ expired' = expired \ {b}
  /\ overdue' = overdue \ {b}
  /\ UNCHANGED <<vars, phase>>

M_RestartKeepsLists ==
  /\ faults < MaxFaults
  /\ faults' = faults + 1
  /\ phase' = "waiting"
  /\ UNCHANGED <<vars, expired, overdue>>

\* The process stops and comes up again with what the store has on disk.
Restart ==
  /\ faults < MaxFaults
  /\ faults' = faults + 1
  /\ phase' = "waiting"
  /\ expired' = {}
  /\ overdue' = {}
  /\ UNCHANGED vars
------------------------------------------------------------------------------
Pass ==
  \/ ScanTimeouts
  \/ ScanCompliance
  \/ Sleep
  \/ \E b \in Bookings : ReleaseExpired(b) \/ CancelOverdue(b)

SchedNext ==
  \/ (Tick \/ ApiStep) /\ UNCHANGED scheduler
  \/ Pass
  \/ \E b \in Bookings : LoseCancellation(b)
  \/ Restart

SchedSpec == SchedInit /\ [][SchedNext]_allVars

\* The ticker keeps firing and Go's mutex lets every waiter in eventually, so
\* the goroutine of Run keeps moving.  Nothing is assumed of clients and clock.
FairSpec == SchedSpec /\ WF_allVars(Pass)
------------------------------------------------------------------------------
\* The scheduler does nothing to the entities that a call of the booking service
\* would not do, so everything proved of the service holds beside it.
ImplementsBookingService == Spec

\* A deposit that arrives while the timeouts are being worked off is safe: this
\* half of the pass changes no booking that has paid, however old its list is.
PaidSurvivesTimeouts ==
  [][phase = "timeouts" /\ phase' = "timeouts" /\ expired' # expired =>
       \A b \in Bookings : Paid(b) => booking'[b] = booking[b] /\ deposit'[b] = deposit[b]]_allVars

\* Nothing is cancelled for the cutoff that is neither paid nor dangerous, in
\* spite of the time between the listing and the cancellation.
OnlyDangerousOverdue ==
  [][phase = "compliance" /\ phase' = "compliance" /\ overdue' # overdue =>
       \A b \in Bookings :
         booking'[b].state = "cancelled" /\ StateOf(b) # "cancelled" =>
           InInspection(b) /\ IsDangerous(booking[b].kind)]_allVars

OverstaysHold(b) ==
  /\ StateOf(b) = "space_allocated"
  /\ voyage[VoyageOf(b)].holds[b].expires <= now

\* A hold does not outlive its deadline for good, with failed saves and restarts
\* in between: the next pass finds it again.
ExpiredHoldReleased == \A b \in Bookings : OverstaysHold(b) ~> ~OverstaysHold(b)

BreachesCutoff(b) == InInspection(b) /\ ~CutoffCompliant(b)

\* Dangerous cargo that breaches the cutoff rule does not stay in the flow.
BreachIsResolved == \A b \in Bookings : BreachesCutoff(b) ~> ~BreachesCutoff(b)

\* "holds whose deposit deadline has passed" (service.go, CancelExpiredHold):
\* the scheduler cancels no hold before its deadline.  Refuted: a listed booking
\* that lost the deposit race and was promoted again has a fresh hold.
OnlyExpiredHoldsCancelled ==
  [][phase = "timeouts" /\ phase' = "timeouts" /\ expired' # expired =>
       \A b \in Bookings :
         StateOf(b) = "space_allocated" /\ booking'[b].state = "cancelled"
           => OverstaysHold(b)]_allVars
==============================================================================
