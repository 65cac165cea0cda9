\* Three dangerous bookings compete for one or two slots, storage included, one
\* customs rejection each: holds, the deposit race, the waitlist, rollbacks.
CONSTANTS
  v1 = v1  v2 = v2  r1 = r1  p1 = p1  p2 = p2  c1 = c1  c2 = c2  c3 = c3  c4 = c4
  Bookings = {b1, b2, b3}
  None = None
  Ports = {p1}
  Voyages = {v1}
  Locations = {s1, s2}
  Containers = {c1, c2, c3, c4}
  BookingKeys = {r1}
  Bills = {}
  DepositKeys = {}
  Certificates <- AlwaysValid
  Requests <- DangerousRequests
  VoyageRequests <- OneOrTwoSlots
  StorageCapacities = {2}
  HoldDuration = 1
  CutoffThreshold = 1
  PortChangeWindow = 1
  MaxTime = 0
  MaxDeposits = 2
  MaxRequeues = 1
SPECIFICATION Spec
SYMMETRY RaceSymmetry
CHECK_DEADLOCK FALSE
INVARIANTS CapacityRespected SpaceFollowsState WaitlistFollowsState QueriesPredictCalls
INVARIANTS StorageFollowsState StorageCapacityRespected DepositFollowsState PaidDangerousIsReady
PROPERTIES NoOvertaking OthersOnlyPromoted TransitionsAreLegal
PROPERTIES DepositsArePermanent ImplementsSlotCompetition
