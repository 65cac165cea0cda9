\* Refuted: see README.md, Findings.
CONSTANTS
  v1 = v1  v2 = v2  r1 = r1  p1 = p1  p2 = p2  c1 = c1  c2 = c2  c3 = c3  c4 = c4
  Bookings = {b1, b2, b3, b4}
  None = None
  Ports = {p1}
  Voyages = {v1}
  Locations = {s1}
  Containers = {c1, c2, c3, c4}
  BookingKeys = {r1}
  Bills = {}
  DepositKeys = {}
  Certificates <- AlwaysValid
  Requests <- MixedRequests
  VoyageRequests <- OneSlotEach
  StorageCapacities = {2}
  HoldDuration = 1
  CutoffThreshold = 1
  PortChangeWindow = 1
  MaxTime = 0
  MaxDeposits = 2
  MaxRequeues = 0
SPECIFICATION Spec
SYMMETRY BookingSymmetry
CHECK_DEADLOCK FALSE
INVARIANTS CancelledHoldsNothing
