\* Stale lists of expired holds against payments, promotions and a restart.
CONSTANTS
  v1 = v1  p1 = p1  c1 = c1  c2 = c2  c3 = c3
  Bookings = {b1, b2, b3}
  None = None
  Ports = {p1}
  Voyages = {v1}
  Locations = {}
  Containers = {c1, c2, c3}
  BookingKeys = {}
  Bills = {}
  DepositKeys = {}
  Certificates = {}
  Requests <- GeneralRequests
  VoyageRequests <- OneSlotEach
  StorageCapacities = {}
  HoldDuration = 1
  CutoffThreshold = 1
  PortChangeWindow = 1
  MaxTime = 1
  MaxDeposits = 2
  MaxRequeues = 0
  MaxFaults = 1
SPECIFICATION SchedSpec
SYMMETRY BookingSymmetry
INVARIANTS SchedTypeOK
PROPERTIES PaidSurvivesTimeouts DeadlinesStand ImplementsBookingService
