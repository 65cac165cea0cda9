\* Both halves of the pass beside one dangerous and one general booking: holds and
\* a certificate that expire, a rejection with its second pass, a failed save or a
\* restart.  No symmetry, since liveness is checked.
CONSTANTS
  v1 = v1  p1 = p1  c1 = c1  c2 = c2  c3 = c3
  Bookings = {b1, b2}
  None = None
  Ports = {p1}
  Voyages = {v1}
  Locations = {s1}
  Containers = {c1, c2}
  BookingKeys = {}
  Bills = {}
  DepositKeys = {}
  Certificates <- ExpiringCertificate
  Requests <- MixedRequests
  VoyageRequests <- OneSlotEach
  StorageCapacities = {2}
  HoldDuration = 1
  CutoffThreshold = 1
  PortChangeWindow = 1
  MaxTime = 2
  MaxDeposits = 2
  MaxRequeues = 1
  MaxFaults = 1
SPECIFICATION FairSpec
PROPERTIES OnlyDangerousOverdue BreachIsResolved ExpiredHoldReleased
