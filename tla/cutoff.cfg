\* The clock runs past the cutoff and the departure: certificates that expire or are
\* not valid yet, two ports, three containers but one bill, inputs that are refused.
CONSTANTS
  v1 = v1  v2 = v2  r1 = r1  p1 = p1  p2 = p2  c1 = c1  c2 = c2  c3 = c3  c4 = c4
  Bookings = {b1, b2}
  None = None
  Ports = {p1, p2}
  Voyages = {v1}
  Locations = {s1}
  Containers = {c1, c2, c3, c4}
  BookingKeys = {r1}
  Bills = {bill1}
  DepositKeys = {}
  Certificates <- TimedCertificates
  Requests <- DangerousRequests
  VoyageRequests <- SoonCutoff
  StorageCapacities <- OneStorageSlot
  HoldDuration = 1
  CutoffThreshold = 1
  PortChangeWindow = 2
  MaxTime = 4
  MaxDeposits = 2
  MaxRequeues = 1
SPECIFICATION Spec
SYMMETRY BookingSymmetry
CHECK_DEADLOCK FALSE
INVARIANTS TypeOK ReleasedUnderValidCertificate OnlyRequeueShares
PROPERTIES ConfirmedIsFinal
