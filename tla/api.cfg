\* Two bookings of one container, keys, bills and a customs rejection each; an
\* answer gets lost.
CONSTANTS
  v1 = v1  r1 = r1  p1 = p1  p2 = p2  c1 = c1
  Bookings = {b1, b2}
  None = None
  Ports = {p1}
  Voyages = {v1}
  Locations = {s1}
  Containers = {c1}
  BookingKeys = {r1}
  Bills = {bill1}
  DepositKeys = {k1}
  Certificates <- ApiCertificates
  Requests <- ApiRequests
  VoyageRequests <- ApiVoyages
  StorageCapacities <- ApiCapacities
  HoldDuration = 1
  CutoffThreshold = 1
  PortChangeWindow = 3
  MaxTime = 1
  MaxDeposits = 2
  MaxRequeues = 1
SPECIFICATION ApiSpec
SYMMETRY ApiSymmetry
CHECK_DEADLOCK FALSE
INVARIANTS KeysNameOne RetryIsAnswered RetryTellsOutcome
PROPERTIES RetryIsHarmless ConfirmedIsFinal
