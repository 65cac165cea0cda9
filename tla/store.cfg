\* Three transactions and a reader, a process that stops twice.  No symmetry,
\* since liveness is checked.
CONSTANTS
  Writers = {w1, w2, w3}
  Readers = {r1}
  Root = Root
  Nobody = Nobody
  Unread = Unread
  MaxStops = 2
SPECIFICATION FairSpec
CHECK_DEADLOCK FALSE
INVARIANTS StoreOK OutcomesAreKept
PROPERTIES ImplementsAtomicStore CallsReturn
