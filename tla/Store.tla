------------------------------- MODULE Store ---------------------------------
(***************************************************************************)
(* The store of internal/store/store.go, one step per effect: the lock,    *)
(* the private copy, the puts of the transaction, the temporary file, the  *)
(* rename, the publication.  The process may stop between any two steps,   *)
(* killed or because main returns without waiting for open requests, and   *)
(* is started again with what the file holds.                              *)
(*                                                                         *)
(* Objects live on a heap: the live data is a pointer, readers keep theirs *)
(* after they have given the lock back.  The file is read and written as a *)
(* whole; JSON and ensureMaps give back the maps that were encoded.        *)
(***************************************************************************)
EXTENDS StoreData

CONSTANTS
  Readers,                      \* the goroutines that call View, once each
  Root,                         \* the object New creates or loads
  Nobody, Unread,               \* no lock holder, nothing read
  MaxStops                      \* bound on stops of the process

ASSUME NamesAssumption ==
  /\ Root \notin Writers
  /\ Nobody \notin Writers
  /\ Writers \cap Readers = {}
ASSUME StopsAssumption == MaxStops \in Nat

Objects == Writers \cup {Root}
Procs   == Writers \cup Readers

\* What a file can hold: nothing, part of an encoded Data, or all of it.
NoFile       == [holds |-> "none",  data |-> NewData]
TornFile     == [holds |-> "part",  data |-> NewData]
WholeFile(d) == [holds |-> "whole", data |-> d]

VARIABLES
  up,       \* the process is running
  stops,    \* how often it has stopped
  pc,       \* where each goroutine is
  heap,     \* Data objects
  live,     \* Store.data
  writer,   \* who holds Store.mu exclusively
  readers,  \* who holds it shared
  got,      \* what each reader's callback took with it
  path,     \* the file
  tmp       \* the temporary file

vars == <<up, stops, pc, heap, live, writer, readers, got, path, tmp>>
files  == <<path, tmp>>
memory == <<heap, live, got>>
life   == <<up, stops>>

Init ==
  /\ up = TRUE
  /\ stops = 0
  /\ pc = [p \in Procs |-> "idle"]
  /\ heap = [o \in Objects |-> NewData]
  /\ live = Root
  /\ writer = Nobody
  /\ readers = {}
  /\ got = [r \in Readers |-> Root]
  /\ path = NoFile
  /\ tmp = NoFile

Goto(p, here, there) ==
  /\ pc[p] = here
  /\ pc' = [pc EXCEPT ![p] = there]

\* A request arrives, or the scheduler makes a call.
Arrive(p) ==
  /\ up
  /\ Goto(p, "idle", "waiting")
  /\ UNCHANGED <<life, memory, writer, readers, files>>
------------------------------------------------------------------------------
(* Mutate. *)

M_WorkOf(w) == live

\* The object the transaction of w works on: a copy of its own.
WorkOf(w) == w

Lock(w) ==
  /\ writer = Nobody /\ readers = {}
  /\ Goto(w, "waiting", "begin")
  /\ writer' = w
  /\ heap' = [heap EXCEPT ![WorkOf(w)] = heap[live]]
  /\ UNCHANGED <<life, live, readers, got, files>>

DoPutBooking(w) ==
  /\ Goto(w, "begin", "half")
  /\ heap' = [heap EXCEPT ![WorkOf(w)] = PutBooking(@, w)]
  /\ UNCHANGED <<life, live, writer, readers, got, files>>

DoPutDeposit(w) ==
  /\ Goto(w, "half", "save")
  /\ heap' = [heap EXCEPT ![WorkOf(w)] = PutDeposit(@, w)]
  /\ UNCHANGED <<life, live, writer, readers, got, files>>

M_OpenTmp(w) ==
  /\ Goto(w, "save", "writing")
  /\ path' = TornFile
  /\ UNCHANGED <<life, memory, writer, readers, tmp>>

OpenTmp(w) ==
  /\ Goto(w, "save", "writing")
  /\ tmp' = TornFile
  /\ UNCHANGED <<life, memory, writer, readers, path>>

WriteTmp(w) ==
  /\ Goto(w, "writing", "written")
  /\ tmp' = WholeFile(heap[WorkOf(w)])
  /\ UNCHANGED <<life, memory, writer, readers, path>>

Rename(w) ==
  /\ Goto(w, "written", "renamed")
  /\ path' = tmp
  /\ tmp' = NoFile
  /\ UNCHANGED <<life, memory, writer, readers>>

Publish(w) ==
  /\ Goto(w, "renamed", "done")
  /\ live' = WorkOf(w)
  /\ writer' = Nobody
  /\ UNCHANGED <<life, heap, readers, got, files>>

M_Fail(w) ==
  /\ \E here \in {"begin", "half", "save", "writing", "written"} : Goto(w, here, "failed")
  /\ writer' = IF pc[w] \in {"begin", "half"} THEN Nobody ELSE writer
  /\ UNCHANGED <<life, memory, readers, files>>

\* The callback or a step of saveData returns an error: the copy is dropped,
\* the temporary file stays as it is.
Fail(w) ==
  /\ \E here \in {"begin", "half", "save", "writing", "written"} : Goto(w, here, "failed")
  /\ writer' = Nobody
  /\ UNCHANGED <<life, memory, readers, files>>
------------------------------------------------------------------------------
(* View. *)

RLock(r) ==
  /\ writer = Nobody
  /\ Goto(r, "waiting", "viewing")
  /\ readers' = readers \cup {r}
  /\ got' = [got EXCEPT ![r] = live]
  /\ UNCHANGED <<life, heap, live, writer, files>>

\* The callback's result points into the data: the handler encodes it, and the
\* scheduler walks it, when the lock is gone.
RUnlock(r) ==
  /\ Goto(r, "viewing", "using")
  /\ readers' = readers \ {r}
  /\ UNCHANGED <<life, memory, writer, files>>

Finish(r) ==
  /\ Goto(r, "using", "done")
  /\ UNCHANGED <<life, memory, writer, readers, files>>
------------------------------------------------------------------------------
(* The process. *)

Running(p) == pc[p] \notin {"idle", "done", "failed", "killed"}

StopProcess ==
  /\ up /\ stops < MaxStops
  /\ up' = FALSE
  /\ stops' = stops + 1
  /\ pc' = [p \in Procs |-> IF Running(p) THEN "killed" ELSE pc[p]]
  /\ writer' = Nobody
  /\ readers' = {}
  /\ UNCHANGED <<memory, files>>

M_Loaded == IF tmp.holds = "whole" THEN tmp.data ELSE path.data

\* What load makes of the file; a missing or empty one is an empty store.
Loaded == IF path.holds = "whole" THEN path.data ELSE NewData

\* A torn file makes load fail, and with it the process.
Start ==
  /\ ~up
  /\ path.holds # "part"
  /\ up' = TRUE
  /\ heap' = [heap EXCEPT ![Root] = Loaded]
  /\ live' = Root
  /\ UNCHANGED <<stops, pc, writer, readers, got, files>>
------------------------------------------------------------------------------
MutateStep(w) ==
  \/ Lock(w) \/ DoPutBooking(w) \/ DoPutDeposit(w)
  \/ OpenTmp(w) \/ WriteTmp(w) \/ Rename(w) \/ Publish(w)
  \/ Fail(w)

ViewStep(r) == RLock(r) \/ RUnlock(r) \/ Finish(r)

Next ==
  \/ \E p \in Procs : Arrive(p)
  \/ \E w \in Writers : MutateStep(w)
  \/ \E r \in Readers : ViewStep(r)
  \/ StopProcess
  \/ Start

Spec == Init /\ [][Next]_vars

\* A goroutine that can take a step takes it in the end.
FairSpec ==
  /\ Spec
  /\ \A w \in Writers : WF_vars(MutateStep(w))
  /\ \A r \in Readers : WF_vars(ViewStep(r))
------------------------------------------------------------------------------
(* Properties. *)

Holders == {"begin", "half", "save", "writing", "written", "renamed"}

\* The lock, the program counters and the files fit together; the process can
\* always be started again, since the file is never a torn one.
StoreOK ==
  /\ up \in BOOLEAN /\ stops \in 0..MaxStops
  /\ pc \in [Procs -> Holders \cup
       {"idle", "waiting", "viewing", "using", "done", "failed", "killed"}]
  /\ live \in Objects /\ got \in [Readers -> Objects]
  /\ writer \in Writers \cup {Nobody}
  /\ readers = {r \in Readers : pc[r] = "viewing"}
  /\ \A w \in Writers : pc[w] \in Holders <=> writer = w
  /\ writer # Nobody => readers = {}
  /\ path.holds # "part"

\* The mapping to the abstract store.  The rename is the moment a transaction
\* takes effect; a reader's data is whatever its pointer leads to now.
OutcomeOf(w) ==
  CASE pc[w] = "renamed" -> "applied"
    [] pc[w] = "done"    -> "answered"
    [] pc[w] = "failed"  -> "refused"
    [] pc[w] = "killed"  -> "unknown"
    [] OTHER             -> "open"

SeenBy(r) == IF pc[r] \in {"viewing", "using"} THEN heap[got[r]] ELSE Unread

AS == INSTANCE AtomicStore WITH
        db      <- Loaded,
        outcome <- [w \in Writers |-> OutcomeOf(w)],
        seen    <- [r \in Readers |-> SeenBy(r)]

\* The store is atomic: every transaction takes effect at once, every View sees
\* one committed state however long its result is used after the lock is gone,
\* a failed save changes nothing, and a stop loses no committed transaction.
ImplementsAtomicStore == AS!Spec

\* What callers were told holds for the file, so for every later run of the
\* process: an answered transaction is in it under one id of its own, a refused
\* one has left no trace, and an interrupted one is there as a whole or not at all.
OutcomesAreKept ==
  \A w \in Writers :
    LET bookings == Owns(w, Loaded.bookings)
        deposits == Owns(w, Loaded.deposits)
    IN
    /\ bookings = deposits
    /\ \A i, j \in bookings : i = j
    /\ pc[w] = "done" => bookings # {}
    /\ pc[w] = "failed" => bookings = {}

\* No call hangs: whatever fails, the lock is given back and everyone who waits
\* for it is served, unless the process stops first.
CallsReturn ==
  \A p \in Procs : pc[p] = "waiting" ~> pc[p] \in {"done", "failed", "killed"}
==============================================================================
