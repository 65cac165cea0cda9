----------------------------- MODULE MCScheduler ------------------------------
(***************************************************************************)
(* Instances of the scheduler beside the API.  The configurations bound    *)
(* the clock, so that holds expire, and the faults.                        *)
(***************************************************************************)
EXTENDS Scheduler, TLC

CONSTANTS v1, p1, c1, c2, c3

Request(container, kind) ==
  [key |-> None, voyage |-> v1, container |-> container, kind |-> kind, port |-> p1]

GeneralRequests == {Request(c, "gen") : c \in {c1, c2, c3}}
MixedRequests   == {Request(c1, "dg"), Request(c2, "gen")}

OneSlotEach == {[capacity |-> [k \in Kinds |-> 1], cutoff |-> 2, departure |-> 4, ports |-> {p1}]}

\* A certificate that expires before the cutoff.
ExpiringCertificate == {[issued |-> 0, expires |-> 1]}

BookingSymmetry == Permutations(Bookings)
==============================================================================
