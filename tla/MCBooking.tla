------------------------------ MODULE MCBooking -------------------------------
(***************************************************************************)
(* Instances of the booking service for TLC.  One voyage of each shape and *)
(* one way to ask for a booking per container keep the instances small;    *)
(* the configurations choose the bookings, the clock and the retries.      *)
(***************************************************************************)
EXTENDS BookingProps, TLC

CONSTANTS v1, v2, r1, p1, p2, c1, c2, c3, c4

Request(container, kind, key) ==
  [key |-> key, voyage |-> v1, container |-> container, kind |-> kind, port |-> p1]

VoyageRequest(dg, gen, cutoff, departure, ports) ==
  [capacity |-> [k \in Kinds |-> IF k = "dg" THEN dg ELSE gen],
   cutoff |-> cutoff, departure |-> departure, ports |-> ports]

\* Forwarders competing for general slots, each with a container of its own.
GeneralRequests == {Request(c, "gen", None) : c \in {c1, c2, c3}}
\* Dangerous cargo only.
DangerousRequests == {Request(c, "dg", None) : c \in {c1, c2, c3}}
\* Both pools; a container always carries the same cargo.
MixedRequests == {Request(c1, "dg", None), Request(c2, "dg", None),
                  Request(c3, "gen", None), Request(c4, "gen", None)}
\* Everybody wants the same container.
SharedContainer ==
  {Request(c1, "gen", None), [Request(c1, "gen", r1) EXCEPT !.voyage = v2]}

OneSlotEach == {VoyageRequest(1, 1, 9, 10, {p1})}
OneOrTwoSlots == OneSlotEach \cup {VoyageRequest(2, 2, 9, 10, {p1})}
\* The second request is refused.
SoonCutoff  == {VoyageRequest(1, 1, 2, 4, {p1, p2}), VoyageRequest(-1, 1, 2, 4, {p1})}

AlwaysValid  == {[issued |-> 0, expires |-> 9]}
\* A certificate that expires early and one that is not valid yet.
TimedCertificates == {[issued |-> 0, expires |-> 1], [issued |-> 2, expires |-> 9]}

OneStorageSlot == {1, -1}

\* No instance tells bookings apart, nor locations, nor the containers that are
\* asked for with the same class.
BookingSymmetry == Permutations(Bookings)
RaceSymmetry    == BookingSymmetry \cup Permutations({c1, c2, c3}) \cup Permutations(Locations)
MixedSymmetry   == BookingSymmetry \cup Permutations({c1, c2}) \cup Permutations({c3, c4})
==============================================================================
