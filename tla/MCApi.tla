-------------------------------- MODULE MCApi ---------------------------------
(***************************************************************************)
(* Instances of the HTTP layer for TLC: one container that is asked for    *)
(* as general cargo with a key and as dangerous cargo without one.         *)
(****************************************************************************)
EXTENDS Api, TLC

CONSTANTS v1, r1, p1, p2, c1

ApiRequests ==
  { [key |-> r1, voyage |-> v1, container |-> c1, kind |-> "gen", port |-> p1],
    [key |-> None, voyage |-> v1, container |-> c1, kind |-> "dg", port |-> p1] }

VoyageRequest(gen, cutoff) ==
  [ capacity |-> [k \in Kinds |-> IF k = "gen" THEN gen ELSE 1],
    cutoff |-> cutoff, departure |-> 3, ports |-> Ports ]

\* With room for both cargo classes, and a refused one. Ports may change at time
\* 0 and no more at time 1.
ApiVoyages == {VoyageRequest(1, 2), VoyageRequest(1, 3)}

ApiCertificates == {[issued |-> 0, expires |-> 9]}

ApiCapacities == {1, 0}

ApiSymmetry == Permutations(Bookings)
==============================================================================
