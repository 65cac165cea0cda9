--------------------------- MODULE SlotCompetition ----------------------------
(***************************************************************************)
(* What the booking service promises to those who compete for space: every *)
(* player who entered for a venue may hold while there is room, winners    *)
(* never exceed the room, a holder who comes too late waits behind all     *)
(* those who wait already, and whenever somebody gives up, those who wait  *)
(* are admitted in order as far as there is room.  No maps, no documents,  *)
(* no list with entries left behind by players who have gone.              *)
(***************************************************************************)
EXTENDS Naturals, FiniteSets

CONSTANTS Players, Venues, Classes, Nowhere

VARIABLES
  room,    \* slots of each class at each venue
  venue,   \* where each player competes, or Nowhere
  class,   \* for which class
  role,    \* "out", "holder", "winner" or "waiting"
  ahead    \* the pairs <<p, q>> in which p waits ahead of q

vars == <<room, venue, class, role, ahead>>

Init ==
  /\ room = [v \in Venues |-> [k \in Classes |-> 0]]
  /\ venue = [p \in Players |-> Nowhere]
  /\ class = [p \in Players |-> "none"]
  /\ role = [p \in Players |-> "out"]
  /\ ahead = {}

Winners(v, k) == {p \in Players : role[p] = "winner" /\ venue[p] = v /\ class[p] = k}

Queue(v) == {p \in Players : role[p] = "waiting" /\ venue[p] = v}

HasRoom(v, k) == Cardinality(Winners(v, k)) < room[v][k]

\* A venue opens before anyone enters for it.
Open(v) ==
  /\ \A p \in Players : venue[p] # v
  /\ room'[v] \in [Classes -> Nat]
  /\ \A u \in Venues \ {v} : room'[u] = room[u]
  /\ UNCHANGED <<venue, class, role, ahead>>

Enter(p, v, k) ==
  /\ venue[p] = Nowhere
  /\ venue' = [venue EXCEPT ![p] = v]
  /\ class' = [class EXCEPT ![p] = k]
  /\ UNCHANGED <<room, role, ahead>>

\* p takes another role, and so does nobody else.
Becomes(p, r) ==
  /\ role'[p] = r
  /\ \A o \in Players \ {p} : role'[o] = role[o]
  /\ UNCHANGED <<room, venue, class>>

Hold(p) ==
  /\ role[p] = "out"
  /\ venue[p] # Nowhere
  /\ Becomes(p, "holder")
  /\ HasRoom(venue[p], class[p])
  /\ UNCHANGED ahead

Win(p) ==
  /\ role[p] = "holder"
  /\ Becomes(p, "winner")
  /\ HasRoom(venue[p], class[p])
  /\ UNCHANGED ahead

Lose(p) ==
  /\ role[p] = "holder"
  /\ Becomes(p, "waiting")
  /\ ~HasRoom(venue[p], class[p])
  /\ ahead' = ahead \cup (Queue(venue[p]) \X {p})

\* Whether q could hold once p has given up.
Admissible(q, p) ==
  Cardinality(Winners(venue[p], class[q]) \ {p}) < room[venue[p]][class[q]]

\* The admitted are those at the front of the queue, up to the first for whom
\* there is no room.
Admits(p, admitted) ==
  LET rest == Queue(venue[p]) \ admitted IN
  /\ \A q \in admitted : Admissible(q, p)
  /\ \A q \in admitted, o \in rest : <<q, o>> \in ahead
  /\ rest # {} => \E q \in rest : /\ ~Admissible(q, p)
                                  /\ \A o \in rest \ {q} : <<q, o>> \in ahead

\* p gives up, whatever it has by then.  A player who leaves the queue keeps its
\* place until the admissions are made.
Leave(p) ==
  /\ venue[p] # Nowhere
  /\ role'[p] = "out"
  /\ \E admitted \in SUBSET Queue(venue[p]) :
       /\ Admits(p, admitted)
       /\ \A o \in Players \ {p} :
            role'[o] = IF o \in admitted THEN "holder" ELSE role[o]
       /\ ahead' = {pair \in ahead : \A o \in admitted \cup {p} : o # pair[1] /\ o # pair[2]}
  /\ UNCHANGED <<room, venue, class>>

Next ==
  \/ \E v \in Venues : Open(v)
  \/ \E p \in Players :
       \/ \E v \in Venues, k \in Classes : Enter(p, v, k)
       \/ Hold(p) \/ Win(p) \/ Lose(p) \/ Leave(p)

Spec == Init /\ [][Next]_vars
==============================================================================
