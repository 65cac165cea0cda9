---------------------------- MODULE AtomicStore ------------------------------
(***************************************************************************)
(* What the store promises its callers: one database that every            *)
(* transaction changes in a single step and every View reads in a single   *)
(* step.  A process that stops keeps the database and leaves its open      *)
(* calls without an answer.                                                *)
(***************************************************************************)
EXTENDS StoreData

CONSTANTS Readers, Unread

VARIABLES
  db,       \* the database, as a restart would find it
  outcome,  \* what became of each Mutate call
  seen      \* the data each View call works with

vars == <<db, outcome, seen>>

Init ==
  /\ db = NewData
  /\ outcome = [w \in Writers |-> "open"]
  /\ seen = [r \in Readers |-> Unread]

Commit(w) ==
  /\ outcome[w] = "open"
  /\ db' = Transaction(db, w)
  /\ outcome' = [outcome EXCEPT ![w] = "applied"]
  /\ UNCHANGED seen

Answer(w) ==
  /\ outcome[w] = "applied"
  /\ outcome' = [outcome EXCEPT ![w] = "answered"]
  /\ UNCHANGED <<db, seen>>

Refuse(w) ==
  /\ outcome[w] = "open"
  /\ outcome' = [outcome EXCEPT ![w] = "refused"]
  /\ UNCHANGED <<db, seen>>

Read(r) ==
  /\ seen[r] = Unread
  /\ seen' = [seen EXCEPT ![r] = db]
  /\ UNCHANGED <<db, outcome>>

\* The caller has done its work with the data, if it had any.
Finish(r) ==
  /\ seen' = [seen EXCEPT ![r] = Unread]
  /\ UNCHANGED <<db, outcome>>

\* Calls that had not been answered stay so; which of the others had begun is
\* not said.
Stop ==
  /\ \E cut \in SUBSET {w \in Writers : outcome[w] \in {"open", "applied"}} :
       /\ \A w \in Writers : outcome[w] = "applied" => w \in cut
       /\ outcome' = [w \in Writers |-> IF w \in cut THEN "unknown" ELSE outcome[w]]
  /\ \E cut \in SUBSET Readers :
       seen' = [r \in Readers |-> IF r \in cut THEN Unread ELSE seen[r]]
  /\ UNCHANGED db

Next ==
  \/ \E w \in Writers : Commit(w) \/ Answer(w) \/ Refuse(w)
  \/ \E r \in Readers : Read(r) \/ Finish(r)
  \/ Stop

Spec == Init /\ [][Next]_vars
==============================================================================
