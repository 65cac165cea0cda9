---------------------------- MODULE BookingStates ----------------------------
(***************************************************************************)
(* The booking state machine of internal/domain/booking.go and the cargo   *)
(* classification of internal/domain/types.go.                             *)
(***************************************************************************)

\* CargoType reduced to what IsDangerous distinguishes: battery and dangerous
\* cargo use the DG pool, photovoltaic and general cargo the general one.
Kinds == {"dg", "gen"}

IsDangerous(kind) == kind = "dg"

\* The legal edges, as the code's map lists them.  "rejected" only ever exists
\* inside the CustomsReject transaction.
validTransitions ==
  [ initiated        |-> {"docs_submitted", "cancelled"},
    docs_submitted   |-> {"storage_verified", "cancelled"},
    storage_verified |-> {"space_allocated", "waitlisted", "cancelled"},
    space_allocated  |-> {"deposit_paid", "waitlisted", "cancelled"},
    waitlisted       |-> {"space_allocated", "cancelled"},
    deposit_paid     |-> {"customs_released", "cancelled"},
    customs_released |-> {"confirmed", "rejected", "cancelled"},
    rejected         |-> {"pending_review"},
    pending_review   |-> {"initiated", "cancelled"},
    confirmed        |-> {},
    cancelled        |-> {} ]

States == DOMAIN validTransitions

\* M_ operators are the deliberately wrong variants the mutation runs swap in.
M_AnyTransition(from, to) == TRUE

CanTransitionTo(from, to) == to \in validTransitions[from]

IsActive(state) == state \in States \ {"cancelled", "confirmed", "pending_review"}
==============================================================================
