---------------------------- MODULE MCReservation ----------------------------
(***************************************************************************)
(* One volume, a reservation or a copy, two claims under its name at most. *)
(***************************************************************************)
EXTENDS ReservationCopy

MCBudgets == {[users |-> 2, outside |-> 0, crashes |-> 1],
              [users |-> 1, outside |-> 1, crashes |-> 1]}

=============================================================================
