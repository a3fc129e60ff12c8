----------------------------- MODULE MCSysTime -----------------------------
(***************************************************************************)
(* Settings of the clock for model checking SysTime.                       *)
(***************************************************************************)
EXTENDS SysTime

Modes24 == [binary : BOOLEAN, hours24 : {TRUE}]
Modes12 == [binary : BOOLEAN, hours24 : {FALSE}]

\* Carries from the second up to the hour, one- and two-digit values.
CarryValues ==
  [second |-> <<0, 59>>, minute |-> <<0, 59>>, hour |-> <<9, 23>>,
   day |-> <<31>>, month |-> <<12>>, year |-> <<18>>]

\* All hours of a day.
HourValues ==
  [second |-> <<59>>, minute |-> <<59>>, hour |-> [i \in 1 .. 24 |-> i - 1],
   day |-> <<1>>, month |-> <<1>>, year |-> <<18>>]

=============================================================================
