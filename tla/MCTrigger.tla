------------------------------ MODULE MCTrigger ------------------------------
(***************************************************************************)
(* The instances of the trigger stage that TLC explores.  A day is a few   *)
(* clock units, so that a call can be under way over midnight.             *)
(***************************************************************************)
EXTENDS Trigger

CONSTANTS here, there   \* the node of t2d and the second backend node

MCHost == {here, there}

CallFor(i, blind, voltage, host) ==
  [id |-> i, blind |-> blind, voltage |-> voltage, host |-> host]

MCHostOne == {here}

\* Two blind events of one node that qualify for a voltage dump as well.
MCEvent == {CallFor(1, TRUE, TRUE, here), CallFor(2, TRUE, TRUE, here)}

\* One event of the fast path, whose dump goes to the other node.
MCEventRemote == {CallFor(1, FALSE, TRUE, there)}

Running(dumps, reset, voltage) ==
  [dumps |-> dumps, reset |-> reset, voltage |-> voltage]

MCConfigs == {Running(FALSE, "triggered", FALSE), Running(TRUE, "triggered", TRUE),
              Running(TRUE, "eligible", FALSE)}

MCConfigsVolt == {Running(TRUE, "triggered", TRUE)}

\* What config/t2d.yaml ships with.
MCConfigsShipped == {Running(TRUE, "triggered", FALSE)}
==============================================================================
