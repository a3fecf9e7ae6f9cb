----------------------------- MODULE MCCoalescer -----------------------------
(***************************************************************************)
(* The instances of the coalescer that TLC explores.  Two jobs make a gulp *)
(* complete; the deliveries are chosen so that one gulp can be complete,   *)
(* short, late, delivered twice, quiet, vetoed away or over the storm cap. *)
(***************************************************************************)
EXTENDS Coalescer

CONSTANTS g1, g2, gbad,  \* gulp keys, the last with an unreadable start time
          j1, j2         \* jobs

Deliver(i, j, k, kept, vetoed) ==
  [id |-> i, job |-> j, key |-> k, kept |-> kept, vetoed |-> vetoed]

MCKey == {g1, g2, gbad}
MCJob == {j1, j2}
MCBad == {gbad}

\* A gulp over the storm cap, one short and quiet, and a bad start time.
MCBatch == {Deliver(1, j1, g1, 2, 0), Deliver(2, j2, g1, 0, 1),
            Deliver(3, j1, g1, 0, 1), Deliver(4, j1, gbad, 1, 1)}
==============================================================================
