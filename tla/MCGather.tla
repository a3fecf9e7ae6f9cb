------------------------------- MODULE MCGather --------------------------------
(***************************************************************************)
(* The instance of the gathering that TLC explores: a stream of each node. *)
(***************************************************************************)
EXTENDS Gather

CONSTANTS here, there

MCHosts == {here, there}
MCLocal == {1}
================================================================================
