------------------------------- MODULE ShotLife -------------------------------
(***************************************************************************)
(* What the injection bot promises of a shot, whatever fails, restarts or  *)
(* runs beside it.  A shot is resolved once and for all: "fire_failed"     *)
(* only while its pulse is not in the stream, "recovered" or "missed" only *)
(* once it is, and the pulse goes out at most once.  Only a missed shot    *)
(* draws an attention message, and one.  Only a recovered shot deletes any *)
(* dump, once.                                                             *)
(*                                                                         *)
(* Injection.tla is shown to implement this specification.                 *)
(***************************************************************************)
EXTENDS Naturals, Sequences

VARIABLES
  outcome,   \* of each shot in the ledger, "open" until it is resolved
  inStream,  \* the shots whose pulse was written to the stream
  alerted,   \* the shots that drew an attention message
  cleaned    \* the shots that deleted dumps

life == <<outcome, inStream, alerted, cleaned>>

LifeInit == outcome = <<>> /\ inStream = {} /\ alerted = {} /\ cleaned = {}

Shots == DOMAIN outcome

\* A shot enters the ledger, to be fired or as one that could not be.
Enter ==
  /\ \E first \in {"open", "fire_failed"} : outcome' = Append(outcome, first)
  /\ UNCHANGED <<inStream, alerted, cleaned>>

Go(i) ==
  /\ outcome[i] = "open" /\ i \notin inStream
  /\ inStream' = inStream \union {i}
  /\ UNCHANGED <<outcome, alerted, cleaned>>

Resolve(i, result) ==
  /\ outcome[i] = "open"
  /\ IF i \in inStream THEN result \in {"recovered", "missed"} ELSE result = "fire_failed"
  /\ outcome' = [outcome EXCEPT ![i] = result]
  /\ UNCHANGED <<inStream, alerted, cleaned>>

Alert(i) ==
  /\ outcome[i] = "missed" /\ i \notin alerted
  /\ alerted' = alerted \union {i}
  /\ UNCHANGED <<outcome, inStream, cleaned>>

Clean(i) ==
  /\ outcome[i] = "recovered" /\ i \notin cleaned
  /\ cleaned' = cleaned \union {i}
  /\ UNCHANGED <<outcome, inStream, alerted>>

LifeNext ==
  \/ Enter
  \/ \E i \in Shots :
       \/ Go(i) \/ Alert(i) \/ Clean(i)
       \/ \E result \in {"recovered", "missed", "fire_failed"} : Resolve(i, result)

LifeSpec == LifeInit /\ [][LifeNext]_life

=============================================================================
