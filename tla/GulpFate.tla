------------------------------ MODULE GulpFate ------------------------------
(***************************************************************************)
(* What the t2d coalescer promises, with no clock, no waiter and no        *)
(* counters.  Every batch a hella job delivers ends with one fate, and the *)
(* batches of one gulp that are held together are decided together: all of *)
(* them are clustered (or observed quiet) or all of them are skipped.      *)
(* Fewer than Need of them are never clustered.                            *)
(*                                                                         *)
(* Coalescer.tla is shown to implement this specification.                 *)
(***************************************************************************)
EXTENDS Integers, FiniteSets

CONSTANTS
  Batch,   \* the deliveries, records with a field "key"
  Need     \* how many batches make a gulp complete (coalesce_jobs)

VARIABLE fate   \* what became of each batch

(***************************************************************************)
(* new: not delivered yet.  held: waiting for the rest of its gulp.        *)
(* clustering: its gulp is being clustered.  clustered, quiet, skipped:    *)
(* its gulp has a gulp_stats row of that kind.  gone: no row will ever     *)
(* account for it (a failed read, an exception, a crash).                  *)
(***************************************************************************)
Fates == {"new", "held", "clustering", "clustered", "quiet", "skipped", "gone"}

FateInit == fate = [b \in Batch |-> "new"]

\* The batches S get the fate f, every other batch keeps its own.
Settle(S, f) == fate' = [b \in Batch |-> IF b \in S THEN f ELSE fate[b]]

HeldOf(k) == {b \in Batch : b.key = k /\ fate[b] = "held"}

\* A delivery is taken in, or never becomes part of a gulp.
Receive(b) ==
  /\ fate[b] = "new"
  /\ Settle({b}, "held") \/ Settle({b}, "gone")

\* Everything held for a gulp is decided at once, and only a complete gulp goes on.
Decide(k) ==
  /\ HeldOf(k) # {}
  /\ \/ Cardinality(HeldOf(k)) >= Need /\ Settle(HeldOf(k), "clustering")
     \/ Cardinality(HeldOf(k)) >= Need /\ Settle(HeldOf(k), "quiet")
     \/ Cardinality(HeldOf(k)) < Need  /\ Settle(HeldOf(k), "skipped")
     \/ Settle(HeldOf(k), "gone")

\* A complete gulp's clustering ends, for all of its batches.
Finish(S) ==
  /\ S # {} /\ Cardinality(S) >= Need
  /\ \A b \in S : fate[b] = "clustering"
  /\ \A b, c \in S : b.key = c.key
  /\ Settle(S, "clustered") \/ Settle(S, "gone")

\* The process dies: what it held in memory is gone, what it wrote stays.
Crash == Settle({b \in Batch : fate[b] \in {"held", "clustering"}}, "gone")

FateNext ==
  \/ \E b \in Batch : Receive(b) \/ Decide(b.key)
  \/ \E S \in SUBSET Batch : Finish(S)
  \/ Crash

FateSpec == FateInit /\ [][FateNext]_fate

=============================================================================
