------------------------------ MODULE Coalescer ------------------------------
(***************************************************************************)
(* The gulp coalescer of the trigger daemon (apps/t2d.py): the connection  *)
(* handler _handle, the waiter _wait_for_jobs and the flush _flush_later,  *)
(* up to the gulp_stats row that _process writes for a clustered gulp.     *)
(*                                                                         *)
(* The daemon is one asyncio loop: what runs between two awaits is one     *)
(* step here.  The awaits are the socket read (a batch arrives at any      *)
(* time, or never), the waiter's sleep on an Event with a timeout, and the *)
(* clustering thread.  A process restart may fall between any two steps.   *)
(*                                                                         *)
(* The code's parallel dictionaries pending, pending_jobs, pending_first,  *)
(* pending_last and pending_vetoed are functions of the key; pending holds *)
(* the SET OF BATCHES whose candidates the code's list concatenates, so a  *)
(* key is in self.pending exactly when its set is not empty.               *)
(***************************************************************************)
EXTENDS Integers, FiniteSets, FiniteSetsExt

CONSTANTS
  Key,           \* coalescer keys, (utc_start, gulp)
  Job,           \* hella jobs, one per port
  Batch,         \* deliveries: one connection of one job for one gulp
  BadStart,      \* keys whose utc_start text does not parse as a date
  CoalesceJobs,  \* coalesce_jobs
  CoalesceS,     \* coalesce_s, in clock units
  CoalesceMaxS,  \* coalesce_max_s
  MaxCands,      \* max_cands_per_gulp
  StormSkip,     \* storm_skip_gulp
  FlushedCap,    \* the 512 flushed keys above which old ones are forgotten
  FlushedKeep,   \* the 300 s after which they are
  LoopLag,       \* bound: how late the event loop may run a task that is due
  LastArrival,   \* bound: no batch arrives after this time
  MaxTime,       \* bound: the clock stops here
  MaxRestarts    \* bound on process restarts

(***************************************************************************)
(* A delivery carries kept candidates that pass the width veto and vetoed  *)
(* ones that do not.  Several deliveries may have the same job and key: a  *)
(* job that reconnects sends a "ninth-or-later" batch.                     *)
(***************************************************************************)
ASSUME BatchAssumption ==
  /\ Batch \subseteq [id: Nat, job: Job, key: Key, kept: Nat, vetoed: Nat]
  /\ IsFiniteSet(Batch)

ASSUME ParameterAssumption ==
  /\ BadStart \subseteq Key
  /\ CoalesceJobs \in Nat \ {0}
  /\ CoalesceS \in Nat /\ CoalesceMaxS \in Nat
  /\ MaxCands \in Int /\ StormSkip \in BOOLEAN
  /\ FlushedCap \in Nat /\ FlushedKeep \in Nat
  /\ LoopLag \in Nat /\ LastArrival \in Nat /\ MaxTime \in Nat
  /\ MaxRestarts \in Nat

VARIABLES
  now,            \* the monotonic clock
  arrived,        \* when each batch was taken in; Unsent or Lost otherwise
  pending,        \* per key, the batches registered and not yet flushed
  pendingJobs,    \* per key, how many batches were counted
  pendingVetoed,  \* per key, width-vetoed candidates not yet reported
  pendingFirst,   \* per key, when its entry opened
  pendingLast,    \* per key, when its last batch landed
  wakeAt,         \* per open key, when its waiter is or was due to run
  flushed,        \* per key, when it last flushed, or NotFlushed
  lateBatches,    \* the batches counted in n_late_batches
  tasks,          \* flushes whose clustering runs in a thread
  rows,           \* the gulp_stats rows
  dead,           \* batches no row will account for (not in the program)
  restarts

memory == <<pending, pendingJobs, pendingVetoed, pendingFirst, pendingLast,
            wakeAt, flushed>>
vars == <<now, arrived, memory, lateBatches, tasks, rows, dead, restarts>>

Unsent == -1
Lost == -2
NotFlushed == -1

Outcomes == {"skipped", "quiet", "clustered"}

IsOpen(k) == pending[k] # {}
Taken(b) == arrived[b] >= 0

\* How many candidates the batches S contribute after the width veto.
KeptOf(S) == MapThenSumSet(LAMBDA b : b.kept, S)
VetoedOf(S) == MapThenSumSet(LAMBDA b : b.vetoed, S)

Init ==
  /\ now = 0
  /\ arrived = [b \in Batch |-> Unsent]
  /\ pending = [k \in Key |-> {}]
  /\ pendingJobs = [k \in Key |-> 0]
  /\ pendingVetoed = [k \in Key |-> 0]
  /\ pendingFirst = [k \in Key |-> 0]
  /\ pendingLast = [k \in Key |-> 0]
  /\ wakeAt = [k \in Key |-> 0]
  /\ flushed = [k \in Key |-> NotFlushed]
  /\ lateBatches = {}
  /\ tasks = {}
  /\ rows = {}
  /\ dead = {}
  /\ restarts = 0

-----------------------------------------------------------------------------
(***************************************************************************)
(* _handle                                                                 *)
(***************************************************************************)

CanArrive(b) == arrived[b] = Unsent /\ now <= LastArrival

\* The read fails or times out: the handler returns and registers nothing.
ReadFails(b) ==
  /\ CanArrive(b)
  /\ arrived' = [arrived EXCEPT ![b] = Lost]
  /\ UNCHANGED <<now, memory, lateBatches, tasks, rows, dead, restarts>>

CountVetoed(b) ==
  pendingVetoed' = [pendingVetoed EXCEPT ![b.key] = @ + b.vetoed]

\* Mutant: a later batch does not set the Event.
WakeOnBatchNoEventSet(b) ==
  IF IsOpen(b.key) THEN wakeAt[b.key] ELSE now

\* The time the waiter runs next: at once when a task is spawned for a new
\* entry, and at once when the Event is set unless it was already due.
WakeOnBatch(b) ==
  IF IsOpen(b.key) /\ wakeAt[b.key] < now THEN wakeAt[b.key] ELSE now

\* A batch is registered, whether or not any of its candidates survive.
Handle(b) ==
  LET k == b.key IN
  /\ CanArrive(b)
  /\ ~ (k \in BadStart /\ b.kept > 0)
  /\ arrived' = [arrived EXCEPT ![b] = now]
  /\ CountVetoed(b)
  /\ lateBatches' = IF ~ IsOpen(k) /\ flushed[k] # NotFlushed
                    THEN lateBatches \union {b} ELSE lateBatches
  /\ pending' = [pending EXCEPT ![k] = @ \union {b}]
  /\ pendingJobs' = [pendingJobs EXCEPT ![k] = @ + 1]
  /\ pendingLast' = [pendingLast EXCEPT ![k] = now]
  /\ pendingFirst' = IF IsOpen(k) THEN pendingFirst
                     ELSE [pendingFirst EXCEPT ![k] = now]
  /\ wakeAt' = [wakeAt EXCEPT ![k] = WakeOnBatch(b)]
  /\ UNCHANGED <<now, flushed, tasks, rows, dead, restarts>>

\* Reading the start time of surviving candidates raises, after the vetoed
\* ones were counted and before the batch is registered.
HandleRaises(b) ==
  /\ CanArrive(b)
  /\ b.key \in BadStart /\ b.kept > 0
  /\ arrived' = [arrived EXCEPT ![b] = now]
  /\ CountVetoed(b)
  /\ dead' = dead \union {b}
  /\ UNCHANGED <<now, pending, pendingJobs, pendingFirst, pendingLast, wakeAt,
                 flushed, lateBatches, tasks, rows, restarts>>

-----------------------------------------------------------------------------
(***************************************************************************)
(* _wait_for_jobs: one turn of its loop.                                   *)
(***************************************************************************)

MaxLeft(k) == pendingFirst[k] + CoalesceMaxS - now
QuietLeft(k) == pendingLast[k] + CoalesceS - now

\* Mutant: one job short counts as complete.
CompleteOffByOne(k) == pendingJobs[k] >= CoalesceJobs - 1

Complete(k) == pendingJobs[k] >= CoalesceJobs

Due(k) == IsOpen(k) /\ now >= wakeAt[k]

\* Mutant: a fixed hold, any quiet spell ends the wait.
WaitIsOverFixedHold(k) == MaxLeft(k) <= 0 \/ QuietLeft(k) <= 0

WaitIsOver(k) == MaxLeft(k) <= 0 \/ (Complete(k) /\ QuietLeft(k) <= 0)

\* Mutant: an incomplete quiet gulp waits for its Event with no timeout.
WaitTimeoutEventOnly(k) ==
  IF QuietLeft(k) > 0 THEN Min({MaxLeft(k), QuietLeft(k)}) ELSE MaxTime + 1

WaitTimeout(k) ==
  IF QuietLeft(k) > 0 THEN Min({MaxLeft(k), QuietLeft(k)}) ELSE MaxLeft(k)

\* The event is cleared and the waiter sleeps for at most the timeout.
Sleep(k) ==
  /\ Due(k) /\ ~ WaitIsOver(k)
  /\ wakeAt' = [wakeAt EXCEPT ![k] = now + WaitTimeout(k)]
  /\ UNCHANGED <<now, arrived, pending, pendingJobs, pendingVetoed,
                 pendingFirst, pendingLast, flushed, lateBatches, tasks, rows,
                 dead, restarts>>

-----------------------------------------------------------------------------
(***************************************************************************)
(* _flush_later, from the end of the wait to the clustering thread.        *)
(***************************************************************************)

\* Flushed keys are remembered, and old ones forgotten once there are many.
Remember(k) ==
  LET f == [flushed EXCEPT ![k] = now]
      known == {j \in Key : f[j] # NotFlushed}
  IN  IF Cardinality(known) > FlushedCap
      THEN [j \in Key |-> IF f[j] < now - FlushedKeep THEN NotFlushed ELSE f[j]]
      ELSE f

\* The entry's bookkeeping is popped with it.
PopTimes(k) ==
  /\ pendingFirst' = [pendingFirst EXCEPT ![k] = 0]
  /\ pendingLast' = [pendingLast EXCEPT ![k] = 0]
  /\ wakeAt' = [wakeAt EXCEPT ![k] = 0]
  /\ flushed' = Remember(k)

\* Mutant: the width-veto total of the gulp is read and not popped.
PopEntryKeepingVetoed(k) ==
  /\ pending' = [pending EXCEPT ![k] = {}]
  /\ pendingJobs' = [pendingJobs EXCEPT ![k] = 0]
  /\ PopTimes(k)
  /\ UNCHANGED pendingVetoed

\* Mutant: only batches with surviving candidates leave the entry.
PopEntryKeepingEmpty(k) ==
  /\ pending' = [pending EXCEPT ![k] = {b \in @ : b.kept = 0}]
  /\ pendingJobs' = [pendingJobs EXCEPT ![k] = 0]
  /\ pendingVetoed' = [pendingVetoed EXCEPT ![k] = 0]
  /\ PopTimes(k)

\* Mutant: the job count is lowered by a full gulp instead of popped.
PopEntrySubtracting(k) ==
  /\ pending' = [pending EXCEPT ![k] = {}]
  /\ pendingJobs' = [pendingJobs EXCEPT ![k] = @ - CoalesceJobs]
  /\ pendingVetoed' = [pendingVetoed EXCEPT ![k] = 0]
  /\ PopTimes(k)

\* The pops a flush starts with, all before its next await.
PopEntry(k) ==
  /\ pending' = [pending EXCEPT ![k] = {}]
  /\ pendingJobs' = [pendingJobs EXCEPT ![k] = 0]
  /\ pendingVetoed' = [pendingVetoed EXCEPT ![k] = 0]
  /\ PopTimes(k)

Flush(k) == Due(k) /\ WaitIsOver(k) /\ PopEntry(k)

Quiet(k) == \A b \in pending[k] : b.kept = 0

\* The gulp_stats row of a flush; shed is what the storm defences dropped.
RowOf(k, outcome, shed) ==
  [key |-> k, from |-> pending[k], outcome |-> outcome,
   jobs |-> pendingJobs[k], cands |-> KeptOf(pending[k]) + pendingVetoed[k],
   vetoed |-> pendingVetoed[k], shed |-> shed]

\* Mutant: a gulp is skipped when the maximum wait ended it.
FlushSkippedByDeadline(k) ==
  /\ Flush(k)
  /\ MaxLeft(k) <= 0 /\ k \notin BadStart
  /\ rows' = rows \union {RowOf(k, "skipped", 0)}
  /\ UNCHANGED <<now, arrived, lateBatches, tasks, dead, restarts>>

\* An incomplete gulp is dropped whole.
FlushSkipped(k) ==
  /\ Flush(k)
  /\ ~ Complete(k) /\ k \notin BadStart
  /\ rows' = rows \union {RowOf(k, "skipped", 0)}
  /\ UNCHANGED <<now, arrived, lateBatches, tasks, dead, restarts>>

\* A complete gulp with no surviving candidate was observed and is quiet.
FlushQuiet(k) ==
  /\ Flush(k)
  /\ Complete(k) /\ k \notin BadStart
  /\ Quiet(k)
  /\ rows' = rows \union {RowOf(k, "quiet", 0)}
  /\ UNCHANGED <<now, arrived, lateBatches, tasks, dead, restarts>>

\* The row cannot be written, the key having no start time or the database
\* refusing it: the flush ends with an exception and without a row.
FlushRaises(k) ==
  /\ Flush(k)
  /\ ~ Complete(k) \/ Quiet(k)
  /\ dead' = dead \union pending[k]
  /\ UNCHANGED <<now, arrived, lateBatches, tasks, rows, restarts>>

(***************************************************************************)
(* How many of n candidates the storm defences shed: all of them with      *)
(* storm_skip_gulp, otherwise fewer than all (apply_storm_cap's quotas).     *)
(***************************************************************************)
ShedChoices(n) ==
  IF MaxCands <= 0 \/ n <= MaxCands THEN {0}
  ELSE IF StormSkip THEN {n}
  ELSE 0 .. (n - 1)

FlushToClustering(k) ==
  /\ Flush(k)
  /\ Complete(k) /\ ~ Quiet(k)
  /\ \E shed \in ShedChoices(KeptOf(pending[k])) :
       tasks' = tasks \union {RowOf(k, "clustered", shed)}
  /\ UNCHANGED <<now, arrived, lateBatches, rows, dead, restarts>>

-----------------------------------------------------------------------------
(***************************************************************************)
(* The clustering thread ends and _process writes the row; an exception in *)
(* either ends the flush with a log line and no row.                       *)
(***************************************************************************)

ClusteringEnds(t) ==
  /\ t \in tasks
  /\ tasks' = tasks \ {t}
  /\ rows' = rows \union {t}
  /\ UNCHANGED <<now, arrived, memory, lateBatches, dead, restarts>>

ClusteringRaises(t) ==
  /\ t \in tasks
  /\ tasks' = tasks \ {t}
  /\ dead' = dead \union t.from
  /\ UNCHANGED <<now, arrived, memory, lateBatches, rows, restarts>>

\* systemd restarts the daemon: everything in memory is lost.
Restart ==
  /\ restarts < MaxRestarts
  /\ restarts' = restarts + 1
  /\ dead' = dead \union {b \in Batch : \/ b \in pending[b.key]
                                       \/ \E t \in tasks : b \in t.from}
  /\ pending' = [k \in Key |-> {}]
  /\ pendingJobs' = [k \in Key |-> 0]
  /\ pendingVetoed' = [k \in Key |-> 0]
  /\ pendingFirst' = [k \in Key |-> 0]
  /\ pendingLast' = [k \in Key |-> 0]
  /\ wakeAt' = [k \in Key |-> 0]
  /\ flushed' = [k \in Key |-> NotFlushed]
  /\ tasks' = {}
  /\ UNCHANGED <<now, arrived, lateBatches, rows>>

\* Time passes, but the loop runs a task that is due within LoopLag.
Tick ==
  /\ now < MaxTime
  /\ \A k \in Key : IsOpen(k) => now < wakeAt[k] + LoopLag
  /\ now' = now + 1
  /\ UNCHANGED <<arrived, memory, lateBatches, tasks, rows, dead, restarts>>

RunWaiter(k) ==
  Sleep(k) \/ FlushSkipped(k) \/ FlushQuiet(k) \/ FlushRaises(k)
           \/ FlushToClustering(k)

Next ==
  \/ \E b \in Batch : ReadFails(b) \/ Handle(b) \/ HandleRaises(b)
  \/ \E k \in Key : RunWaiter(k)
  \/ \E t \in tasks : ClusteringEnds(t) \/ ClusteringRaises(t)
  \/ Restart
  \/ Tick

Spec == Init /\ [][Next]_vars

(***************************************************************************)
(* The event loop runs every task that is due, the clustering thread ends, *)
(* and time passes.  Nothing makes a batch arrive or the process restart.  *)
(***************************************************************************)
Fairness ==
  /\ \A k \in Key : WF_vars(RunWaiter(k))
  /\ WF_vars(\E t \in tasks : ClusteringEnds(t) \/ ClusteringRaises(t))
  /\ WF_vars(Tick)

FairSpec == Spec /\ Fairness

-----------------------------------------------------------------------------
(***************************************************************************)
(* Properties                                                              *)
(***************************************************************************)

\* The flushes that got a verdict: rows written, and clusterings under way.
Groups == rows \union tasks
Observed(g) == g.outcome \in {"quiet", "clustered"}

TypeOK ==
  /\ now \in Nat /\ restarts \in Nat
  /\ arrived \in [Batch -> Int]
  /\ pending \in [Key -> SUBSET Batch]
  /\ pendingJobs \in [Key -> Nat]
  /\ pendingVetoed \in [Key -> Nat]
  /\ pendingFirst \in [Key -> Nat]
  /\ pendingLast \in [Key -> Nat]
  /\ wakeAt \in [Key -> Int]
  /\ flushed \in [Key -> Int]
  /\ lateBatches \subseteq Batch
  /\ dead \subseteq Batch
  /\ \A g \in Groups : /\ g.key \in Key /\ g.from \subseteq Batch
                        /\ g.outcome \in Outcomes

(***************************************************************************)
(* A batch the daemon took in is in exactly one place: in its key's open   *)
(* entry, in one flush (its row or its clustering), or lost to a crash or  *)
(* an exception.  No candidate is clustered twice and none vanishes.       *)
(* (_handle's registration, _flush_later's pops, the row it ends with.)    *)
(***************************************************************************)
EveryBatchHasOneFate ==
  /\ \A b \in Batch :
       Taken(b) <=> \/ b \in pending[b.key]
                   \/ b \in dead
                   \/ \E g \in Groups : b \in g.from
  /\ \A k \in Key : /\ \A b \in pending[k] : b.key = k /\ b \notin dead
                     /\ \A g \in Groups : g.from \intersect pending[k] = {}
  /\ \A g \in Groups : g.from # {} /\ g.from \intersect dead = {}
  /\ \A g, h \in Groups : g # h => g.from \intersect h.from = {}
  /\ rows \intersect tasks = {}

(***************************************************************************)
(* A row accounts for what arrived under its key since the last flush, no  *)
(* more and no less: raw and vetoed candidates and the job count.  The     *)
(* veto is counted per batch in _handle and reported per gulp here.        *)
(***************************************************************************)
RowsAccountForBatches ==
  \A g \in Groups :
    /\ g.cands = KeptOf(g.from) + VetoedOf(g.from)
    /\ g.vetoed = VetoedOf(g.from)
    /\ g.jobs = Cardinality(g.from)
    /\ g.shed <= KeptOf(g.from)

(***************************************************************************)
(* A gulp is observed (clustered or quiet) only with the whole sky: its    *)
(* batches are from CoalesceJobs different jobs, unless a job delivered    *)
(* twice into the same entry, which the code's count cannot tell.          *)
(***************************************************************************)
WholeSkyOnly ==
  \A g \in Groups :
    Observed(g) =>
      \/ Cardinality({b.job : b \in g.from}) >= CoalesceJobs
      \/ \E b, c \in g.from : b # c /\ b.job = c.job

DeliveriesOf(k) == {b \in Batch : b.key = k /\ Taken(b)}

(***************************************************************************)
(* A gulp is observed at most once, whatever is late: two observed flushes *)
(* of one key need twice CoalesceJobs deliveries.  A late batch alone can  *)
(* never make its key dump a second time.                                  *)
(***************************************************************************)
ObservedOnce ==
  \A g, h \in Groups :
    Observed(g) /\ Observed(h) /\ g.key = h.key /\ g # h =>
      Cardinality(DeliveriesOf(g.key)) >= 2 * CoalesceJobs

(***************************************************************************)
(* What a trigger may count on of the gulp it comes from.                  *)
(***************************************************************************)
ObservedWhole == WholeSkyOnly /\ ObservedOnce

(***************************************************************************)
(* The wait is bounded: an entry is never held longer than coalesce_max_s, *)
(* and a complete one no longer than coalesce_s after its last batch, up   *)
(* to the loop's lag.  A wakeup lost between the handler's event.set() and *)
(* the waiter's ev.clear() would break it.                                 *)
(***************************************************************************)
HoldBounded ==
  \A k \in Key :
    IsOpen(k) => /\ now <= pendingFirst[k] + CoalesceMaxS + LoopLag
                 /\ Complete(k) => now <= pendingLast[k] + CoalesceS + LoopLag

(***************************************************************************)
(* A gulp whose batches all land within coalesce_max_s of the first is     *)
(* never skipped: fewer than CoalesceJobs batches landed from the time a   *)
(* skipped row's entry opened, in this entry or any other of its key.  (A  *)
(* batch lost to a crash or an exception is not counted.)                  *)
(***************************************************************************)
TimelyGulpKept ==
  \A r \in rows :
    r.outcome = "skipped" =>
      LET opened == Min({arrived[b] : b \in r.from})
      IN  Cardinality({b \in DeliveriesOf(r.key) \ dead :
                         \/ b \in r.from
                         \/ opened < arrived[b] /\ arrived[b] < opened + CoalesceMaxS})
          < CoalesceJobs

(***************************************************************************)
(* Every batch taken in is eventually decided: no entry waits for ever for *)
(* a job that died, and no clustering is forgotten.                        *)
(***************************************************************************)
Decided(b) == b \in dead \/ \E r \in rows : b \in r.from

EveryBatchDecided == \A b \in Batch : Taken(b) ~> Decided(b)

\* Where the batches of the abstract specification are in this one.
RowsFor(outcome) == UNION {r.from : r \in {q \in rows : q.outcome = outcome}}

FateOf ==
  [b \in Batch |->
     IF arrived[b] = Unsent THEN "new"
     ELSE IF b \in pending[b.key] THEN "held"
     ELSE IF \E t \in tasks : b \in t.from THEN "clustering"
     ELSE IF b \in RowsFor("clustered") THEN "clustered"
     ELSE IF b \in RowsFor("quiet") THEN "quiet"
     ELSE IF b \in RowsFor("skipped") THEN "skipped"
     ELSE "gone"]

\* The coalescer implements the abstract one: gulps are decided whole.
Fate == INSTANCE GulpFate WITH Need <- CoalesceJobs, fate <- FateOf
GulpsDecidedWhole == Fate!FateSpec

=============================================================================
