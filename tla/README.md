# casm_t2 in TLA+

A verification project for casm_t2, the second stage of the CASM transient
search: candidates of eight hella jobs come in, gulps are put together, clustered
and judged, dumps are commanded, and a bot injects test pulses and checks that
they are found. The models are translated from the code under `src/casm_t2`;
`PROJECT.json` names, for every definition, the lines it stands for.

## 1. The system

| Part | Code | State it keeps | Operations |
|---|---|---|---|
| Gulp coalescer | `apps/t2d.py` `_handle`, `_wait_for_jobs`, `_flush_later` | per gulp key: batches, job count, vetoed count, first and last arrival, an event; recent flush times | take a batch, wait, flush (skipped, quiet, clustered) |
| Trigger stage | `apps/t2d.py` `_trigger`, `DiskMonitor`, `_delayed_card`; `policy.py`; `request_dump_async` | two budgets, lockout clock, disk readings, the `triggers` table, cards held back | decide, command a dump, record, voltage fan-out, card, poll of remote disks |
| Decision chain | `apps/t2d.py` `_fast_path`, `_process`, `_classify`, `_refresh_injections`; `events.py`, `db.py` | ledger cache, pending fast names, `clusters`, `gulp_stats`, `triggers` | judge a batch at once, judge a gulp's clusters, name, store, link, fire one |
| Injection bot | `apps/inject_daemon.py`, `inject_replay.py`, `inject_outcome.py`, streak part of `inject_slack.py` | the ledger table `injections`, the loop's place | draw, name, commit the row, write the FIFO, dump, wait, reconcile, report, clean up |
| Voltage dump and gather | `dump_client.py` | one client's progress, the streams' directories | resolve a window, list, command, poll, transfer |
| Weights registry | `weights_registry.py`; `_sky_table` in `apps/t2d.py` | product files, payload index, event log, three caches | record a product, fill in widths, record a load, look up a time |
| Slack poster | `inject_slack.py`, `do_replay` in `apps/inject_daemon.py`, `post_due` in `inject_replay.py` | `slack_ts`, `replay_png`, `replay_posted` in the ledger; the channel | post, edit, post again, upload, thread |
| Clustering, sky table | `cluster.py`, `beams.py` | none | grid, DBSCAN, envelopes, labels; neighbour beams |
| Storm rule | `apply_width_veto`, `apply_storm_cap`, the footprint; read back by `t2_miss_reason` | the gulp's row in `gulp_stats` | veto, shed, count beams, give a reason |
| Wire, candidate files, timing | `wire.py`, `candfiles.py`, `timing.py`, `hella_kernel.py` | none | parse, convert |
| Cards, plots, calibration, reports, replay, plumbing | `gulp_card.py`, `inject_plot.py`, `inject_calib.py`, `apps/replay.py`, ... | none | render, fit, print |

How they interact: hella jobs open one connection per batch to t2d; a gulp's
flush task clusters in a thread, then calls `_process`, which calls `_trigger`
for one cluster; the fast path is a task per batch that calls `_trigger` as well.
`_trigger` speaks to dump daemons (external). t2d and the bot share one SQLite
file: the bot writes its ledger row before the pulse, t2d reads the ledger to
tell pulses apart, the bot reads t2d's clusters to reconcile. Both leave dumps in
one directory. The registry is files that uploader and watcher (external) write
and t2d reads. systemd restarts t2d and t2-inject whenever they end.

What is hard about it: everything in t2d is one asyncio loop, so state is only
torn at an `await`, and the tasks of several gulps stand at the same `await` at
once; the bot, t2d, the uploader and the dump daemons are processes that share
files and a database without a common lock; each of them may die between any two
steps; times of events, of rows and of pulses differ. `PROJECT.json` lists these
hazards, each at its line, with the properties that watch it.

What correct means for each part:

- coalescer: every batch ends in exactly one place, rows account for what came,
  only whole gulps are judged, the wait is bounded both ways, and a gulp is
  decided as a whole;
- trigger stage: spacing, daily maximum and lockout hold for the dumps made, the
  audit table hides none, no dump goes to a full disk, no call hangs;
- decision chain: what agrees with a row of the injection ledger is never dumped, rows of
  three tables agree;
- bot: names and spacing, outcomes that are true, evidence of misses kept;
- Slack: a shot has one message, the ledger knows it, each outcome gets there;
- clustering and storm rule: no trial is lost between the wire and the row, the
  shed is fair, what is said of a miss is true;
- gather: what is handed over is this dump, complete, or the failure is counted;
- registry: a named product is what all streams carried.

## 2. The modules

| Module | Models | Composes |
|---|---|---|
| `GulpFate` | abstract: batches of a gulp are decided together | |
| `Coalescer` | the coalescer in full, with clock, waiter and restarts | implements `GulpFate` |
| `CoalescerProofs` | its theorems | extends `Coalescer` |
| `Policy` | `policy.py`: the trigger budget | |
| `Trigger` | the trigger stage, the dump daemon as environment | extends `Policy` |
| `TriggerProofs` | its theorems | extends `Trigger` |
| `Decision` | fast path, slow path, bot's ledger as environment | |
| `DecisionProofs` | its theorems | extends `Decision` |
| `ShotLife` | abstract: a shot is resolved once, alerts and deletes at most once | |
| `Injection` | the bot, T2 as environment | implements `ShotLife` |
| `InjectionProofs` | its theorems | extends `Injection` |
| `Slack` | what the bot posts and what the ledger keeps of it, Slack as environment | |
| `SlackProofs` | its theorems | extends `Slack` |
| `Clustering` | a gulp's trials from width veto to row, clusters and the bot's reason | |
| `ClusteringProofs` | its theorems | extends `Clustering` |
| `Gather` | one client of the voltage dump, daemons and disks as environment | |
| `GatherProofs` | its theorems | extends `Gather` |
| `WeightsRegistry` | files, writers, t2d's lookup | |
| `WeightsRegistryProofs` | its theorems | extends `WeightsRegistry` |
| `MC...` | instances: small sets of values, nothing else | extends its module |

### Coalescer

`pending`, `pendingJobs`, `pendingVetoed`, `pendingFirst`, `pendingLast` are the
dictionaries of `T2Daemon`, `wakeAt` is when the waiter of an entry runs next
(its `wait_for` timeout, or at once when the handler sets the event), `flushed` is
`_flushed`. `Handle` is a delivery from its parsed batch to the last line of
`_handle`, `HandleRaises` one whose start time does not parse, `ReadFails` a read
that fails or times out. `Sleep` is a turn of the waiter's loop that goes on
waiting; `FlushSkipped`, `FlushQuiet`, `FlushRaises` and `FlushToClustering` are the ends of
`_flush_later` before its await, `ClusteringEnds` and `ClusteringRaises` what
comes after it. `rows` are the `gulp_stats` rows. `LoopLag` is how late the loop
may run a task that is due.

### Trigger

One record of `Event` is one call of `_trigger`. `Suppress`, `LockOut`, `Refuse`
and `Request` are the ways to its first await, `ReplyOK`, `ReplyNotOK` and
`RequestFails` the ways out of it, `VoltageReplies` the way out of the second.
`startAt` is the local `now`, read once at the start and used after the awaits.
`cmd` is what the daemon knows: it may dump after the caller has given up.
`WriteCard` is `_delayed_card` after its delay: a card of this node is written, one for
another node is given to an ssh, whose end is a step of its own (`SshEnds`).
`overlap` and `voltOverlap` are history: two calls stood at one await together.

### Decision

`Judge` is `_fast_path` for a batch up to its call of `_trigger`, `Process` a gulp
through `_process` up to the same point, `CallEnds` and `CallRaises` what follows.
A trial or cluster carries what the judgement depends on: the event it is of, its S/N,
its tier, whether it is vetoed (`leaky`, `strong` and `samp` decide which rule applies), and
`like`: the injected events with which it agrees in beam, up to neighbours, and DM.
`CommitRow` and `Fire` are the bot: row first, pulse afterwards, into samples that may be
`BufferDepth` old or long after the row; `pulseAt` is the time by the samples. `Matches` is
the ledger match: agreement in beam and DM and a time within `MatchWindow` of the row's, so
that a pulse can fail to match its own row and match another's. A read of the ledger that
raises (`ReadFails`, in `FastRaises` and `ReadRaises`) leaves the old cache with a new stamp.

### Injection

`pc` of a bot is its place in the loop of `run`. `NextName` is `next_file_id`,
`InWindow` and `Matching` are the SQL of `reconcile`, `Streak` is `miss_streak`,
`Cleaned` is `cleanup_dump`. `crossed` records that two processes were at a shot
at once (a manual shot beside the service).

`ShotLife` is what remains of a shot for the reader of the ledger: `Enter`, `Go`,
`Resolve`, `Alert`, `Clean`. `EveryShotLives` maps a row without an outcome to
"open", and the pulses, attention messages and deletions to the three sets.

### Slack

A message is its shot, its kind (card, image, reply, raw), the outcome and plot it
shows and the card it hangs under; its place in `channel` is its timestamp.
`pc` is the shot's place in `run` and `do_replay`. Each call is one step, `Calls`,
that is answered, refused, or has its effect and loses its answer; each `UPDATE`
of the ledger is another (`StoreSent`, `StoreCard`, `StoreReplay`), so a crash
falls between. `Update` and `UpdatePlain` are `post_injection`'s forms for a message
that exists, `PostCard`, `PostPlain` and `PostText` those for a new one.

### Clustering

`Handle` is a job's batch with its width veto, `Shed` the storm rule and the
footprint, `Cluster` the thread's answer and the row. The pipeline is made of
operators that carry the code's names: `ApplyStormCap`, `Footprint`,
`OccupancyBeams`, `CellOf` and `Reps` (`_dedup_grid_indexed`), `ClusterCandidates`.
Ties are the code's: `heapq.nlargest` keeps the earlier, a cell keeps its first
best trial, equal peaks keep DBSCAN's groups before noise. All axes are integers of
which `Scale` make one link scale. `Sorted` puts each element after as many as come before
it, which is what any stable sort by a total order returns; `At` picks the trials at a set
of places, which is what the list comprehensions of the veto and the cap do. `Dbscan` puts two cores into
one cluster unless a set that near cores do not lead out of tells them apart, which is what
its search reaches. `T2MissReason` is what the bot later makes of the row.

### Gather

`entry` says which way in is taken: `dump_voltages` ("api") or the command line.
`disk` maps each stream's files to their sizes: a dump writes one file per stream,
and another dump may write beside it. `gather_dump` is `PollStreams` and
then, stream by stream, `Skip` (never finished), `TakeInPlace`, or `Pull` with the transfer:
`Copy` brings one file, `TransferEnds` and `TransferFails` end it, with part of the files
there or all. `MakeDirRaises` is the error that nothing catches.

### WeightsRegistry

Reading and writing a file are steps of their own. `LoadIndex` and `StoreIndex`
are the two halves of the index update, `Backfill` and `Fill` those of
`set_product_fwhm`. A lookup is `BeginLookup` (stat), `ReadEvents`, and
`ReadProduct` with the widths that `_sky_table` derives. `now` counts ticks of the
filesystem's time stamps, so two lines of one tick have one time stamp.

## 3. The runs

Every run checks its own question; the violation runs show a disagreement between
the code and what its docs or comments say (section 6).

| Run | What it shows |
|---|---|
| `coalescer` | four deliveries of two jobs under two keys, at every time and in every order, with a bad start time and a restart, under fairness: the safety properties of the coalescer, that each batch is decided, and that it implements `GulpFate` |
| `trigger` | two blind, voltage-worthy calls under three configurations: budgets, lockouts, audit |
| `trigger_disk` | a call for the other node with filling disks and slow polls: room, and that each call ends, though its card's ssh may hang |
| `trigger_storm` | two overlapping calls dump twice in one lockout (violation) |
| `decision` | two events, one injected, two batches, four clusters in two gulps, some of which agree with the shot and some not, late pulses, a read that fails: injections, links, counts |
| `decision_fast` | a cluster counts as dumped whose fast request failed (violation) |
| `injection` | three shots of the service with failures, a crash, a midnight: names, spacing, outcomes, dumps, alerts, and that the bot implements `ShotLife` |
| `injection_cleanup` | cleanup deletes a dump of T2's (violation) |
| `gather` | a local and a remote stream, every failure, transfers cut short or hung: only this dump is gathered, failures add up, the wait ends |
| `slack` | two shots in each mode, two calls that fail, a crash, a midnight, under fairness: how many messages a shot gets, what the ledger says of them, replays per day, that outcomes reach the channel |
| `clustering` | gulps of five to seven trials with every tie and every rule: fair shed, accounts and reasons, what the order of arrival can change |
| `registry` | two uploads of products that share a payload, a restart or a crash, lookups in between |

### Bounds

Every bound is a constant of its module: `MaxTime`, `MaxRestarts`, `LastArrival`,
`LastStart`, `MaxDiskChanges`, `MaxShots`, `MaxDays`, `MaxTriggers`, `LastTrigger`,
`MaxUploads`, `MaxFaults`, `MaxCrashes`, `MaxMissed`. Deadlock is not checked, since the clock's bound stops each model
and the daemons may wait for ever for input. Durations are scaled down: what
matters is their order (quiet time < hold time, spacing < day) and that each can
be crossed. Two jobs make a gulp complete, because one makes the wait vacuous and
with two a gulp can be short, whole or over-full; four deliveries give one key two
whole gulps, or a whole one, a stray and another key's. Two calls overlap or do not; with a day of three units
and a clock of four a call can be under way over midnight. Four clusters give a
gulp with two fragments of one event beside an injected one, and one gulp more; the
injected pulse has a sidelobe that does not look like it, the real one a fragment that
does. With a match window of one unit and a clock of two a pulse can be too late for
its row, and with a cache of one unit a row can be younger or older than the cache; one
read fails (`MaxMissed`). The ledger's look-back does not run out in so short a time; the
theorems hold for any.
Three shots are a run of misses broken in the middle, all by the service: a
manual shot beside it takes the state space out of reach, and the theorems of
`InjectionProofs` cover it; a dump of T2's comes with
the first of them (`LastTrigger`), which is the one whose window it can overlap.
Two Slack shots are what one replay a day and a message under another's card
need, two failed calls what a form and its fallback need. The chain of seven trials
is the least that has a border cell between two clusters. Two streams are enough for
streams that disagree, two products for a payload they share.

### Fairness

- `Coalescer`: the loop runs each waiter that is due, the clustering thread ends,
  time passes. The waiter's timeout (`wait_for`) makes this the event loop's own
  promise. No arrival is assumed.
- `Trigger`: each await of a call ends, if only by its timeout (`RequestFails`,
  `VoltageReplies`), and the card's sleep, a timer, ends (`WriteCard`). No answer of a
  daemon is assumed, nor that the ssh of a remote card ends: it has no timeout
  (t2d.py:1276), and `EveryCallEnds` claims of such a card only that it is given to ssh.
- `Slack`: a shot under way goes on; each call to Slack has a timeout, each await
  an end. No call is assumed to succeed; a shot that is abandoned stays so.
- `Gather`: the client's steps, each request and listing having its timeout, the transfer
  of a local stream (symlinks), and time. No writer is assumed to write, finish or
  reply with success, and no rsync to end: it has no timeout (dump_client.py:480), and
  `GatherEnds` says that only an rsync that hangs can keep the client.

## 4. What is proved

By TLAPS, for every value of the constants that their assumptions allow:

`CoalescerProofs` - type correctness; each batch has one fate
(`EveryBatchHasOneFate`); the wait is bounded (`HoldBounded`); only whole gulps
are observed, each once (`ObservedWhole`); no gulp that came in time is skipped
(`TimelyGulpKept`); a row accounts for the batches it was made of
(`RowsAccountForBatches`); and `CoalescerDecidesWhole`: the coalescer implements `GulpFate`.

- `FateInv` says where batches are: in an entry, in one group, or dead; flushing
  an entry moves it whole, which is what makes the groups disjoint.
- `WaiterInv` ties the waiter's next turn to the entry's times. `HoldBounded` is
  not inductive: it needs that a complete entry's waiter is due within the quiet
  time, which rests on the handler waking it (`WakeOnBatch`).
- `CountInv` ties the job count to the set of batches; `WholeSkyOnly` then follows by
  counting: as many batches as jobs, all of different jobs.
- `SkipInv` tells a key's batches apart by their times: those of an entry landed since
  it opened, those decided before not after that, and those that come after a skipped
  one was flushed not within `coalesce_max_s`.
- `AccountInv`: an entry's veto count is the sum over its batches, and a row's counts are
  the sums over the row's. A sum over a set is a fold that picks the elements in an order of
  its own, and no installed prover can do induction with an operator for a parameter;
  `SumIsCount` gets by without: two sums that differ would differ on a least subset
  (`LeastSubset`, from the well-foundedness of strict inclusion), and what counts the
  units of a set (`Units`) is one of them. `BadStart` keys are outside: their veto count runs
  ahead of the batches (the handler counts, then raises) and stays under a key that no flush
  pops, so they never get a row.
- `RefInv` is their conjunction with the outcomes of rows and tasks; each step maps
  to a step of `GulpFate` or a stutter, one lemma per kind of step.

`TriggerProofs` - type correctness; `SerialBudgetHolds`; `LockoutHolds`, with its
parts for either reset; `DumpsAudited`; `SerialVoltageHolds`; and `DumpHostHadRoom`,
an action property.

- `Course` says what each label of a call implies of its rows and its start.
- `Kept` is what a budget's fields say of the dumps charged to it: the last one is the
  latest, the counter counts those of its day. The lemma `Charged` keeps it when a dump
  is charged that the budget allowed.
- `SerialInv`: while requests do not overlap, one call waits at a time, `Kept` holds,
  and a waiting call is still allowed. The day may change during the wait, and the
  dump is charged to the day the call started on: `DayMonotone` is why the count
  of that day is not exceeded.
- `VoltInv` says the same of voltage dumps. Calls reach their fan-outs in any order,
  but a start before the last voltage dump is too soon whatever the spacing, so dumps
  are charged in the order of their calls' starts.
- `LockoutInv` and `EligInv` do the same for the lockout clock. With reset
  "eligible" the clock is written before the await, so no assumption of overlap is
  needed; with "triggered" it is.
- `RoomInv`: a reading is never younger than the moment it was true by more than
  the poll's timeout. `AuditInv`: what a card, a row and a command imply of each other.

`InjectionProofs` - type correctness; `NamesUnique`; `ShotsSpaced`; `OutcomeTrue`;
`MissDumpKept`; `AlertsOncePerMultiple`; and `BotImplementsLife`: the bot implements
`ShotLife`. They hold for any set of manual shots beside the service and any number of
crashes, neither of which TLC's instance has. `MissDumpCorrect` alone has a hypothesis,
`FarApart`: the service's shots are further apart than a dump is long and the cleanup's
search margin wide (by default a turn of the loop is at least 100 s, a dump 14 s and the
sweep, the margin 2 s on either side).

- `BotInv` adds to the types that no two processes are at one shot, which is what
  keeps a row as its process left it: the other steps only add rows (`Added`) or
  change one outcome or dump (`Edited`).
- `NamesInv`: while no two shots crossed, a name that was drawn is in no row and
  no other process is between drawing and committing; a day's numbers have a
  highest one (`NumberPart`), so the next one is new.
- `SpaceInv` says how long the service's place in its loop is from each of its rows
  (`Since`). `ShotsSpaced` speaks of rows only and is not inductive: a restart loses
  the alarm, and the next one is set from the ledger (`FirstShotAt`).
- `PulsesInv` ties the FIFO's pulses to rows and to the places of their processes;
  with it `TruthInv` keeps each outcome true when a late pulse or cluster comes.
- `LifeInv` orders message, outcome and deletion of a shot. `FilesInv` bounds the
  windows of files, so that two shots of the service share none; `KeptInv`
  says what a cleanup took.
- `AlertInv`: a message's count is still the length of its run, since while nothing
  crossed rows resolve in their order, so that no row of a run changes behind it.

`DecisionProofs` - type correctness; `InjectionNeverDumped`; `InjectionTagged`;
`RowsJoin`; and `FunnelAccounts`, for any sky, any clusters with any agreement in beam
and DM, any delay of the FIFO, any match window, any ages of the cache and any number of
reads that fail.

- `LedgerInv`: a pulse in the stream has its row, since the bot commits first. With it
  and with the ledger's second reading before each call, `InjectionNeverDumped` is
  inductive: what is dumped did not match any row of that reading.
- `CacheInv`: a cache holds what the ledger held up to the tick it was read in, or its
  stamp is the time of a failed read, which is what makes the age of a row decide whether
  it is tagged (`TagInv`).
- `JoinInv` says which row of `clusters` a row of `triggers` has, for those written and
  for those a call under way still owes. It rests on `MintedIsStored`: a name that
  `NamesGiven` mints is in the table after the insert, which drops its row only in
  favour of a cluster that took the same name from a fast trigger.
- `CountInv`: a gulp has at most one call, which owes all the gulp's rows or has none
  left. `FunnelAccounts` follows by counting: the gulp's rows in `clusters` are those
  inserted (`StoredCount`), and its rows in `triggers` one for each cluster that would
  trigger, since their names differ (`DuplicateCount`).

`GatherProofs` - `GatheredIsTheDump`, and `ClientTells` with its parts (types,
`ExitZeroIsWhole`, `FailuresAddUp`), for any number of streams and hosts.

- `CountInv`: the failures counted so far lie between the streams that the pulls have
  passed without all files arriving (`Lost`) with those that were never done, and the same
  with the remote streams passed (`Blamed`), whose rsync may complain with all files there.
- `WholeInv`: a stream that is done and undisturbed has this dump's file, whole, and
  no other new one; directories only gain files and a whole file grows no more
  (`Grew`), so this outlasts the polls.

`WeightsRegistryProofs` - type correctness; `OkIsTrue`; `UploadsNamed`;
`StaleWithinTickOnly`; and `WidthsFollow`, an action property, for any number of
products, streams, uploaders, faults and ticks. `OkCorrect` alone has a hypothesis,
`OwnPayloads`: no payload belongs to two streams, which are sub-bands with weights of
their own. TLC's instance satisfies it.

- `LinesInv`, `LoadsInv`: among the lines and the loads up to a time there is one that
  holds, so that the choices `LiveLine` and `LastLoad` make mean something.
- `OkIsTrue` speaks of loads and of the answer, with four facts between them: the index,
  and each writer's copy of it, names a product only for its own payloads
  (`IndexInv`); each line tells of one load and its product has that load's payload
  (`SourceInv`); two loads of a stream differ in time (`LoadsInv`); and the
  answer is the product of the lines that hold among those cached (`AnswerInv`).
- `NamedInv`: while nothing overlapped, an uploader between reading and storing the
  index has an up-to-date copy, and from then on the index names its product.
- `StampInv`: time stamps grow along the log, and a cache's stamp is never younger
  than its last line, since it was taken before the lines were read.
- `RecordInv`: a cached record with the file's version has the file's widths.

`SlackProofs` - type correctness; `OneCardPerShot`; `LedgerMatchesChannel`; `DailyOnce`,
for any settings, any number of shots, days and calls that fail, and any number of
crashes. TLC's instance has two of each and three settings.

- `RowOk` says what a shot's place in `run` and `do_replay` implies of its row and of the
  settings; `PlacePart` that only the last row's shot is under way.
- `SpareOk`: the room that the failed calls leave for more cards (`Spare`) is never less
  than what the shot may still need from its place on (`Needs`). The bound on cards by
  itself is not inductive: a lost answer uses one card now and one later.
- `CleanOk`: while no call of the shot failed, the cards are exactly the one it knows.
- `StampsOk`, `TellsOk`: what the ledger and the last answer name is a card of the shot,
  and it tells the outcome unless edits of it were refused, counted by place.
- `ShotSettles`: a step of one shot changes neither row nor messages of another
  (`Apart`), so the invariant need only be shown for the shot that steps. The calls
  share two lemmas, `CardStep` and `EditStep`, one per way a call ends.
- `DailyOnce` rests on `DueOk` (a rendered plot whose calls go through ends as posted) and
  on `DaysOk` (no row is of a day to come), so that the latest posted day is today's.

`ClusteringProofs` - `TypeCorrect`; `ShedFairCorrect` (`ShedIsFair`);
`RowTellsCorrect` (`RowTells`: types, `TrialsAccounted`, `MissReasonTrue`); and
`OrderMovesBordersCorrect` (`OrderMovesBordersOnly`), for any gulps of finitely many
jobs, any settings, pointing tables, quota, floor and window. The floor is positive, as
`BEAM_FLOOR` is 4: with floor 0 a storm can evict a beam. A pointing table gives each of its
beams two coordinates (`SettingsAssumption`).

- `FlowInv` says what is known at each phase: the pending trials are the non-vetoed ones
  of the jobs that came, pending and vetoed add up to what they sent, and footprint,
  candidates, clusters and row are computed from them. It is inductive as it stands; the
  work is in the lemmas about the operators.
- Order: `Ranks` (in a strict total order the ranks of a finite set are 0, 1, ...),
  `ListedSorts` (sorting lists each element once, in order) and `FirstCounts` (the first n
  are at most n and are closed downwards) carry everything that is sorted or truncated.
- `KeptFair`: both stages of the cap are closed under "better in the same beam", and each
  beam keeps its best; the bound is the cap plus the floor for each beam. `StormRuleFair`
  carries this from places to trials.
- `OccupancyCounts`: the footprint is sorted by sample, so the two bisections cut out
  exactly the trials of the window (`Prefix`).
- `CellsGood`, `LabelType`, `PeakOrders` and `EnvelopesTell`: cells partition the trials and
  share a beam, a representative is its cell's best, DBSCAN gives each cell one nonzero
  label, and the order of the envelopes is total, so that each trial has one cluster.
  Nothing is used of the distance: the accounts hold whatever DBSCAN joins.
- `RawIsCount`, `MembersSum`: the sums over jobs and over clusters count the gulp's and
  the clustered trials, by the argument of `SumIsCount`.
- Order of arrival: trials of different S/N are told apart by it (`DistinctByCount`), so two
  orders are two listings of one set of trials (`OrderKeeps`), and what the storm rule
  keeps depends on ranks by S/N only (`RanksMatch`, `StormRuleMatch`).
- `CellsMatch`: between the cells of two orders there is a bijection under which the
  points to cluster are the same (`SamePoints`). Cores and what joins them are carried
  along (`CoresMatch`, `JoinedMatch`), the names of clusters are not.
- `JoinedBothWays`: the cores outside a set that near cores do not lead out of form such a
  set too, since nearness is mutual (`NearBothWays`); so joining is an equivalence, and each
  cluster has one first core (`FirstCores`). Hence there are as many labels (`LabelsInjected`),
  and two cells with one cluster in reach share a label in one order if they do in the other
  (`LabelsAgree`, `SameCompany`). A trial with one label in reach is such a one
  (`OneLabelSettles`).

No safety property of the runs that pass is left without a theorem. Only model-checked are the
liveness properties `EveryBatchDecided`, `EveryCallEnds`, `GatherEnds` and
`OutcomeReachesChannel`, which are beyond the prover.

## 5. What the models leave out

- Numbers: in `Coalescer` and `Decision` the clusters and how many candidates are
  shed are any (`ShedChoices`); `Clustering` computes them, in integer units. The
  projection of pointings, sky extents, floating-point S/N and the neighbour cache
  are left out.
- Texts: cards, the wording of messages, logs; the alert log of the registry.
- Slack: the service's shots one after another, no manual shot beside them; the
  raw figure may or may not exist; a locked ledger counts as a lost answer.
- Clustering: beams off the pointing table lie at the zenith, as in the code; the
  bot's candidate file is hella's, so it holds the trials of the gulp.
- Coalescer: batches are given with their kept and vetoed counts; a database
  error is an exception like any other (`FlushRaises`, `ClusteringRaises`).
- Trigger: a failing insert into `triggers` is left out here (it is `CallRaises` in
  `Decision`); one clock stands for wall and monotonic time and is never set
  back; how long a request lasts is unbounded; closing the socket never hangs; a
  card that was written and one whose write failed are not told apart.
- Decision: no voltage dumps; "failed" also stands for a daemon's refusal; only a
  collision of names makes the insert drop a row. `like` is given with each trial and
  cluster, any set of shots: neighbour beams and the tolerance in DM are not computed, and
  neither changes with time. The trials and fragments of an event share its time, and
  `_match_fast` (30 s, two beams, DM 5) is taken as being of one event.
  `InjectionNeverDumped` and `InjectionTagged` speak of what agrees with its row: not of a
  pulse that left the FIFO later than the match window, not of a cluster off in beam or DM,
  and the tag not within a time to live of a read that failed. `FastRowLinked` leaves out the
  names stored while their fast trigger's request was under way.
- What a property leaves out by name - calls that overlap (`SerialBudgetHolds`), shots that
  crossed (`NamesUnique`), streaks at the limit of 50 (`AlertsOncePerMultiple`), uploads that
  overlap (`UploadsNamed`) - the code does not promise; the hazards in `PROJECT.json` say so
  for each.
- Injection: a FIFO write is whole or not at all; an unreadable candidate file is
  a miss; only pulses of shots match a shot's window; the two kinds of miss are
  one.
- Gather: a stream's dump is one file of several chunks; `--force` and `--dry-run`
  are left out, and the listing and deletion subcommands; the destination holds nothing of
  this dump's before. Streams that could not be listed, or to which another dump was
  written meanwhile, are outside `GatheredIsTheDump` (`Undisturbed`).
- Registry: uploader and watcher are outside the repository and modelled from what
  the registry's own documentation says they call. A stream never loads twice
  within a tick, an inode number is not used again within one, and the test for a
  product's file and its first write are one step.
- A restart: memory is lost, files and tables stay. docs/operations.md:16 says the
  budgets are rebuilt from the database; `TriggerBudget` starts empty
  (t2d.py:306), and so does the model. The properties of `Trigger` are stated from
  the last start on.

## 6. Where code and docs disagree

- `trigger_storm`: "at most one blind dump per `storm_lockout_s`"
  (docs/operations.md:67); two calls that overlap both dump, since the clock is
  checked before the await and set after it.
- `decision_fast`: "The fast path already triggered" (t2d.py:908); a pending name
  counts as triggered also when the request was refused or failed.
- `injection_cleanup`: "Cleanup deletes only this shot's own `.dada` files"
  (docs/operations.md:238); it deletes any file that overlaps the shot's window.

Without a run of their own:

- a batch after its gulp's flush is "still processed, as its own fragment"
  (docs/architecture.md:26, comment at t2d.py:474); t2d.py:561 skips it for want of
  the other jobs (`FlushSkipped`, which `ObservedWhole` rests on);
- one Slack message per injection, completed in place with the plot in it
  (docs/operations.md:249): `OneCardPerShot` bounds the messages by the calls that
  fail; where image blocks are refused the plot, "as a reply" in the table at
  docs/operations.md:275, is a message of its own at the top level (`PostImage`);
- "the bot writes the row at fire time, after the pulse is already in the stream"
  (t2d.py:737, and so 765 and tests/test_t2d_injection_recheck.py:3): the row is committed
  before the FIFO is written (inject_daemon.py:838-852), and only the time stamps of the
  samples the pulse is added to lie before the row's (t2d.py:74-77). `Decision` has the order
  of the bot's code (`MayFire`), on which `InjectionNeverDumped` rests;
- `_refresh_injections` with its lifetime of 30 s (t2d.py:79): after a read that raised the
  contents are older, since the stamp is set before the query (t2d.py:743);
- `replay_posted` (docs/architecture.md:234, db.py:143) is 1 also for a
  card that came through without a plot (inject_daemon.py:668-675);
- `post = "daily"` can render two replays for a day: a shot of before midnight is
  asked about after it (`DailyOnce` names the case);
- the bar of a shot that was not fired is never posted: the loop goes on before any
  call to Slack (inject_daemon.py:853-863);
- `_dedup_grid` "only removes redundancy" (cluster.py:235): `min_samples` counts
  cells and not trials, so that a dense event may come out as noise points;
- a gulp dropped whole by `storm_skip_gulp` that also had vetoed trials is reported
  as "shed n of m trials", not as dropped (inject_daemon.py:455);
- `dump_voltages` drops `gather_dump`'s count of failures (dump_client.py:579).

## 7. Plan

Done, in this order: `Coalescer` with `GulpFate`, `Trigger` with `Policy`, their
proofs, `Decision`, `Injection`, `Gather`, `WeightsRegistry`, `Slack`, `Clustering`,
`ShotLife`, the proofs of `Injection`, `Decision`, `WeightsRegistry`, `Gather`
and `Slack`, the proofs of `Clustering`.

Next:

1. An abstract specification of the trigger's audit (a decision is recorded once,
   with what was commanded), which `Trigger` implements.
2. `Decision`: fragments of one event that outlive the fast name, and those off in time
  from one another.
3. The manual shot beside the service in `Slack`.
4. `OrderMovesBordersOnly` for trials of equal S/N: the order of arrival decides their ties,
   in the cap as in the cells, and how far that reaches is not said yet.
