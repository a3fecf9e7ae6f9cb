------------------------------- MODULE Injection -------------------------------
(***************************************************************************)
(* The injection bot (apps/inject_daemon.py): shots with a ledger row each,*)
(* from the draw of their parameters to the outcome, the attention message *)
(* on a streak of misses and the deletion of their dump.  The service      *)
(* fires at a cadence, manual shots (--once) run beside it in processes of *)
(* their own, and a process may die between any two steps.                 *)
(*                                                                         *)
(* One shot is one turn of run's loop; its steps are cut where another     *)
(* process, the clock or a crash can come between.  A shot's beam and DM   *)
(* are its spot.  The signal chain (sidecar, hella, t2d) and the dump      *)
(* daemon are the environment.  The replay is in post "always" and on_miss *)
(* "none", as shipped; the Slack cards and the plots are left out.         *)
(***************************************************************************)
EXTENDS Integers, Sequences, FiniteSets, Functions, FiniteSetsExt

CONSTANTS
  None,
  Service,        \* the bot under systemd
  Manual,         \* manual shots, each a process that fires once
  Spot,           \* beams and DMs, far enough apart not to match each other
  DayLen,
  Cadence,        \* cadence_min
  Busy,           \* the 180 s taken off the cadence after a whole shot ...
  MinRest,        \*   ... and the 10 s that are left at least
  ReconcileWait,  \* reconcile_wait_s
  WindowLo,       \* how far before inject_utc a matching cluster may lie ...
  WindowHi,       \*   ... and how far after
  MaxLead,        \* a pulse lands up to this long before its FIFO write
  DumpPre,        \* dump_pre_s
  DumpPost,       \* dump_post_s less the sweep and its margin
  Margin,         \* margin_s, by which a search for files is wider than its window
  MaxDeleteFiles, \* max_delete_files of the window
  StreakEvery,    \* streak_every
  StreakLimit,    \* the LIMIT of miss_streak's query
  MaxShots,       \* bound on the ledger
  MaxTime,        \* bound on the clock
  MaxRestarts,    \* bound on crashes
  MaxTriggers,    \* bound on T2's own dumps ...
  LastTrigger     \*   ... and on the time of the last of them

Bot == {Service} \union Manual
Outcome == {"recovered", "missed", "fire_failed"}   \* missed_t1 and missed_t2 are one

ASSUME BotAssumption == Service \notin Manual
ASSUME NoneAssumption == None \notin Bot \union Outcome
ASSUME BoundAssumption ==
  /\ DayLen \in Nat \ {0} /\ StreakEvery \in Nat \ {0}
  /\ {Cadence, Busy, MinRest, ReconcileWait, WindowLo, WindowHi, MaxLead, DumpPre,
      DumpPost, Margin, MaxDeleteFiles, StreakLimit, MaxShots, MaxTime, MaxRestarts,
      MaxTriggers, LastTrigger} \subseteq Nat
  /\ DumpPost <= DumpPre

VARIABLES
  \* the processes
  pc,        \* where each process is in run
  wakeAt,    \* until when it sleeps
  shot,      \* its inj_id, 0 before the row is committed
  spot,      \* the beam and DM it drew
  name,      \* its file_id
  hasDump,   \* dump_dir is set
  \* what outlives them
  ledger,    \* the injections table: row i has id i
  alerts,    \* the attention messages: the streak and the row they were for
  files,     \* the .dada files of the stream's dump directory
  \* the sky
  pulses,    \* the pulses in the stream: row, spot and event time
  clusters,  \* rows whose pulse t2d stored a cluster of
  now,
  \* history
  late,      \* rows whose cluster was stored after they were resolved
  crossed,   \* two processes have had a shot under way at once
  deleted,   \* the files that were deleted: whose, and after which shot
  restarts, triggers

bot == <<pc, wakeAt, shot, spot, name, hasDump>>
tables == <<ledger, alerts, files>>
sky == <<pulses, clusters>>
history == <<late, crossed, deleted, restarts, triggers>>
vars == <<bot, tables, sky, now, history>>

Id == 1 .. Len(ledger)

NoName == <<0, 0>>

Init ==
  /\ pc = [b \in Bot |-> "down"]
  /\ wakeAt = [b \in Bot |-> 0] /\ shot = [b \in Bot |-> 0]
  /\ spot = [b \in Bot |-> None]
  /\ name = [b \in Bot |-> NoName] /\ hasDump = [b \in Bot |-> FALSE]
  /\ ledger = <<>> /\ alerts = <<>> /\ files = {}
  /\ pulses = {} /\ clusters = {}
  /\ now = 0
  /\ late = {} /\ crossed = FALSE /\ deleted = {}
  /\ restarts = 0 /\ triggers = 0

-----------------------------------------------------------------------------
(***************************************************************************)
(* The start of a process, and the sleep between two shots                 *)
(***************************************************************************)

\* Mutant: a restart fires at once.
FirstShotAtNow == now

\* Held to the cadence counted from the newest row, whoever wrote it.
FirstShotAt ==
  IF ledger = <<>> THEN now ELSE Max({now, Max({r.at : r \in Range(ledger)}) + Cadence})

Start(b) ==
  /\ pc[b] = "down"
  /\ IF b = Service
     THEN pc' = [pc EXCEPT ![b] = "asleep"] /\ wakeAt' = [wakeAt EXCEPT ![b] = FirstShotAt]
     ELSE pc' = [pc EXCEPT ![b] = "drawing"] /\ UNCHANGED wakeAt
  /\ UNCHANGED <<shot, spot, name, hasDump, tables, sky, now, history>>

Wake(b) ==
  /\ pc[b] = "asleep" /\ now >= wakeAt[b]
  /\ pc' = [pc EXCEPT ![b] = "drawing"]
  /\ wakeAt' = [wakeAt EXCEPT ![b] = 0]
  /\ UNCHANGED <<shot, spot, name, hasDump, tables, sky, now, history>>

\* Mutant: dump_dir is left set for the next turn.
ForgetsButDump(b) ==
  /\ shot' = [shot EXCEPT ![b] = 0] /\ UNCHANGED hasDump
  /\ spot' = [spot EXCEPT ![b] = None] /\ name' = [name EXCEPT ![b] = NoName]

\* What a turn of the loop holds ends with it.
Forgets(b) ==
  /\ shot' = [shot EXCEPT ![b] = 0] /\ hasDump' = [hasDump EXCEPT ![b] = FALSE]
  /\ spot' = [spot EXCEPT ![b] = None] /\ name' = [name EXCEPT ![b] = NoName]

\* The turn of the loop ends: a manual shot exits, the service sleeps.
Rest(b, duration) ==
  /\ pc' = [pc EXCEPT ![b] = IF b = Service THEN "asleep" ELSE "exited"]
  /\ wakeAt' = [wakeAt EXCEPT ![b] = IF b = Service THEN now + duration ELSE 0]
  /\ Forgets(b)

AfterShot == Max({Cadence - Busy, MinRest})

-----------------------------------------------------------------------------
(***************************************************************************)
(* Firing                                                                  *)
(***************************************************************************)

RowOf(b, at, id, outcome) ==
  [name |-> id, at |-> now, spot |-> at, by |-> b, outcome |-> outcome, dump |-> <<>>]

AddRow(row) ==
  /\ Len(ledger) < MaxShots
  /\ ledger' = Append(ledger, row)

\* The live std cannot be trusted: the shot is recorded as not fired.
StdStale(b) ==
  /\ pc[b] = "drawing"
  /\ \E s \in Spot : AddRow(RowOf(b, s, NoName, "fire_failed"))
  /\ Rest(b, Cadence)
  /\ UNCHANGED <<alerts, files, sky, now, late, crossed, deleted, restarts, triggers>>

Today == now \div DayLen + 1

\* Mutant: the numbering starts anew with the process.
NextNameRestarting == <<Today, 1>>

\* next_file_id: one more than the highest number of the UTC day.
NextName == <<Today, 1 + Max({0} \union {r.name[2] : r \in {q \in Range(ledger) :
                                                            q.name[1] = Today}})>>

Underway == {"making", "firing", "dumping", "waiting", "reporting",
             "completing"}

\* The parameters are drawn, the shot is named and its files are being made.
Draw(b) ==
  /\ pc[b] = "drawing"
  /\ \E s \in Spot : spot' = [spot EXCEPT ![b] = s]
  /\ name' = [name EXCEPT ![b] = NextName]
  /\ pc' = [pc EXCEPT ![b] = "making"]
  /\ crossed' = (crossed \/ \E c \in Bot \ {b} : pc[c] \in Underway)
  /\ UNCHANGED <<wakeAt, shot, hasDump, tables, sky, now, late, deleted,
                 restarts, triggers>>

\* No row is left of a shot whose files could not be made.
GenerationFails(b) ==
  /\ pc[b] = "making"
  /\ Rest(b, Cadence)
  /\ UNCHANGED <<tables, sky, now, history>>

CommitRow(b) ==
  /\ pc[b] = "making"
  /\ AddRow(RowOf(b, spot[b], name[b], None))
  /\ shot' = [shot EXCEPT ![b] = Len(ledger) + 1]
  /\ pc' = [pc EXCEPT ![b] = "firing"]
  /\ UNCHANGED <<wakeAt, spot, name, hasDump, alerts, files, sky, now, late, crossed,
                 deleted, restarts, triggers>>

\* The write returns when the sidecar has opened its end, however late that
\* is; the pulse joins a gulp whose samples are older than the write.
FifoWritten(b) ==
  /\ pc[b] = "firing"
  /\ \E lead \in 0 .. MaxLead :
       pulses' = pulses \union {[id |-> shot[b], spot |-> spot[b], at |-> now - lead]}
  /\ pc' = [pc EXCEPT ![b] = "dumping"]
  /\ UNCHANGED <<wakeAt, shot, spot, name, hasDump, tables, clusters, now, history>>

\* Mutant: the turn goes on after the failure was recorded.
FifoFailsGoesOn(b) ==
  /\ pc[b] = "firing"
  /\ ledger' = [ledger EXCEPT ![shot[b]].outcome = "fire_failed"]
  /\ pc' = [pc EXCEPT ![b] = "dumping"]
  /\ UNCHANGED <<wakeAt, shot, spot, name, hasDump, alerts, files, sky, now, history>>

FifoFails(b) ==
  /\ pc[b] = "firing"
  /\ ledger' = [ledger EXCEPT ![shot[b]].outcome = "fire_failed"]
  /\ Rest(b, Cadence)
  /\ UNCHANGED <<alerts, files, sky, now, history>>

-----------------------------------------------------------------------------
(***************************************************************************)
(* The dump for the replay plot                                            *)
(***************************************************************************)

\* dump_window, clamped to the clock of the request.
DumpWindow(b) ==
  LET at == ledger[shot[b]].at IN <<at - DumpPre, Min({at - DumpPost, now})>>

T2 == 0   \* the owner of t2d's dumps, beside the ids of the shots

FileOf(owner, window) == [owner |-> owner, from |-> window[1], to |-> window[2]]

\* The daemon wrote the file, or did not.
MayWrite(file) == files' \in {files, files \union {file}}

\* The sent message, the truth plot and the sleep until the search must have
\* seen the pulse.
Waits(b) ==
  /\ pc' = [pc EXCEPT ![b] = "waiting"]
  /\ wakeAt' = [wakeAt EXCEPT ![b] = now + ReconcileWait]

\* Any reply at all counts as a dump: the window is recorded.
DumpTaken(b) ==
  /\ pc[b] = "dumping"
  /\ MayWrite(FileOf(shot[b], DumpWindow(b)))
  /\ ledger' = [ledger EXCEPT ![shot[b]].dump = DumpWindow(b)]
  /\ hasDump' = [hasDump EXCEPT ![b] = TRUE]
  /\ Waits(b)
  /\ UNCHANGED <<shot, spot, name, alerts, sky, now, history>>

\* No connection, or no reply in time: what was written is nobody's.
DumpFails(b) ==
  /\ pc[b] = "dumping"
  /\ MayWrite(FileOf(shot[b], DumpWindow(b)))
  /\ Waits(b)
  /\ UNCHANGED <<shot, spot, name, hasDump, ledger, alerts, sky, now,
                 history>>

-----------------------------------------------------------------------------
(***************************************************************************)
(* Reconcile, the streak, and the completion of the shot                   *)
(***************************************************************************)

\* Mutant: the window starts at the FIFO write.
WindowFromWrite(row, at) == row.at <= at /\ at <= row.at + WindowHi

InWindow(row, at) == row.at - WindowLo <= at /\ at <= row.at + WindowHi

\* The rows whose pulse lies in the window of row id, at its spot.
Matching(id) ==
  {p.id : p \in {q \in pulses : q.spot = ledger[id].spot /\ InWindow(ledger[id], q.at)}}

\* A cluster in the window decides; without one hella's trials only tell the
\* two kinds of miss apart.
OutcomeOf(id) == IF Matching(id) \intersect clusters # {} THEN "recovered" ELSE "missed"

Reconcile(b) ==
  /\ pc[b] = "waiting" /\ now >= wakeAt[b]
  /\ ledger' = [ledger EXCEPT ![shot[b]].outcome = OutcomeOf(shot[b])]
  /\ pc' = [pc EXCEPT ![b] = "reporting"]
  /\ wakeAt' = [wakeAt EXCEPT ![b] = 0]
  /\ UNCHANGED <<shot, spot, name, hasDump, alerts, files, sky, now,
                 history>>

\* The row stays unresolved and its dump is left behind.
ReconcileRaises(b) ==
  /\ pc[b] = "waiting" /\ now >= wakeAt[b]
  /\ Rest(b, AfterShot)
  /\ UNCHANGED <<tables, sky, now, history>>

\* miss_streak: the misses since the newest other outcome, among the newest
\* StreakLimit rows up to id that have an outcome.
Resolved(id) == {i \in 1 .. id : ledger[i].outcome # None}

\* Mutant: the newest row alone is read.
StreakOfNewest(id) == IF ledger[id].outcome = "missed" THEN 1 ELSE 0

Streak(id) ==
  LET others == {i \in Resolved(id) : ledger[i].outcome # "missed"}
      run == {i \in Resolved(id) : \A o \in others : i > o}
  IN  Min({Cardinality(run), StreakLimit})

AttentionDue(n) == n > 0 /\ n % StreakEvery = 0

\* check_streak, for the rows up to this one.
Report(b) ==
  /\ pc[b] = "reporting"
  /\ alerts' = IF AttentionDue(Streak(shot[b]))
               THEN Append(alerts, [n |-> Streak(shot[b]), id |-> shot[b]]) ELSE alerts
  /\ pc' = [pc EXCEPT ![b] = "completing"]
  /\ UNCHANGED <<wakeAt, shot, spot, name, hasDump, ledger, files, sky, now, history>>

\* A post that raises: the streak's message is not retried.
ReportRaises(b) ==
  /\ pc[b] = "reporting"
  /\ pc' = [pc EXCEPT ![b] = "completing"]
  /\ UNCHANGED <<wakeAt, shot, spot, name, hasDump, tables, sky, now, history>>

Overlapping(window) ==
  {f \in files : f.from <= window[2] + Margin /\ f.to >= window[1] - Margin}

\* Mutant: the dump of a miss is not kept.
KeptForMissNever(row) == FALSE

KeptForMiss(row) == row.outcome = "missed"

\* cleanup_dump, which knows the files of a shot by its window alone.
Cleaned(b) ==
  LET row == ledger[shot[b]]
  IN  IF \/ ~ hasDump[b] \/ row.dump = <<>> \/ KeptForMiss(row)
         \/ Cardinality(Overlapping(row.dump)) > MaxDeleteFiles
      THEN {} ELSE Overlapping(row.dump)

\* do_replay.
Complete(b) ==
  /\ pc[b] = "completing"
  /\ files' = files \ Cleaned(b)
  /\ deleted' = deleted \union {[owner |-> f.owner, after |-> shot[b]] : f \in Cleaned(b)}
  /\ Rest(b, AfterShot)
  /\ UNCHANGED <<ledger, alerts, sky, now, late, crossed, restarts, triggers>>

\* The replay raises: the dump stays.
ReplayRaises(b) ==
  /\ pc[b] = "completing"
  /\ Rest(b, AfterShot)
  /\ UNCHANGED <<tables, sky, now, history>>

-----------------------------------------------------------------------------
(***************************************************************************)
(* The signal chain, T2's own dumps, crashes and time                      *)
(***************************************************************************)

T2Stores(p) ==
  /\ p.id \notin clusters
  /\ clusters' = clusters \union {p.id}
  /\ late' = IF ledger[p.id].outcome # None THEN late \union {p.id} ELSE late
  /\ UNCHANGED <<bot, tables, pulses, now, crossed, deleted, restarts, triggers>>

\* t2d dumps a candidate to the same directory.
T2Dumps ==
  /\ triggers < MaxTriggers /\ now <= LastTrigger
  /\ triggers' = triggers + 1
  /\ files' = files \union {FileOf(T2, <<now - DumpPre, now - DumpPost>>)}
  /\ UNCHANGED <<bot, ledger, alerts, sky, now, late, crossed, deleted,
                 restarts>>

Crash(b) ==
  /\ pc[b] \notin {"down", "exited"} /\ restarts < MaxRestarts
  /\ restarts' = restarts + 1
  /\ pc' = [pc EXCEPT ![b] = IF b = Service THEN "down" ELSE "exited"]
  /\ wakeAt' = [wakeAt EXCEPT ![b] = 0]
  /\ Forgets(b)
  /\ UNCHANGED <<tables, sky, now, late, crossed, deleted, triggers>>

Tick ==
  /\ now < MaxTime
  /\ now' = now + 1
  /\ UNCHANGED <<bot, tables, sky, history>>

Next ==
  \/ \E b \in Bot :
       \/ Start(b) \/ Wake(b) \/ StdStale(b) \/ Draw(b) \/ GenerationFails(b)
       \/ CommitRow(b) \/ FifoWritten(b) \/ FifoFails(b) \/ DumpTaken(b) \/ DumpFails(b)
       \/ Reconcile(b) \/ ReconcileRaises(b) \/ Report(b) \/ ReportRaises(b)
       \/ Complete(b) \/ ReplayRaises(b) \/ Crash(b)
  \/ \E p \in pulses : T2Stores(p)
  \/ T2Dumps
  \/ Tick

Spec == Init /\ [][Next]_vars

-----------------------------------------------------------------------------
(***************************************************************************)
(* What the bot promises                                                   *)
(***************************************************************************)

Dump == {<<>>} \union (Int \X Int)

Row ==
  [name: Nat \X Nat, at: Nat, spot: Spot, by: Bot, outcome: Outcome \union {None},
   dump: Dump]

\* The type invariant: a process past CommitRow has a row, and the shot it is
\* at is not resolved before its Reconcile.
TypeOK ==
  /\ pc \in [Bot -> {"down", "asleep", "drawing", "exited"} \union Underway]
  /\ wakeAt \in [Bot -> Nat] /\ spot \in [Bot -> Spot \union {None}]
  /\ name \in [Bot -> Nat \X Nat] /\ hasDump \in [Bot -> BOOLEAN]
  /\ ledger \in Seq(Row)
  /\ alerts \in Seq([n: Nat, id: Id])
  /\ shot \in [Bot -> 0 .. Len(ledger)]
  /\ \A b \in Bot :
       /\ pc[b] \in Underway \ {"making"} <=> shot[b] # 0
       /\ shot[b] # 0 =>
            (ledger[shot[b]].outcome = None <=> pc[b] \notin {"reporting", "completing"})
       /\ hasDump[b] => shot[b] # 0 /\ ledger[shot[b]].dump # <<>>
  /\ \A p \in pulses : p.id \in Id
  /\ late \subseteq clusters

(***************************************************************************)
(* No two shots have one display name, across midnights, shots that failed *)
(* and restarts of the service; only a process that names its shot while   *)
(* another's is under way may take the same one.                           *)
(***************************************************************************)
NamesUnique ==
  ~ crossed =>
    \A i, j \in Id :
      i # j /\ ledger[i].name # NoName => ledger[i].name # ledger[j].name

(***************************************************************************)
(* The service's shots are spaced: a crash at any step, a shot that was    *)
(* not fired and a manual shot in between never bring two of them closer   *)
(* than the cadence or a whole turn of the loop, whichever is less.        *)
(***************************************************************************)
ShotsSpaced ==
  \A i, j \in Id :
    i < j /\ ledger[i].by = Service /\ ledger[j].by = Service =>
      ledger[j].at - ledger[i].at >= Min({Cadence, ReconcileWait + AfterShot})

(***************************************************************************)
(* The outcome is what happened: a shot "not fired" put no pulse in the    *)
(* stream, any other outcome is of a shot that did, and a miss is a shot   *)
(* whose cluster was not there by then, unless the FIFO write came so late *)
(* that the pulse lies outside its own window.  "recovered" is of its own  *)
(* cluster, unless another shot's pulse lies in the window too.            *)
(***************************************************************************)
OutcomeTrue ==
  \A i \in Id :
    LET fired == \E p \in pulses : p.id = i
        near  == {p \in pulses : p.at \in ledger[i].at - WindowLo .. ledger[i].at + WindowHi}
    IN  CASE ledger[i].outcome = None -> TRUE
          [] ledger[i].outcome = "fire_failed" -> ~ fired
          [] ledger[i].outcome = "missed" ->
               fired /\ ((\E p \in near : p.id = i) /\ i \in clusters => i \in late)
          [] OTHER -> fired /\ ((\A p \in near : p.id = i) => i \in clusters)

(***************************************************************************)
(* The dump of a missed shot is the only copy of what hella saw: neither   *)
(* its own completion nor that of any other shot of the service deletes    *)
(* it, the shots being far enough apart in time.                           *)
(***************************************************************************)
MissDumpKept ==
  \A d \in deleted :
    d.owner \in Id /\ ledger[d.owner].by = Service /\ ledger[d.after].by = Service =>
      ledger[d.owner].outcome # "missed"

(***************************************************************************)
(* Attention messages come at the multiples of streak_every, and once each *)
(* in a run of misses, whatever restarts there were: while the run is      *)
(* shorter than what miss_streak reads, and shots resolve in their order.  *)
(***************************************************************************)
AlertsOncePerMultiple ==
  /\ \A k \in DOMAIN alerts : alerts[k].n % StreakEvery = 0
  /\ ~ crossed =>
       \A k, m \in DOMAIN alerts :
         k < m /\ alerts[k].n = alerts[m].n /\ alerts[k].n < StreakLimit =>
           \E i \in alerts[k].id .. alerts[m].id :
             ledger[i].outcome \notin {"missed", None}

(***************************************************************************)
(* The bot implements the life of a shot, as ShotLife.tla states it: no    *)
(* crash, raise or process beside it resolves a shot twice, resolves one   *)
(* whose pulse is not out, alerts about a recovered one or cleans up after *)
(* a missed one.                                                           *)
(***************************************************************************)
OutcomesOf ==
  [i \in Id |-> IF ledger[i].outcome = None THEN "open" ELSE ledger[i].outcome]

Life == INSTANCE ShotLife WITH
  outcome <- OutcomesOf,
  inStream <- {p.id : p \in pulses},
  alerted <- {alerts[k].id : k \in DOMAIN alerts},
  cleaned <- {d.after : d \in deleted}

EveryShotLives == Life!LifeSpec

(***************************************************************************)
(* "Cleanup deletes only this shot's own .dada files"                      *)
(* (docs/operations.md).                                                   *)
(***************************************************************************)
CleanupSparesOthers == \A d \in deleted : d.owner = d.after

=============================================================================
