------------------------------- MODULE Trigger -------------------------------
(***************************************************************************)
(* The trigger stage of t2d (apps/t2d.py, _trigger): kill-switch, storm    *)
(* lockout, budgets and disk floor, the dump command sent to a dump daemon *)
(* over TCP, the audit row of every decision, the voltage fan-out and the  *)
(* trigger card written later.                                             *)
(*                                                                         *)
(* Each gulp's flush task (and each fast-path task) calls _trigger on its  *)
(* own, so several calls are under way at once: they interleave at the two *)
(* awaits, the intensity request and the voltage fan-out.  What a call     *)
(* checks before an await it uses after it.  The dump daemon is another    *)
(* process: it may serve a command whose caller has given up or died.      *)
(***************************************************************************)
EXTENDS Policy, FiniteSets

CONSTANTS
  Event,          \* calls of _trigger
  Host,           \* nodes that receive dumps
  LocalHost,      \* the node t2d runs on
  Configs,        \* configurations: dumps_enabled, storm_lockout_reset,
                  \*   voltage.enabled
  MinSpacing, DailyMax,          \* trigger.intensity
  VoltMinSpacing, VoltDailyMax,  \* trigger.voltage
  StormLockout,   \* storm_lockout_s; 0 disables
  DiskStale,      \* the 600 s after which a remote reading is unknown
  PollTimeout,    \* the 20 s a poll waits for its ssh
  Endpoints,      \* how many daemons a voltage dump commands
  MaxTime,        \* bound: the clock stops here
  LastStart,      \* bound: no call starts after this time
  MaxRestarts,    \* bound on process restarts
  MaxDiskChanges  \* bound on changes of free space

(***************************************************************************)
(* An event is blind unless the fast path raised it; voltage says that its *)
(* tier qualifies for a voltage dump; host is the node that owns its beam. *)
(***************************************************************************)
ASSUME EventAssumption ==
  /\ Event \subseteq [id: Nat, blind: BOOLEAN, voltage: BOOLEAN, host: Host]
  /\ IsFiniteSet(Event)

ASSUME ConfigAssumption ==
  /\ Configs \subseteq [dumps: BOOLEAN, reset: {"eligible", "triggered"},
                        voltage: BOOLEAN]
  /\ LocalHost \in Host
  /\ MinSpacing \in Nat /\ VoltMinSpacing \in Nat
  /\ DailyMax \in Nat \ {0} /\ VoltDailyMax \in Nat \ {0}
  /\ StormLockout \in Nat /\ DiskStale \in Nat /\ PollTimeout \in Nat
  /\ Endpoints \in Nat \ {0}
  /\ MaxTime \in Nat /\ LastStart \in Nat
  /\ MaxRestarts \in Nat /\ MaxDiskChanges \in Nat

VARIABLES
  \* the process
  config,        \* the configuration it runs with
  pc,            \* where each call is
  startAt,       \* the "now" each call read when it started
  budget,        \* budget_int
  voltBudget,    \* budget_vol
  lockoutClock,  \* _lockout_clock
  polled,        \* DiskMonitor.remote_free: the last good reading per host
  probe,         \* a reading taken on a remote host and not yet received
  card,          \* the delayed trigger card of each event
  \* what outlives it
  now,           \* wall clock, assumed not to be set back
  audit,         \* the "intensity" row of each event in the triggers table
  voltAudit,     \* its "voltage" row
  cmd,           \* the dump command at the dump daemon: none, sent or executed
  hasRoom,       \* whether each host's filesystem is above the floor
  \* history, read by no action of the program
  roomAt,        \* the last time each host was above the floor
  voltOk,        \* how many endpoints dumped for each event
  overlap,       \* two intensity requests were under way at once
  voltOverlap,   \* two voltage fan-outs were under way at once
  restarts, diskChanges

process == <<config, pc, startAt, budget, voltBudget, lockoutClock, polled,
             probe, card>>
outside == <<now, audit, voltAudit, cmd, hasRoom>>
history == <<roomAt, voltOk, overlap, voltOverlap, restarts, diskChanges>>
vars == <<process, outside, history>>

NoReading == [at |-> Never, room |-> FALSE]

Init ==
  /\ config \in Configs
  /\ pc = [e \in Event |-> "idle"]
  /\ startAt = [e \in Event |-> Never]
  /\ budget = NewBudget
  /\ voltBudget = NewBudget
  /\ lockoutClock = Never
  /\ polled = [h \in Host |-> NoReading]
  /\ probe = [h \in Host |-> NoReading]
  /\ card = [e \in Event |-> "none"]
  /\ now = 0
  /\ audit = [e \in Event |-> "none"]
  /\ voltAudit = [e \in Event |-> "none"]
  /\ cmd = [e \in Event |-> "none"]
  /\ hasRoom = [h \in Host |-> TRUE]
  /\ roomAt = [h \in Host |-> 0]
  /\ voltOk = [e \in Event |-> 0]
  /\ overlap = FALSE
  /\ voltOverlap = FALSE
  /\ restarts = 0
  /\ diskChanges = 0
-----------------------------------------------------------------------------
(***************************************************************************)
(* The checks                                                              *)
(***************************************************************************)

\* Only blind events are subject to the storm lockout.
LockoutApplies(e) == StormLockout > 0 /\ e.blind

LockedOut(e) ==
  /\ LockoutApplies(e)
  /\ lockoutClock # Never /\ now - lockoutClock < StormLockout

\* Mutant: an unknown remote reading passes, and no reading is ever stale.
DiskRefusesKnownOnly(h) ==
  IF h = LocalHost THEN ~ hasRoom[h]
  ELSE polled[h].at # Never /\ ~ polled[h].room

\* DiskMonitor.refusal: statvfs here, the cached ssh reading elsewhere.
DiskRefuses(h) ==
  IF h = LocalHost THEN ~ hasRoom[h]
  ELSE \/ polled[h].at = Never \/ now - polled[h].at > DiskStale
       \/ ~ polled[h].room

IntensityRefuses(e) ==
  Refuses(budget, MinSpacing, DailyMax, now) \/ DiskRefuses(e.host)

OthersAt(e, label) == \E f \in Event \ {e} : pc[f] = label

\* What is left of a call once its intensity part is decided.  t is the
\* call's start: the voltage budget is checked against it, however old.
VoltageWanted(e) == config.voltage /\ e.voltage

AfterIntensity(e, t) ==
  LET refused == VoltageWanted(e)
                 /\ Refuses(voltBudget, VoltMinSpacing, VoltDailyMax, t)
      fans == VoltageWanted(e) /\ ~ refused
  IN  /\ pc' = [pc EXCEPT ![e] = IF fans THEN "fanout" ELSE "done"]
      /\ voltAudit' = IF refused THEN [voltAudit EXCEPT ![e] = "refused"]
                      ELSE voltAudit
      /\ voltOverlap' = (voltOverlap \/ (fans /\ OthersAt(e, "fanout")))
-----------------------------------------------------------------------------
(***************************************************************************)
(* _trigger up to its first await                                          *)
(***************************************************************************)

Starts(e) ==
  /\ pc[e] = "idle" /\ now <= LastStart
  /\ startAt' = [startAt EXCEPT ![e] = now]
  /\ UNCHANGED <<config, budget, voltBudget, polled, probe, card, now,
                 hasRoom, roomAt, voltOk, restarts, diskChanges>>

\* With reset "eligible" the clock restarts whether or not the event dumps.
EligibleRestartsClock(e) ==
  lockoutClock' = IF LockoutApplies(e) /\ config.reset = "eligible"
                  THEN now ELSE lockoutClock

Writes(e, action) == audit' = [audit EXCEPT ![e] = action]

\* dumps_enabled false (or shadow): the decision is recorded, nothing is sent.
Suppress(e) ==
  /\ Starts(e)
  /\ ~ config.dumps
  /\ Writes(e, "suppressed")
  /\ pc' = [pc EXCEPT ![e] = "done"]
  /\ UNCHANGED <<lockoutClock, voltAudit, cmd, overlap, voltOverlap>>

\* A locked-out event ends here: no voltage dump either.
LockOut(e) ==
  /\ Starts(e)
  /\ config.dumps /\ LockedOut(e)
  /\ EligibleRestartsClock(e)
  /\ Writes(e, "lockout")
  /\ pc' = [pc EXCEPT ![e] = "done"]
  /\ UNCHANGED <<voltAudit, cmd, overlap, voltOverlap>>

Refuse(e) ==
  /\ Starts(e)
  /\ config.dumps /\ ~ LockedOut(e)
  /\ IntensityRefuses(e)
  /\ EligibleRestartsClock(e)
  /\ Writes(e, "refused")
  /\ AfterIntensity(e, now)
  /\ UNCHANGED <<cmd, overlap>>

\* The dump command goes out and the call waits for the daemon's reply.
Request(e) ==
  /\ Starts(e)
  /\ config.dumps /\ ~ LockedOut(e)
  /\ ~ IntensityRefuses(e)
  /\ EligibleRestartsClock(e)
  /\ pc' = [pc EXCEPT ![e] = "dumping"]
  /\ cmd' = [cmd EXCEPT ![e] = "sent"]
  /\ overlap' = (overlap \/ OthersAt(e, "dumping"))
  /\ UNCHANGED <<audit, voltAudit, voltOverlap>>
-----------------------------------------------------------------------------
(***************************************************************************)
(* The dump daemon (external): it writes the window and then replies, or   *)
(* refuses (the window has left its ring, it is busy).  It serves a        *)
(* command whether or not anybody still waits.                             *)
(***************************************************************************)

DaemonDumps(e) ==
  /\ cmd[e] = "sent"
  /\ cmd' = [cmd EXCEPT ![e] = "executed"]
  /\ UNCHANGED <<process, now, audit, voltAudit, hasRoom, history>>

DaemonRefuses(e) ==
  /\ cmd[e] = "sent"
  /\ cmd' = [cmd EXCEPT ![e] = "none"]
  /\ UNCHANGED <<process, now, audit, voltAudit, hasRoom, history>>
-----------------------------------------------------------------------------
(***************************************************************************)
(* _trigger after its first await                                          *)
(***************************************************************************)

Resumes(e) ==
  /\ pc[e] = "dumping"
  /\ AfterIntensity(e, startAt[e])
  /\ UNCHANGED <<config, startAt, voltBudget, polled, probe, now,
                 hasRoom, roomAt, voltOk, overlap, restarts, diskChanges>>

\* Mutant: the dump is not recorded in the budget.
BudgetAfterDumpUnrecorded(e) == budget' = budget

\* The dump is recorded at the time the call started, not at the reply.
BudgetAfterDump(e) == budget' = Record(budget, startAt[e])

\* Mutant: the dump does not restart the lockout clock.
ClockAfterDumpKept(e) == lockoutClock' = lockoutClock

ClockAfterDump(e) ==
  lockoutClock' = IF LockoutApplies(e) /\ config.reset = "triggered"
                  THEN startAt[e] ELSE lockoutClock

\* The reply is OK: the row, the budget, the clock and the delayed card.
ReplyOK(e) ==
  /\ Resumes(e)
  /\ cmd[e] = "executed"
  /\ Writes(e, "triggered")
  /\ BudgetAfterDump(e)
  /\ ClockAfterDump(e)
  /\ card' = [card EXCEPT ![e] = "pending"]
  /\ UNCHANGED cmd

\* Any other reply, the empty one of a closed connection included.
ReplyNotOK(e) ==
  /\ Resumes(e)
  /\ Writes(e, "refused_daemon")
  /\ UNCHANGED <<cmd, budget, lockoutClock, card>>

\* The command may never have been delivered; if it was, it stays where it is.
MayBeUndelivered(e) ==
  cmd' \in {cmd, [cmd EXCEPT ![e] = IF @ = "sent" THEN "none" ELSE @]}

\* Mutant: a failed request leaves no row.
RequestFailsSilently(e) ==
  /\ Resumes(e)
  /\ MayBeUndelivered(e)
  /\ UNCHANGED <<audit, budget, lockoutClock, card>>

\* Mutant: the read of the reply has no timeout.
RequestFailsOnClose(e) ==
  /\ Resumes(e)
  /\ cmd[e] # "sent"
  /\ Writes(e, "failed")
  /\ MayBeUndelivered(e)
  /\ UNCHANGED <<budget, lockoutClock, card>>

\* Mutant: a failed request gives back a charge that was never made.
RequestFailsRefunding(e) ==
  /\ Resumes(e)
  /\ Writes(e, "failed")
  /\ MayBeUndelivered(e)
  /\ budget' = [budget EXCEPT !.count = @ - 1]
  /\ UNCHANGED <<lockoutClock, card>>

\* No connection (the daemon never gets the command) or no reply in time
\* (it may have dumped, or may dump later).
RequestFails(e) ==
  /\ Resumes(e)
  /\ Writes(e, "failed")
  /\ MayBeUndelivered(e)
  /\ UNCHANGED <<budget, lockoutClock, card>>

\* Mutant: the fan-out is charged only if every endpoint dumped.
VoltBudgetAfterUnlessPartial(e, ok) ==
  voltBudget' = IF ok = Endpoints THEN Record(voltBudget, startAt[e]) ELSE voltBudget

\* One endpoint that dumped is enough to charge the budget.
VoltBudgetAfter(e, ok) ==
  voltBudget' = IF ok > 0 THEN Record(voltBudget, startAt[e]) ELSE voltBudget

\* The voltage endpoints have answered or failed; the row says "partial"
\* also when none of them dumped.
VoltageReplies(e) ==
  /\ pc[e] = "fanout"
  /\ pc' = [pc EXCEPT ![e] = "done"]
  /\ \E ok \in 0 .. Endpoints :
       /\ VoltBudgetAfter(e, ok)
       /\ voltOk' = [voltOk EXCEPT ![e] = ok]
       /\ voltAudit' = [voltAudit EXCEPT ![e] =
                          IF ok = Endpoints THEN "triggered" ELSE "partial"]
  /\ UNCHANGED <<config, startAt, budget, lockoutClock, polled, probe, card,
                 now, audit, cmd, hasRoom, roomAt, overlap,
                 voltOverlap, restarts, diskChanges>>

CardGoes(e, from, to) ==
  /\ card[e] = from
  /\ card' = [card EXCEPT ![e] = to]
  /\ UNCHANGED <<config, pc, startAt, budget, voltBudget, lockoutClock, polled,
                 probe, outside, history>>

\* _delayed_card after its delay: written to the spool of this node, or given
\* to an ssh for another's.  "ended" is a card written or a failure logged:
\* nothing in the program tells the two apart.
WriteCard(e) ==
  \/ e.host = LocalHost /\ CardGoes(e, "pending", "ended")
  \/ e.host # LocalHost /\ \E to \in {"writing", "ended"} : CardGoes(e, "pending", to)

\* The ssh (external) ends.  communicate() has no timeout: it may never do so.
SshEnds(e) == CardGoes(e, "writing", "ended")
-----------------------------------------------------------------------------
(***************************************************************************)
(* Disks, time and restarts                                                *)
(***************************************************************************)

\* The poller asks one remote host after the other.  The reading is taken
\* there, and the answer travels back.
ProbeMeasures(h) ==
  /\ h # LocalHost
  /\ \A g \in Host : probe[g] = NoReading
  /\ probe' = [probe EXCEPT ![h] = [at |-> now, room |-> hasRoom[h]]]
  /\ UNCHANGED <<config, pc, startAt, budget, voltBudget, lockoutClock, polled,
                 card, outside, history>>

InTime(h) == now - probe[h].at <= PollTimeout

\* The reading is cached under the time it was received, not taken.
ProbeReturns(h) ==
  /\ probe[h] # NoReading /\ InTime(h)
  /\ polled' = [polled EXCEPT ![h] = [at |-> now, room |-> probe[h].room]]
  /\ probe' = [probe EXCEPT ![h] = NoReading]
  /\ UNCHANGED <<config, pc, startAt, budget, voltBudget, lockoutClock, card,
                 outside, history>>

\* A poll that fails or times out leaves the cache as it is.
ProbeFails(h) ==
  /\ probe[h] # NoReading
  /\ probe' = [probe EXCEPT ![h] = NoReading]
  /\ UNCHANGED <<config, pc, startAt, budget, voltBudget, lockoutClock, polled,
                 card, outside, history>>

DiskChanges(h) ==
  /\ diskChanges < MaxDiskChanges
  /\ diskChanges' = diskChanges + 1
  /\ hasRoom' = [hasRoom EXCEPT ![h] = ~ @]
  /\ roomAt' = [roomAt EXCEPT ![h] = now]
  /\ UNCHANGED <<process, now, audit, voltAudit, cmd, voltOk,
                 overlap, voltOverlap, restarts>>

Tick ==
  /\ now < MaxTime
  /\ now' = now + 1
  /\ roomAt' = [h \in Host |-> IF hasRoom[h] THEN now + 1 ELSE roomAt[h]]
  /\ UNCHANGED <<process, audit, voltAudit, cmd, hasRoom, voltOk,
                 overlap, voltOverlap, restarts, diskChanges>>

\* Budgets, lockout clock, disk cache, calls under way and cards held back
\* are all in memory.  Commands already sent are not.
Restart ==
  /\ restarts < MaxRestarts
  /\ restarts' = restarts + 1
  /\ pc' = [e \in Event |-> IF pc[e] \in {"dumping", "fanout"} THEN "crashed"
                            ELSE pc[e]]
  /\ card' = [e \in Event |-> IF card[e] \in {"pending", "writing"} THEN "lost"
                              ELSE card[e]]
  /\ budget' = NewBudget
  /\ voltBudget' = NewBudget
  /\ lockoutClock' = Never
  /\ polled' = [h \in Host |-> NoReading]
  /\ probe' = [h \in Host |-> NoReading]
  /\ UNCHANGED <<config, startAt, outside, roomAt, voltOk, overlap, voltOverlap,
                 diskChanges>>

Call(e) ==
  \/ Suppress(e) \/ LockOut(e) \/ Refuse(e) \/ Request(e)
  \/ ReplyOK(e) \/ ReplyNotOK(e) \/ RequestFails(e) \/ VoltageReplies(e)

Poll(h) == ProbeMeasures(h) \/ ProbeReturns(h) \/ ProbeFails(h)

Next ==
  \/ \E e \in Event : Call(e) \/ DaemonDumps(e) \/ DaemonRefuses(e)
                     \/ WriteCard(e) \/ SshEnds(e)
  \/ \E h \in Host : Poll(h) \/ DiskChanges(h)
  \/ Tick
  \/ Restart

Spec == Init /\ [][Next]_vars

(***************************************************************************)
(* Every await of a call ends, at the latest by its timeout, and the delay *)
(* of a card is a timer of the event loop.  A call need not start, a       *)
(* daemon need not answer, the ssh that carries a card to another node     *)
(* need not end, and the process need not crash.                           *)
(***************************************************************************)
Fairness ==
  \A e \in Event : /\ WF_vars(RequestFails(e))
                   /\ WF_vars(VoltageReplies(e))
                   /\ WF_vars(WriteCard(e))

FairSpec == Spec /\ Fairness
-----------------------------------------------------------------------------
(***************************************************************************)
(* Properties                                                              *)
(***************************************************************************)

Labels == {"idle", "dumping", "fanout", "done", "crashed"}
Actions == {"none", "suppressed", "lockout", "refused", "triggered",
            "refused_daemon", "failed"}
Times == Nat \union {Never}

TypeOK ==
  /\ config \in Configs
  /\ pc \in [Event -> Labels]
  /\ startAt \in [Event -> Times]
  /\ budget \in Budget /\ voltBudget \in Budget
  /\ lockoutClock \in Times
  /\ polled \in [Host -> [at : Times, room : BOOLEAN]]
  /\ probe \in [Host -> [at : Times, room : BOOLEAN]]
  /\ card \in [Event -> {"none", "pending", "writing", "ended", "lost"}]
  /\ now \in Nat
  /\ audit \in [Event -> Actions]
  /\ voltAudit \in [Event -> {"none", "refused", "triggered", "partial"}]
  /\ cmd \in [Event -> {"none", "sent", "executed"}]
  /\ hasRoom \in [Host -> BOOLEAN]
  /\ roomAt \in [Host -> Nat]
  /\ voltOk \in [Event -> 0 .. Endpoints]
  /\ overlap \in BOOLEAN /\ voltOverlap \in BOOLEAN
  /\ restarts \in Nat /\ diskChanges \in Nat

\* The events whose dump went out, by the audit table.
Triggered == {e \in Event : audit[e] = "triggered"}

Apart(S, gap) == \A e, f \in S : e # f => \/ startAt[e] - startAt[f] >= gap
                                          \/ startAt[f] - startAt[e] >= gap

OnDay(S, d) == {e \in S : Day(startAt[e]) = d}

AtMostPerDay(S, n) ==
  \A e \in S : Cardinality(OnDay(S, Day(startAt[e]))) <= n

(***************************************************************************)
(* The intensity budget holds while requests do not overlap: since the     *)
(* daemon started, dumps are at least MinSpacing apart and at most         *)
(* DailyMax fall on one UTC day, whatever fails or is refused in between.  *)
(***************************************************************************)
SerialBudgetHolds ==
  ~ overlap /\ restarts = 0 =>
    Apart(Triggered, MinSpacing) /\ AtMostPerDay(Triggered, DailyMax)

\* The blind dumps that went out.
BlindTriggered == {e \in Triggered : e.blind}

(***************************************************************************)
(* With reset "triggered" and no overlap, two blind dumps are at least     *)
(* StormLockout apart.                                                     *)
(***************************************************************************)
SerialLockoutHolds ==
  ~ overlap /\ restarts = 0 /\ config.reset = "triggered" =>
    Apart(BlindTriggered, StormLockout)

(***************************************************************************)
(* With reset "eligible" the clock restarts before the await: two blind    *)
(* dumps are StormLockout apart however their calls interleave, and a      *)
(* storm costs one dump, since every blind event within StormLockout       *)
(* before a blind dump, dumped or not, would have locked it out.           *)
(***************************************************************************)
EligibleLockoutHolds ==
  restarts = 0 /\ config.reset = "eligible" =>
    /\ Apart(BlindTriggered, StormLockout)
    /\ \A e \in BlindTriggered, f \in Event :
         f.blind /\ startAt[f] # Never /\ startAt[f] < startAt[e] =>
           startAt[e] - startAt[f] >= StormLockout

(***************************************************************************)
(* The storm lockout of either kind, as long as the daemon stays up.       *)
(***************************************************************************)
LockoutHolds == SerialLockoutHolds /\ EligibleLockoutHolds

(***************************************************************************)
(* The events a voltage fan-out dumped for, on any endpoint.  The budget   *)
(* is checked and charged at the call's start time, which an intensity     *)
(* request may have made stale by then; it holds while fan-outs do not     *)
(* overlap.                                                                *)
(***************************************************************************)
VoltDumped == {e \in Event : voltOk[e] > 0}

SerialVoltageHolds ==
  ~ voltOverlap /\ restarts = 0 =>
    Apart(VoltDumped, VoltMinSpacing) /\ AtMostPerDay(VoltDumped, VoltDailyMax)

(***************************************************************************)
(* The audit never hides a dump.  A row "triggered" is a dump that was     *)
(* written, with its card; a dump that was written has a row that says the *)
(* command was sent, unless its call is still waiting or died waiting.     *)
(***************************************************************************)
DumpsAudited ==
  \A e \in Event :
    /\ audit[e] = "triggered" <=> card[e] # "none"
    /\ audit[e] = "triggered" => cmd[e] = "executed"
    /\ cmd[e] = "executed" =>
         \/ pc[e] \in {"dumping", "crashed"}
         \/ audit[e] \in {"triggered", "refused_daemon", "failed"}

(***************************************************************************)
(* A dump is requested only of a host that had room recently: here at the  *)
(* moment of the request, elsewhere within the age of a reading plus the   *)
(* time the reading may have travelled.  An unknown state never passes.    *)
(***************************************************************************)
DumpHostHadRoom ==
  [][\A e \in Event :
       cmd[e] = "none" /\ cmd'[e] = "sent" =>
         IF e.host = LocalHost THEN hasRoom[e.host]
         ELSE now - roomAt[e.host] <= DiskStale + PollTimeout]_vars

(***************************************************************************)
(* A call that awaits ends, with its row or with the process, though the   *)
(* ssh of an earlier card may hang for ever: each card is a task of its    *)
(* own.  A card that is held back does not stay so: on this node it is     *)
(* written, fails or dies with the process, and for another node it is at  *)
(* least given to ssh, of which nothing more is promised.                  *)
(***************************************************************************)
EveryCallEnds ==
  \A e \in Event :
    /\ pc[e] = "dumping" ~> audit[e] # "none" \/ pc[e] = "crashed"
    /\ pc[e] = "fanout" ~> voltAudit[e] # "none" \/ pc[e] = "crashed"
    /\ card[e] = "pending" ~> \/ card[e] \in {"ended", "lost"}
                              \/ e.host # LocalHost /\ card[e] = "writing"

(***************************************************************************)
(* docs/operations.md: with reset "triggered" there is at most one blind   *)
(* dump per storm_lockout_s.  Two calls that overlap break it.             *)
(***************************************************************************)
OneBlindDumpPerLockout == Apart(BlindTriggered, StormLockout)

=============================================================================
