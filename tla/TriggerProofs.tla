---------------------------- MODULE TriggerProofs ----------------------------
(***************************************************************************)
(* Theorems about the trigger stage, for every set of events and hosts and *)
(* every value of the budgets, the lockout and the disk ages.              *)
(***************************************************************************)
EXTENDS Trigger, FiniteSetTheorems, TLAPS

USE EventAssumption, ConfigAssumption, DayLenAssumption

\* The day of a time is a natural number.
LEMMA DayType == \A t \in Nat : Day(t) \in Nat
  BY SMT DEF Day

LEMMA RecordType ==
  ASSUME NEW b \in Budget, NEW t \in Nat
  PROVE  Record(b, t) \in Budget
<1>1. Day(t) \in Nat
  BY DayType
<1> QED
  BY <1>1, SMT DEF Record, Budget

LEMMA NewBudgetType == NewBudget \in Budget
  BY SMT DEF NewBudget, Budget

LEMMA NoReadingType == NoReading \in [at : Times, room : BOOLEAN]
  BY SMT DEF NoReading, Times, Never

\* A call that is past its first check has a start time.
StartedHasTime ==
  \A e \in Event : pc[e] \in {"dumping", "fanout"} => startAt[e] \in Nat

TypeInv == TypeOK /\ StartedHasTime

LEMMA AfterIntensityType ==
  ASSUME TypeInv, NEW e \in Event, NEW t \in Nat, AfterIntensity(e, t)
  PROVE  /\ pc' \in [Event -> Labels]
         /\ voltAudit' \in [Event -> {"none", "refused", "triggered", "partial"}]
         /\ voltOverlap' \in BOOLEAN
         /\ pc'[e] \in {"fanout", "done"}
         /\ \A f \in Event \ {e} : pc'[f] = pc[f]
  BY DEF TypeInv, TypeOK, AfterIntensity, Labels, OthersAt

LEMMA TypeInit == Init => TypeInv
<1> SUFFICES ASSUME Init
             PROVE  TypeInv
  OBVIOUS
<1>1. /\ polled \in [Host -> [at : Times, room : BOOLEAN]]
      /\ probe \in [Host -> [at : Times, room : BOOLEAN]]
      /\ hasRoom \in [Host -> BOOLEAN] /\ roomAt \in [Host -> Nat]
  BY NoReadingType DEF Init
<1>2. /\ budget \in Budget /\ voltBudget \in Budget /\ config \in Configs
      /\ lockoutClock \in Times /\ now \in Nat /\ restarts \in Nat
      /\ diskChanges \in Nat /\ overlap \in BOOLEAN /\ voltOverlap \in BOOLEAN
  BY NewBudgetType DEF Init, Times
<1>3. /\ pc \in [Event -> Labels] /\ startAt \in [Event -> Times]
      /\ card \in [Event -> {"none", "pending", "writing", "ended", "lost"}]
      /\ audit \in [Event -> Actions]
      /\ voltAudit \in [Event -> {"none", "refused", "triggered", "partial"}]
      /\ cmd \in [Event -> {"none", "sent", "executed"}]
      /\ voltOk \in [Event -> 0 .. Endpoints]
      /\ StartedHasTime
  BY DEF Init, Labels, Times, Actions, StartedHasTime
<1> QED
  BY <1>1, <1>2, <1>3 DEF TypeInv, TypeOK

\* A card moves on, and nothing else does.
LEMMA CardMoves ==
  ASSUME NEW e \in Event, WriteCard(e) \/ SshEnds(e)
  PROVE  /\ card[e] \in {"pending", "writing"}
         /\ \E to \in {"writing", "ended"} : card' = [card EXCEPT ![e] = to]
         /\ UNCHANGED <<config, pc, startAt, budget, voltBudget, lockoutClock, polled,
                        probe, outside, history>>
  BY DEF WriteCard, SshEnds, CardGoes

LEMMA TypeStep == TypeInv /\ [Next]_vars => TypeInv'
<1> SUFFICES ASSUME TypeInv, [Next]_vars
             PROVE  TypeInv'
  OBVIOUS
<1> USE DEF TypeInv, TypeOK, StartedHasTime
<1>1. ASSUME NEW e \in Event, Suppress(e)
      PROVE  TypeInv'
  BY <1>1 DEF Suppress, Starts, Writes, Labels, Actions, Times
<1>2. ASSUME NEW e \in Event, LockOut(e)
      PROVE  TypeInv'
  BY <1>2 DEF LockOut, Starts, Writes, Labels, Actions, Times, EligibleRestartsClock
<1>3. ASSUME NEW e \in Event, Refuse(e)
      PROVE  TypeInv'
  BY <1>3, AfterIntensityType DEF Refuse, Starts, Writes, Actions, Times, EligibleRestartsClock
<1>4. ASSUME NEW e \in Event, Request(e)
      PROVE  TypeInv'
  BY <1>4 DEF Request, Starts, Labels, Times, EligibleRestartsClock, OthersAt
<1>5. ASSUME NEW e \in Event, DaemonDumps(e) \/ DaemonRefuses(e)
      PROVE  TypeInv'
  BY <1>5 DEF DaemonDumps, DaemonRefuses, process, history
<1>6. ASSUME NEW e \in Event, ReplyOK(e)
      PROVE  TypeInv'
  BY <1>6, AfterIntensityType, RecordType
  DEF ReplyOK, Resumes, Writes, Actions, Times, BudgetAfterDump, ClockAfterDump
<1>7. ASSUME NEW e \in Event, ReplyNotOK(e)
      PROVE  TypeInv'
  BY <1>7, AfterIntensityType DEF ReplyNotOK, Resumes, Writes, Actions
<1>8. ASSUME NEW e \in Event, RequestFails(e)
      PROVE  TypeInv'
  BY <1>8, AfterIntensityType DEF RequestFails, Resumes, Writes, Actions, MayBeUndelivered
<1>9. ASSUME NEW e \in Event, VoltageReplies(e)
      PROVE  TypeInv'
<2>1. PICK ok \in 0 .. Endpoints :
        /\ VoltBudgetAfter(e, ok)
        /\ voltOk' = [voltOk EXCEPT ![e] = ok]
        /\ voltAudit' = [voltAudit EXCEPT ![e] =
                           IF ok = Endpoints THEN "triggered" ELSE "partial"]
  BY <1>9 DEF VoltageReplies
<2>2. startAt[e] \in Nat
  BY <1>9 DEF VoltageReplies
<2>3. voltBudget' \in Budget
  BY <2>1, <2>2, RecordType DEF VoltBudgetAfter
<2>4. /\ voltOk' \in [Event -> 0 .. Endpoints]
      /\ voltAudit' \in [Event -> {"none", "refused", "triggered", "partial"}]
  BY <2>1
<2>5. pc' \in [Event -> Labels] /\ StartedHasTime'
  BY <1>9 DEF VoltageReplies, Labels
<2> QED
  BY <1>9, <2>3, <2>4, <2>5 DEF VoltageReplies
<1>10. ASSUME NEW e \in Event, WriteCard(e) \/ SshEnds(e)
       PROVE  TypeInv'
  BY <1>10, CardMoves DEF outside, history
<1>11. ASSUME NEW h \in Host, Poll(h)
       PROVE  TypeInv'
<2>1. CASE ProbeMeasures(h)
  <3>1. [at |-> now, room |-> hasRoom[h]] \in [at : Times, room : BOOLEAN]
    BY DEF Times
  <3> QED
    BY <2>1, <3>1 DEF ProbeMeasures, outside, history
<2>2. CASE ProbeReturns(h)
  <3>1. [at |-> now, room |-> probe[h].room] \in [at : Times, room : BOOLEAN]
    BY DEF Times
  <3> QED
    BY <2>2, <3>1, NoReadingType DEF ProbeReturns, outside, history
<2>3. CASE ProbeFails(h)
  BY <2>3, NoReadingType DEF ProbeFails, outside, history
<2> QED
  BY <1>11, <2>1, <2>2, <2>3 DEF Poll
<1>12. ASSUME NEW h \in Host, DiskChanges(h)
       PROVE  TypeInv'
  BY <1>12 DEF DiskChanges, process
<1>13. CASE Tick
  BY <1>13 DEF Tick, process
<1>14. CASE Restart
  BY <1>14, NewBudgetType, NoReadingType DEF Restart, outside, Labels, Times
<1>15. CASE UNCHANGED vars
  BY <1>15 DEF vars, process, outside, history
<1> QED
  BY <1>1, <1>2, <1>3, <1>4, <1>5, <1>6, <1>7, <1>8, <1>9, <1>10, <1>11, <1>12,
     <1>13, <1>14, <1>15 DEF Next, Call

(***************************************************************************)
(* Every variable of the trigger stage keeps its type.                     *)
(***************************************************************************)
THEOREM TypeCorrect == Spec => []TypeOK
<1>1. TypeInv => TypeOK
  BY DEF TypeInv
<1> QED
  BY <1>1, TypeInit, TypeStep, PTL DEF Spec
-----------------------------------------------------------------------------
(***************************************************************************)
(* The course of a call, which the other invariants rest on: a call that   *)
(* waits for its dump has no row yet, one with a row has started, and no   *)
(* start lies in the future.  Without dumps_enabled nothing is sent.       *)
(***************************************************************************)
Sent(e) == pc[e] = "dumping" \/ audit[e] = "triggered"

Course ==
  \A e \in Event :
    /\ startAt[e] # Never => startAt[e] <= now
    /\ pc[e] \in {"idle", "dumping"} => audit[e] = "none"
    /\ Sent(e) => startAt[e] \in Nat /\ config.dumps

LEMMA CourseInit == Init => Course
  BY DEF Init, Course, Sent

LEMMA CourseStep == TypeInv /\ Course /\ [Next]_vars => Course'
<1> SUFFICES ASSUME TypeInv, Course, [Next]_vars
             PROVE  Course'
  OBVIOUS
<1> USE DEF TypeInv, TypeOK, StartedHasTime, Course, Sent
<1>1. ASSUME NEW e \in Event, Suppress(e) \/ LockOut(e)
      PROVE  Course'
  BY <1>1 DEF Suppress, LockOut, Starts, Writes
<1>2. ASSUME NEW e \in Event, Refuse(e)
      PROVE  Course'
<2>1. pc'[e] \in {"fanout", "done"} /\ \A f \in Event \ {e} : pc'[f] = pc[f]
  BY <1>2, AfterIntensityType DEF Refuse
<2>2. \A f \in Event : Sent(f)' => f # e /\ Sent(f)
  BY <1>2, <2>1 DEF Refuse, Starts, Writes
<2> QED
  BY <1>2, <2>1, <2>2 DEF Refuse, Starts, Writes
<1>3. ASSUME NEW e \in Event, Request(e)
      PROVE  Course'
  BY <1>3 DEF Request, Starts
<1>4. ASSUME NEW e \in Event, ReplyOK(e) \/ ReplyNotOK(e) \/ RequestFails(e)
      PROVE  Course'
  BY <1>4, AfterIntensityType DEF ReplyOK, ReplyNotOK, RequestFails, Resumes, Writes
<1>5. ASSUME NEW e \in Event, VoltageReplies(e)
      PROVE  Course'
  BY <1>5 DEF VoltageReplies
<1>6. ASSUME NEW e \in Event, DaemonDumps(e) \/ DaemonRefuses(e) \/ WriteCard(e) \/ SshEnds(e)
      PROVE  Course'
  BY <1>6, CardMoves DEF DaemonDumps, DaemonRefuses, process, outside, history
<1>7. ASSUME NEW h \in Host, Poll(h) \/ DiskChanges(h)
      PROVE  Course'
  BY <1>7 DEF Poll, ProbeMeasures, ProbeReturns, ProbeFails, DiskChanges,
              process, outside, history
<1>8. CASE Tick
  BY <1>8 DEF Tick, process, Times, Never
<1>9. CASE Restart
  BY <1>9 DEF Restart, outside
<1>10. CASE UNCHANGED vars
  BY <1>10 DEF vars, process, outside, history
<1> QED
  BY <1>1, <1>2, <1>3, <1>4, <1>5, <1>6, <1>7, <1>8, <1>9, <1>10 DEF Next, Call

-----------------------------------------------------------------------------
(***************************************************************************)
(* Reset "eligible".  The clock is at or after the start of every blind    *)
(* call, because it restarts before the call's first await; so a call that *)
(* is let through starts StormLockout after all the others.                *)
(***************************************************************************)
EligibleApplies ==
  /\ restarts = 0 /\ config.reset = "eligible" /\ config.dumps
  /\ StormLockout > 0

ClockCoversBlind ==
  \A f \in Event : f.blind /\ startAt[f] # Never =>
                     lockoutClock # Never /\ startAt[f] <= lockoutClock

SentAfterAll ==
  \A e, f \in Event :
    e # f /\ e.blind /\ f.blind /\ Sent(e) /\ startAt[f] # Never =>
      /\ startAt[f] < startAt[e] => startAt[e] - startAt[f] >= StormLockout
      /\ Sent(f) => startAt[e] # startAt[f]

EligInv == EligibleApplies => ClockCoversBlind /\ SentAfterAll

LEMMA EligInit == Init => EligInv
  BY DEF Init, EligInv, ClockCoversBlind, SentAfterAll, Sent

\* A step that starts no call and sends nothing keeps the invariant.
LEMMA EligQuiet ==
  ASSUME TypeInv, EligInv, UNCHANGED <<startAt, config>>,
         \A e \in Event : Sent(e)' => Sent(e),
         EligibleApplies' => EligibleApplies /\ UNCHANGED lockoutClock
  PROVE  EligInv'
  BY DEF EligInv, ClockCoversBlind, SentAfterAll

\* Nor does one that starts a call without sending its command.
LEMMA EligUnsent ==
  ASSUME TypeInv, Course, EligInv, NEW e \in Event, Starts(e), ~ Sent(e)',
         \A f \in Event \ {e} : Sent(f)' => Sent(f),
         config.dumps => EligibleRestartsClock(e)
  PROVE  EligInv'
<1> SUFFICES ASSUME EligibleApplies'
             PROVE  ClockCoversBlind' /\ SentAfterAll'
  BY DEF EligInv
<1> USE DEF TypeInv, TypeOK, Course, Times, Never
<1>1. EligibleApplies /\ EligibleRestartsClock(e)
  BY DEF EligibleApplies, Starts
<1>2. ClockCoversBlind /\ SentAfterAll
  BY <1>1 DEF EligInv
<1>3. ClockCoversBlind'
  BY <1>1, <1>2 DEF ClockCoversBlind, Starts, EligibleRestartsClock, LockoutApplies,
                    EligibleApplies
<1>4. SentAfterAll'
  <2> SUFFICES ASSUME NEW g \in Event, NEW f \in Event, g # f, g.blind, f.blind,
                      Sent(g)', startAt'[f] # Never
               PROVE  /\ startAt'[f] < startAt'[g] =>
                           startAt'[g] - startAt'[f] >= StormLockout
                      /\ Sent(f)' => startAt'[g] # startAt'[f]
    BY DEF SentAfterAll
  <2>1. g # e /\ Sent(g) /\ startAt'[g] = startAt[g] /\ startAt[g] <= now
    BY DEF Starts
  <2>2. CASE f = e
    BY <2>1, <2>2 DEF Starts
  <2>3. CASE f # e
    BY <2>1, <2>3, <1>2 DEF SentAfterAll, Starts
  <2> QED
    BY <2>2, <2>3
<1> QED
  BY <1>3, <1>4

\* A command goes out StormLockout after every blind call that ever started.
LEMMA EligSent ==
  ASSUME TypeInv, Course, EligInv, NEW e \in Event, Request(e)
  PROVE  EligInv'
<1> SUFFICES ASSUME EligibleApplies'
             PROVE  ClockCoversBlind' /\ SentAfterAll'
  BY DEF EligInv
<1> USE DEF TypeInv, TypeOK, Course, Times, Never
<1>0. EligibleApplies
  BY DEF EligibleApplies, Request, Starts
<1>1. /\ ClockCoversBlind /\ SentAfterAll
      /\ startAt' = [startAt EXCEPT ![e] = now] /\ now \in Nat
      /\ \A f \in Event \ {e} : Sent(f)' <=> Sent(f)
  BY <1>0 DEF EligInv, Request, Starts, Sent
<1>2. ASSUME NEW f \in Event, f # e, e.blind, f.blind, startAt[f] # Never
      PROVE  now - startAt[f] >= StormLockout
  <2>1. lockoutClock \in Nat /\ startAt[f] \in Nat /\ startAt[f] <= lockoutClock
    BY <1>1, <1>2 DEF ClockCoversBlind
  <2>2. now - lockoutClock >= StormLockout
    BY <1>0, <1>2, <2>1 DEF Request, LockedOut, LockoutApplies, EligibleApplies
  <2> QED
    BY <2>1, <2>2
<1>3. ClockCoversBlind'
  BY <1>1, <1>0 DEF ClockCoversBlind, Request, EligibleRestartsClock, LockoutApplies,
                    EligibleApplies
<1>4. SentAfterAll'
  <2> SUFFICES ASSUME NEW g \in Event, NEW f \in Event, g # f, g.blind, f.blind,
                      Sent(g)', startAt'[f] # Never
               PROVE  /\ startAt'[f] < startAt'[g] =>
                           startAt'[g] - startAt'[f] >= StormLockout
                      /\ Sent(f)' => startAt'[g] # startAt'[f]
    BY DEF SentAfterAll
  <2>1. CASE g = e
    <3>1. startAt'[g] = now /\ startAt'[f] = startAt[f] /\ startAt[f] \in Nat
      BY <2>1, <1>1
    <3>2. now - startAt[f] >= StormLockout /\ StormLockout > 0
      BY <2>1, <3>1, <1>0, <1>2 DEF EligibleApplies
    <3> QED
      BY <3>1, <3>2
  <2>2. CASE f = e
    <3>1. Sent(g) /\ startAt'[g] = startAt[g] /\ startAt'[f] = now
      BY <2>2, <1>1
    <3>2. startAt[g] \in Nat /\ now - startAt[g] >= StormLockout /\ StormLockout > 0
      BY <2>2, <3>1, <1>0, <1>2 DEF EligibleApplies
    <3> QED
      BY <3>1, <3>2
  <2>3. CASE g # e /\ f # e
    BY <2>3, <1>1 DEF SentAfterAll
  <2> QED
    BY <2>1, <2>2, <2>3
<1> QED
  BY <1>3, <1>4

LEMMA EligStep == TypeInv /\ Course /\ EligInv /\ [Next]_vars => EligInv'
<1> SUFFICES ASSUME TypeInv, Course, EligInv, [Next]_vars
             PROVE  EligInv'
  OBVIOUS
<1> USE DEF TypeInv, TypeOK, Course
<1>1. ASSUME NEW e \in Event, Suppress(e) \/ LockOut(e)
      PROVE  EligInv'
  BY <1>1, EligUnsent DEF Suppress, LockOut, Starts, Writes, Sent
<1>2. ASSUME NEW e \in Event, Refuse(e)
      PROVE  EligInv'
  <2>1. pc'[e] \in {"fanout", "done"} /\ \A f \in Event \ {e} : pc'[f] = pc[f]
    BY <1>2, AfterIntensityType DEF Refuse
  <2>2. ~ Sent(e)' /\ \A f \in Event \ {e} : Sent(f)' => Sent(f)
    BY <1>2, <2>1 DEF Refuse, Starts, Writes, Sent
  <2> QED
    BY <1>2, <2>2, EligUnsent DEF Refuse
<1>3. ASSUME NEW e \in Event, Request(e)
      PROVE  EligInv'
  BY <1>3, EligSent
<1>4. ASSUME NEW e \in Event, ReplyOK(e) \/ ReplyNotOK(e) \/ RequestFails(e)
      PROVE  EligInv'
  <2>1. UNCHANGED <<startAt, config, restarts>> /\ pc[e] = "dumping"
    BY <1>4 DEF ReplyOK, ReplyNotOK, RequestFails, Resumes
  <2>2. \A f \in Event : Sent(f)' => Sent(f)
    BY <1>4, <2>1, AfterIntensityType
    DEF ReplyOK, ReplyNotOK, RequestFails, Resumes, Writes, Sent, StartedHasTime
  <2>3. config.reset = "eligible" => UNCHANGED lockoutClock
    BY <1>4 DEF ReplyOK, ReplyNotOK, RequestFails, ClockAfterDump
  <2> QED
    BY <2>1, <2>2, <2>3, EligQuiet DEF EligibleApplies
<1>5. ASSUME NEW e \in Event, VoltageReplies(e)
      PROVE  EligInv'
  <2>1. \A f \in Event : Sent(f)' => Sent(f)
    BY <1>5 DEF VoltageReplies, Sent
  <2> QED
    BY <1>5, <2>1, EligQuiet DEF VoltageReplies, EligibleApplies
<1>6. ASSUME NEW e \in Event, DaemonDumps(e) \/ DaemonRefuses(e) \/ WriteCard(e) \/ SshEnds(e)
      PROVE  EligInv'
  BY <1>6, EligQuiet, CardMoves DEF DaemonDumps, DaemonRefuses, process, outside, history,
                         EligibleApplies, Sent
<1>7. ASSUME NEW h \in Host, Poll(h) \/ DiskChanges(h)
      PROVE  EligInv'
  BY <1>7, EligQuiet DEF Poll, ProbeMeasures, ProbeReturns, ProbeFails, DiskChanges,
              process, outside, history, EligibleApplies, Sent
<1>8. CASE Tick
  BY <1>8, EligQuiet DEF Tick, process, EligibleApplies, Sent
<1>9. CASE Restart
  BY <1>9 DEF Restart, EligInv, EligibleApplies
<1>10. CASE UNCHANGED vars
  BY <1>10, EligQuiet DEF vars, process, outside, history, EligibleApplies, Sent
<1> QED
  BY <1>1, <1>2, <1>3, <1>4, <1>5, <1>6, <1>7, <1>8, <1>9, <1>10 DEF Next, Call

(***************************************************************************)
(* With reset "eligible", blind dumps are StormLockout apart and a storm   *)
(* costs one, for any number of concurrent calls in any interleaving.      *)
(***************************************************************************)
THEOREM EligibleLockoutCorrect == Spec => []EligibleLockoutHolds
<1>1. TypeInv /\ Course /\ EligInv => EligibleLockoutHolds
  <2> SUFFICES ASSUME TypeInv, Course, EligInv, restarts = 0,
                      config.reset = "eligible"
               PROVE  /\ Apart(BlindTriggered, StormLockout)
                      /\ \A e \in BlindTriggered, f \in Event :
                           f.blind /\ startAt[f] # Never /\ startAt[f] < startAt[e] =>
                             startAt[e] - startAt[f] >= StormLockout
    BY DEF EligibleLockoutHolds
  <2>1. \A e \in BlindTriggered : e \in Event /\ e.blind /\ Sent(e)
                                  /\ startAt[e] \in Nat /\ config.dumps
    BY DEF BlindTriggered, Triggered, Course, Sent
  <2>2. CASE StormLockout = 0
    BY <2>1, <2>2 DEF Apart, TypeInv, TypeOK, Times, Never
  <2>3. CASE StormLockout > 0 /\ config.dumps
    <3>1. SentAfterAll
      BY <2>3 DEF EligInv, EligibleApplies
    <3>2. \A e \in BlindTriggered : startAt[e] # Never
      BY <2>1 DEF Never
    <3>3. Apart(BlindTriggered, StormLockout)
      BY <2>1, <3>1, <3>2 DEF Apart, SentAfterAll
    <3> QED
      BY <2>1, <3>1, <3>3 DEF SentAfterAll, TypeInv, TypeOK, Times, Never
  <2>4. CASE ~ config.dumps
    BY <2>1, <2>4 DEF Apart
  <2> QED
    BY <2>2, <2>3, <2>4
<1> QED
  BY <1>1, TypeInit, TypeStep, CourseInit, CourseStep, EligInit, EligStep, PTL DEF Spec
-----------------------------------------------------------------------------
(***************************************************************************)
(* A budget and the dumps that were charged to it                          *)
(***************************************************************************)

\* A later time is never on an earlier day.
LEMMA DayMonotone ==
  ASSUME NEW s \in Nat, NEW t \in Nat, s <= t
  PROVE  Day(s) <= Day(t)
<1>1. /\ Day(s) \in Nat /\ Day(t) \in Nat
      /\ s = DayLen * Day(s) + (s % DayLen) /\ s % DayLen \in 0 .. (DayLen - 1)
      /\ t = DayLen * Day(t) + (t % DayLen) /\ t % DayLen \in 0 .. (DayLen - 1)
  BY DayType, SMT DEF Day
<1>2. ASSUME Day(t) < Day(s)
      PROVE  FALSE
  <2>1. Day(s) >= Day(t) + 1
    BY <1>1, <1>2
  <2>2. DayLen * Day(s) >= DayLen * (Day(t) + 1)
    BY <1>1, <2>1
  <2>3. DayLen * (Day(t) + 1) = DayLen * Day(t) + DayLen
    BY <1>1
  <2> QED
    BY <1>1, <2>2, <2>3
<1> QED
  BY <1>1, <1>2

\* What the fields of budget b say of the dumps S so far: the last of them is
\* the latest, the day is its day, and the counter counts the dumps of that day.
\* With that, the checks that the budget made are about the dumps themselves.
Kept(S, b, spacing, most) ==
  /\ \A e \in S : b.last # Never /\ startAt[e] <= b.last
  /\ b.day = IF b.last = Never THEN Never ELSE Day(b.last)
  /\ b.count = Cardinality(OnDay(S, b.day))
  /\ Apart(S, spacing) /\ AtMostPerDay(S, most)

LEMMA KeptByNone ==
  ASSUME NEW spacing, NEW most
  PROVE  Kept({}, NewBudget, spacing, most)
<1>1. OnDay({}, Never) = {} /\ Cardinality({}) = 0
  BY FS_EmptySet DEF OnDay
<1> QED
  BY <1>1 DEF Kept, NewBudget, Apart, AtMostPerDay

LEMMA OnDayFinite ==
  ASSUME NEW S \in SUBSET Event
  PROVE  \A d : IsFiniteSet(OnDay(S, d))
<1> SUFFICES ASSUME NEW d
             PROVE  IsFiniteSet(OnDay(S, d))
  OBVIOUS
<1>1. OnDay(S, d) \subseteq Event
  BY DEF OnDay
<1> QED
  BY <1>1, FS_Subset, EventAssumption

\* A dump that the budget allows at its start time is charged at that time:
\* it is the latest, and the day's count includes it.
LEMMA Charged ==
  ASSUME startAt \in [Event -> Times], NEW S \in SUBSET Event, NEW b \in Budget,
         NEW spacing \in Nat, NEW most \in Nat \ {0}, Kept(S, b, spacing, most),
         \A f \in S : startAt[f] \in Nat,
         NEW e \in Event, e \notin S, NEW t \in Nat, t = startAt[e],
         ~ Refuses(b, spacing, most, t)
  PROVE  Kept(S \union {e}, Record(b, t), spacing, most)
<1> DEFINE T == S \union {e}
<1>1. /\ Record(b, t).last = t /\ Record(b, t).day = Day(t)
      /\ Record(b, t).count = IF Day(t) = b.day THEN b.count + 1 ELSE 1
  BY DEF Record
<1>2. ASSUME NEW f \in S
      PROVE  /\ startAt[f] \in Nat /\ b.last \in Nat
             /\ startAt[f] <= b.last
             /\ t - startAt[f] >= spacing
             /\ b.last <= t
  <2>1. startAt[f] \in Nat /\ b.last \in Nat /\ startAt[f] <= b.last
    BY DEF Kept, Budget, Never
  <2>2. t - b.last >= spacing
    BY <2>1 DEF Refuses, TooSoon, Never
  <2> QED
    BY <2>1, <2>2
<1>3. Apart(T, spacing)
  <2> SUFFICES ASSUME NEW f \in T, NEW g \in T, f # g
               PROVE  \/ startAt[f] - startAt[g] >= spacing
                      \/ startAt[g] - startAt[f] >= spacing
    BY DEF Apart
  <2>1. CASE f \in S /\ g \in S
    BY <2>1 DEF Kept, Apart
  <2>2. CASE f = e /\ g \in S
    BY <2>2, <1>2
  <2>3. CASE g = e /\ f \in S
    BY <2>3, <1>2
  <2> QED
    BY <2>1, <2>2, <2>3
<1>4. PICK today \in Nat : today = Day(t)
  BY DayType
<1>5. \A d : OnDay(T, d) = IF d = today THEN OnDay(S, d) \union {e} ELSE OnDay(S, d)
  BY <1>4 DEF OnDay
<1>6. \A d : IsFiniteSet(OnDay(S, d)) /\ e \notin OnDay(S, d)
  BY OnDayFinite DEF OnDay
<1>7. /\ Cardinality(OnDay(T, today)) = Record(b, t).count
      /\ Record(b, t).count <= most
  <2>1. Cardinality(OnDay(T, today)) = Cardinality(OnDay(S, today)) + 1
    <3>1. OnDay(T, today) = OnDay(S, today) \union {e}
      BY <1>5
    <3> QED
      BY <3>1, <1>6, FS_AddElement
  <2>2. CASE today = b.day
    <3>1. Cardinality(OnDay(S, today)) = b.count
      BY <2>2 DEF Kept
    <3>2. b.count < most
      BY <2>2, <1>4 DEF Refuses, DayFull, Budget
    <3> QED
      BY <2>1, <2>2, <3>1, <3>2, <1>1, <1>4 DEF Budget
  <2>3. CASE today # b.day
    <3>1. ASSUME NEW f \in S, Day(startAt[f]) = today
          PROVE  FALSE
      <4>1. PICK last \in Nat : last = b.last /\ startAt[f] <= last /\ last <= t
        BY <1>2, <3>1
      <4>2. today <= Day(last) /\ Day(last) <= today /\ Day(last) \in Nat
        BY <1>2, <1>4, <3>1, <4>1, DayMonotone, DayType
      <4>3. b.day = Day(last)
        BY <4>1 DEF Kept, Never
      <4>4. \A i, j \in Nat : i <= j /\ j <= i => i = j
        BY SMT
      <4>5. today = Day(last)
        BY <4>2, <4>4
      <4> QED
        BY <2>3, <4>3, <4>5
    <3>2. OnDay(S, today) = {}
      BY <3>1 DEF OnDay
    <3> QED
      BY <2>1, <2>3, <3>2, <1>1, <1>4, FS_EmptySet
  <2> QED
    BY <2>2, <2>3
<1>8. AtMostPerDay(T, most)
  <2> SUFFICES ASSUME NEW f \in T, NEW d \in Nat, d = Day(startAt[f])
               PROVE  Cardinality(OnDay(T, d)) <= most
    <3>1. \A f \in T : startAt[f] \in Nat /\ Day(startAt[f]) \in Nat
      BY <1>2, DayType
    <3> QED
      BY <3>1 DEF AtMostPerDay
  <2>1. CASE d = today
    BY <2>1, <1>7
  <2>2. CASE d # today
    <3>1. f \in S /\ OnDay(T, d) = OnDay(S, d)
      BY <1>4, <1>5, <2>2
    <3> QED
      BY <3>1 DEF Kept, AtMostPerDay
  <2> QED
    BY <2>1, <2>2
<1>9. \A f \in T : t # Never /\ startAt[f] <= t
  BY <1>2 DEF Never
<1>10. Record(b, t).day = today /\ Record(b, t).last = t
  BY <1>1, <1>4
<1> HIDE DEF T
<1>11. Kept(T, Record(b, t), spacing, most)
  BY <1>3, <1>4, <1>7, <1>8, <1>9, <1>10 DEF Kept, Never
<1> QED
  BY <1>11 DEF T
-----------------------------------------------------------------------------
(***************************************************************************)
(* Requests that do not overlap.  At most one call waits for its dump, the *)
(* budget it was checked against is still the one it will be charged to,   *)
(* and the budget's fields say what the dumps so far were.                 *)
(***************************************************************************)
Serial == ~ overlap /\ restarts = 0

OneWaits == \A e, f \in Event : pc[e] = "dumping" /\ pc[f] = "dumping" => e = f

Allowed(e) == ~ Refuses(budget, MinSpacing, DailyMax, startAt[e])

SerialInv ==
  Serial =>
    /\ OneWaits
    /\ \A e \in Event : pc[e] = "dumping" => Allowed(e)
    /\ Kept(Triggered, budget, MinSpacing, DailyMax)

LEMMA SerialInit == Init => SerialInv
<1> SUFFICES ASSUME Init
             PROVE  SerialInv
  OBVIOUS
<1>1. Triggered = {} /\ budget = NewBudget
  BY DEF Init, Triggered
<1> QED
  BY <1>1, KeptByNone DEF Init, SerialInv, OneWaits

\* A step that charges nothing and writes no "triggered" row.
LEMMA TriggeredKept ==
  ASSUME Kept(Triggered, budget, MinSpacing, DailyMax), UNCHANGED budget,
         Triggered' = Triggered, \A e \in Triggered : startAt'[e] = startAt[e]
  PROVE  Kept(Triggered, budget, MinSpacing, DailyMax)'
<1>1. \A d : OnDay(Triggered, d)' = OnDay(Triggered, d)
  BY DEF OnDay
<1> QED
  BY <1>1 DEF Kept, Apart, AtMostPerDay

\* Nor does it send anything.
LEMMA SerialQuiet ==
  ASSUME TypeInv, Course, SerialInv, UNCHANGED budget,
         Serial' => Serial,
         Triggered' = Triggered,
         \A e \in Event : /\ pc'[e] = "dumping" => pc[e] = "dumping"
                          /\ Sent(e) => startAt'[e] = startAt[e]
  PROVE  SerialInv'
<1> SUFFICES ASSUME Serial'
             PROVE  SerialInv'
  BY DEF SerialInv
<1>1. \A e \in Triggered : startAt'[e] = startAt[e]
  BY DEF Triggered, Sent
<1>2. OneWaits' /\ \A e \in Event : pc'[e] = "dumping" => Allowed(e)'
  BY DEF SerialInv, OneWaits, Allowed, Sent
<1>3. Kept(Triggered, budget, MinSpacing, DailyMax)'
  BY <1>1, TriggeredKept DEF SerialInv
<1> QED
  BY <1>2, <1>3 DEF SerialInv

\* The new call is the only one that waits, and the budget let it through.
LEMMA SerialRequest ==
  ASSUME TypeInv, Course, SerialInv, NEW e \in Event, Request(e)
  PROVE  SerialInv'
<1> SUFFICES ASSUME Serial'
             PROVE  SerialInv'
  BY DEF SerialInv
<1> USE DEF TypeInv, TypeOK, Course, Sent
<1>1. Serial /\ \A f \in Event : pc'[f] = "dumping" => f = e
  BY DEF Request, Starts, Serial, OthersAt
<1>2. UNCHANGED budget /\ Triggered' = Triggered
  BY DEF Request, Starts, Triggered
<1>3. Allowed(e)'
  BY <1>2 DEF Request, Starts, IntensityRefuses, Allowed
<1>4. \A f \in Triggered : startAt'[f] = startAt[f]
  BY DEF Triggered, Request, Starts
<1>5. OneWaits' /\ \A f \in Event : pc'[f] = "dumping" => Allowed(f)'
  BY <1>1, <1>3 DEF OneWaits
<1>6. Kept(Triggered, budget, MinSpacing, DailyMax)'
  BY <1>1, <1>2, <1>4, TriggeredKept DEF SerialInv
<1> QED
  BY <1>5, <1>6 DEF SerialInv

\* The dump is charged, and nobody waits any more.
LEMMA SerialReply ==
  ASSUME TypeInv, Course, SerialInv, NEW e \in Event, ReplyOK(e)
  PROVE  SerialInv'
<1> SUFFICES ASSUME Serial'
             PROVE  SerialInv'
  BY DEF SerialInv
<1> USE DEF TypeInv, TypeOK, Course, Sent
<1>0. PICK t \in Nat : t = startAt[e]
  BY DEF ReplyOK, Resumes, StartedHasTime
<1>1. /\ Serial /\ UNCHANGED startAt /\ pc[e] = "dumping" /\ t = startAt[e]
      /\ budget' = Record(budget, t)
      /\ Triggered' = Triggered \union {e} /\ e \notin Triggered
  BY <1>0 DEF ReplyOK, Resumes, Serial, Triggered, Writes, BudgetAfterDump
<1>2. /\ OneWaits /\ ~ Refuses(budget, MinSpacing, DailyMax, t)
      /\ Kept(Triggered, budget, MinSpacing, DailyMax)
  BY <1>1 DEF SerialInv, Allowed
<1>3. \A f \in Event : pc'[f] # "dumping"
  <2>1. pc'[e] # "dumping" /\ \A f \in Event \ {e} : pc'[f] = pc[f]
    BY <1>1, AfterIntensityType DEF ReplyOK, Resumes
  <2>2. \A f \in Event \ {e} : pc[f] # "dumping"
    <3> SUFFICES ASSUME NEW f \in Event, f # e, pc[f] = "dumping"
                 PROVE  FALSE
      OBVIOUS
    <3> QED
      BY <1>1, <1>2 DEF OneWaits
  <2> QED
    BY <2>1, <2>2
<1>4. /\ Triggered \in SUBSET Event /\ \A f \in Triggered : startAt[f] \in Nat
      /\ budget \in Budget /\ startAt \in [Event -> Times]
  BY DEF Triggered
<1>5. Kept(Triggered \union {e}, Record(budget, t), MinSpacing, DailyMax)
  <2> HIDE DEF TypeInv, TypeOK, Course, Sent
  <2> QED
    BY <1>1, <1>2, <1>4, Charged, ConfigAssumption
<1>6. Kept(Triggered, budget, MinSpacing, DailyMax)'
  <2> HIDE DEF TypeInv, TypeOK, Course, Sent
  <2>1. PICK S, b : S = Triggered \union {e} /\ b = Record(budget, t)
    OBVIOUS
  <2>2. Triggered' = S /\ budget' = b /\ startAt' = startAt /\ Kept(S, b, MinSpacing, DailyMax)
    BY <1>1, <1>5, <2>1
  <2>3. \A d : OnDay(Triggered, d)' = OnDay(S, d)
    BY <2>2 DEF OnDay
  <2> QED
    BY <2>2, <2>3 DEF Kept, Apart, AtMostPerDay
<1> QED
  BY <1>3, <1>6 DEF SerialInv, OneWaits

LEMMA SerialStep == TypeInv /\ Course /\ SerialInv /\ [Next]_vars => SerialInv'
<1> SUFFICES ASSUME TypeInv, Course, SerialInv, [Next]_vars
             PROVE  SerialInv'
  OBVIOUS
<1> USE DEF TypeInv, TypeOK, Course
<1>1. ASSUME NEW e \in Event, Suppress(e) \/ LockOut(e)
      PROVE  SerialInv'
  BY <1>1, SerialQuiet DEF Suppress, LockOut, Starts, Writes, Sent, Triggered, Serial
<1>2. ASSUME NEW e \in Event, Refuse(e)
      PROVE  SerialInv'
  <2>1. pc'[e] \in {"fanout", "done"} /\ \A f \in Event \ {e} : pc'[f] = pc[f]
    BY <1>2, AfterIntensityType DEF Refuse
  <2> QED
    BY <1>2, <2>1, SerialQuiet DEF Refuse, Starts, Writes, Sent, Triggered, Serial
<1>3. ASSUME NEW e \in Event, Request(e)
      PROVE  SerialInv'
  BY <1>3, SerialRequest
<1>4. ASSUME NEW e \in Event, ReplyOK(e)
      PROVE  SerialInv'
  BY <1>4, SerialReply
<1>5. ASSUME NEW e \in Event, ReplyNotOK(e) \/ RequestFails(e)
      PROVE  SerialInv'
  <2>1. pc'[e] \in {"fanout", "done"} /\ \A f \in Event \ {e} : pc'[f] = pc[f]
    BY <1>5, AfterIntensityType DEF ReplyNotOK, RequestFails, Resumes, StartedHasTime
  <2>2. /\ pc[e] = "dumping" /\ UNCHANGED <<startAt, budget, overlap, restarts>>
        /\ audit' = [audit EXCEPT ![e] = audit'[e]] /\ audit'[e] # "triggered"
    BY <1>5 DEF ReplyNotOK, RequestFails, Resumes, Writes
  <2>3. Triggered' = Triggered
    BY <2>2 DEF Triggered
  <2> QED
    BY <2>1, <2>2, <2>3, SerialQuiet DEF Serial
<1>6. ASSUME NEW e \in Event, VoltageReplies(e)
      PROVE  SerialInv'
  BY <1>6, SerialQuiet DEF VoltageReplies, Triggered, Serial
<1>7. ASSUME NEW e \in Event, DaemonDumps(e) \/ DaemonRefuses(e) \/ WriteCard(e) \/ SshEnds(e)
      PROVE  SerialInv'
  BY <1>7, SerialQuiet, CardMoves DEF DaemonDumps, DaemonRefuses, process, outside,
                           history, Triggered, Serial
<1>8. ASSUME NEW h \in Host, Poll(h) \/ DiskChanges(h)
      PROVE  SerialInv'
  BY <1>8, SerialQuiet DEF Poll, ProbeMeasures, ProbeReturns, ProbeFails, DiskChanges,
                           process, outside, history, Triggered, Serial
<1>9. CASE Tick
  BY <1>9, SerialQuiet DEF Tick, process, Triggered, Serial
<1>10. CASE Restart
  BY <1>10 DEF Restart, SerialInv, Serial
<1>11. CASE UNCHANGED vars
  BY <1>11, SerialQuiet DEF vars, process, outside, history, Triggered, Serial
<1> QED
  BY <1>1, <1>2, <1>3, <1>4, <1>5, <1>6, <1>7, <1>8, <1>9, <1>10, <1>11 DEF Next, Call

(***************************************************************************)
(* While requests do not overlap, the dumps of one run of the daemon keep  *)
(* the minimum spacing and the daily maximum.                              *)
(***************************************************************************)
THEOREM SerialBudgetCorrect == Spec => []SerialBudgetHolds
<1>1. SerialInv => SerialBudgetHolds
  BY DEF SerialInv, Serial, SerialBudgetHolds, Kept
<1> QED
  BY <1>1, TypeInit, TypeStep, CourseInit, CourseStep, SerialInit, SerialStep, PTL DEF Spec
-----------------------------------------------------------------------------
(***************************************************************************)
(* Fan-outs that do not overlap.  The voltage budget is asked about the    *)
(* start of a call whose intensity request may have outlasted later calls: *)
(* a start before the last voltage dump is too soon after it, whatever the *)
(* spacing, so that dumps are charged in the order of their starts.        *)
(***************************************************************************)
VoltSerial == ~ voltOverlap /\ restarts = 0

\* A call has not dumped voltages before its fan-out is over.
VoltCourse ==
  \A e \in VoltDumped : startAt[e] \in Nat /\ pc[e] \notin {"idle", "dumping", "fanout"}

OneFans == \A e, f \in Event : pc[e] = "fanout" /\ pc[f] = "fanout" => e = f

VoltAllowed(e) == ~ Refuses(voltBudget, VoltMinSpacing, VoltDailyMax, startAt[e])

VoltInv ==
  /\ VoltCourse
  /\ VoltSerial =>
       /\ OneFans
       /\ \A e \in Event : pc[e] = "fanout" => VoltAllowed(e)
       /\ Kept(VoltDumped, voltBudget, VoltMinSpacing, VoltDailyMax)

LEMMA VoltInit == Init => VoltInv
<1> SUFFICES ASSUME Init
             PROVE  VoltInv
  OBVIOUS
<1>1. VoltDumped = {} /\ voltBudget = NewBudget
  BY DEF Init, VoltDumped
<1> QED
  BY <1>1, KeptByNone DEF Init, VoltInv, VoltCourse, OneFans

\* A step that charges nothing: of the calls that fan out after it, each did
\* so before or is new, allowed and alone.
LEMMA VoltQuiet ==
  ASSUME TypeInv, VoltInv, UNCHANGED voltBudget, VoltDumped' = VoltDumped,
         \A e \in VoltDumped : startAt'[e] = startAt[e]
                               /\ pc'[e] \notin {"idle", "dumping", "fanout"},
         VoltSerial' => VoltSerial,
         VoltSerial' => OneFans' /\ \A e \in Event : pc'[e] = "fanout" => VoltAllowed(e)'
  PROVE  VoltInv'
<1>1. VoltCourse'
  BY DEF VoltInv, VoltCourse
<1>2. ASSUME VoltSerial'
      PROVE  Kept(VoltDumped, voltBudget, VoltMinSpacing, VoltDailyMax)'
  <2>1. Kept(VoltDumped, voltBudget, VoltMinSpacing, VoltDailyMax)
    BY <1>2 DEF VoltInv
  <2>2. \A d : OnDay(VoltDumped, d)' = OnDay(VoltDumped, d)
    BY DEF OnDay
  <2> QED
    BY <2>1, <2>2 DEF Kept, Apart, AtMostPerDay
<1> QED
  BY <1>1, <1>2 DEF VoltInv

\* The intensity part of a call that started at t is decided.
LEMMA VoltDecided ==
  ASSUME TypeInv, VoltInv, NEW e \in Event, pc[e] \in {"idle", "dumping"},
         NEW t \in Nat, AfterIntensity(e, t), startAt'[e] = t,
         \A f \in Event \ {e} : startAt'[f] = startAt[f],
         UNCHANGED <<voltBudget, voltOk, restarts>>
  PROVE  VoltInv'
<1>1. /\ pc' \in [Event -> Labels] /\ pc'[e] \in {"fanout", "done"}
      /\ \A f \in Event \ {e} : pc'[f] = pc[f]
  BY AfterIntensityType
<1>2. /\ VoltDumped' = VoltDumped /\ e \notin VoltDumped
      /\ VoltDumped \subseteq Event \ {e}
  BY DEF VoltDumped, VoltInv, VoltCourse
<1>3. /\ pc'[e] = "fanout" => ~ Refuses(voltBudget, VoltMinSpacing, VoltDailyMax, t)
      /\ pc'[e] = "fanout" /\ ~ voltOverlap' => ~ OthersAt(e, "fanout")
      /\ ~ voltOverlap' => ~ voltOverlap
  <2> DEFINE refused == VoltageWanted(e)
                        /\ Refuses(voltBudget, VoltMinSpacing, VoltDailyMax, t)
             fans == VoltageWanted(e) /\ ~ refused
  <2>1. /\ pc' = [pc EXCEPT ![e] = IF fans THEN "fanout" ELSE "done"]
        /\ voltOverlap' = (voltOverlap \/ (fans /\ OthersAt(e, "fanout")))
    BY DEF AfterIntensity
  <2>2. pc'[e] = "fanout" => fans
    BY <2>1 DEF TypeInv, TypeOK
  <2>3. fans => ~ Refuses(voltBudget, VoltMinSpacing, VoltDailyMax, t)
    OBVIOUS
  <2> HIDE DEF fans
  <2>4. /\ fans /\ ~ voltOverlap' => ~ OthersAt(e, "fanout")
        /\ ~ voltOverlap' => ~ voltOverlap
    BY <2>1, Zenon
  <2> QED
    BY <2>2, <2>3, <2>4
<1>4. VoltSerial' => VoltSerial
  BY <1>3 DEF VoltSerial
<1>5. ASSUME VoltSerial'
      PROVE  OneFans' /\ \A f \in Event : pc'[f] = "fanout" => VoltAllowed(f)'
  <2>1. ~ voltOverlap' /\ VoltSerial
    BY <1>4, <1>5 DEF VoltSerial
  <2>2. OneFans /\ \A f \in Event : pc[f] = "fanout" => VoltAllowed(f)
    BY <2>1 DEF VoltInv
  <2>3. CASE pc'[e] # "fanout"
    BY <1>1, <2>2, <2>3 DEF OneFans, VoltAllowed
  <2>4. CASE pc'[e] = "fanout"
    <3>1. \A f \in Event \ {e} : pc'[f] # "fanout"
      BY <1>1, <1>3, <2>1, <2>4 DEF OthersAt
    <3>2. VoltAllowed(e)'
      BY <1>3, <2>4 DEF VoltAllowed
    <3> QED
      BY <3>1, <3>2 DEF OneFans
  <2> QED
    BY <2>3, <2>4
<1>6. \A f \in VoltDumped : startAt'[f] = startAt[f]
                            /\ pc'[f] \notin {"idle", "dumping", "fanout"}
  BY <1>1, <1>2 DEF VoltInv, VoltCourse
<1> QED
  BY <1>2, <1>4, <1>5, <1>6, VoltQuiet

\* A step that leaves the fan-outs alone.
LEMMA VoltIdle ==
  ASSUME TypeInv, VoltInv, UNCHANGED <<voltBudget, voltOk, voltOverlap, restarts>>,
         \A e \in Event : /\ pc[e] # "idle" => startAt'[e] = startAt[e]
                          /\ pc[e] = "fanout" <=> pc'[e] = "fanout"
                          /\ pc[e] \notin {"idle", "dumping"} => pc'[e] = pc[e]
  PROVE  VoltInv'
<1>1. VoltDumped' = VoltDumped /\ VoltDumped \subseteq Event
  BY DEF VoltDumped
<1>2. \A f \in VoltDumped : startAt'[f] = startAt[f]
                            /\ pc'[f] \notin {"idle", "dumping", "fanout"}
  BY <1>1 DEF VoltInv, VoltCourse
<1>3. VoltSerial' => VoltSerial
  BY DEF VoltSerial
<1>4. VoltSerial' => OneFans' /\ \A f \in Event : pc'[f] = "fanout" => VoltAllowed(f)'
  BY <1>3 DEF VoltInv, OneFans, VoltAllowed
<1> QED
  BY <1>1, <1>2, <1>3, <1>4, VoltQuiet

\* The fan-out is over, and is charged if any endpoint dumped.
LEMMA VoltReply ==
  ASSUME TypeInv, VoltInv, NEW e \in Event, VoltageReplies(e)
  PROVE  VoltInv'
<1>0. PICK t \in Nat : t = startAt[e]
  BY DEF VoltageReplies, TypeInv, StartedHasTime
<1>1. PICK ok \in 0 .. Endpoints :
        /\ voltBudget' = IF ok > 0 THEN Record(voltBudget, t) ELSE voltBudget
        /\ voltOk' = [voltOk EXCEPT ![e] = ok]
  BY <1>0 DEF VoltageReplies, VoltBudgetAfter
<1>2. /\ pc[e] = "fanout" /\ pc' = [pc EXCEPT ![e] = "done"]
      /\ UNCHANGED <<startAt, voltOverlap, restarts>>
  BY DEF VoltageReplies
<1>3. /\ pc'[e] = "done" /\ \A f \in Event \ {e} : pc'[f] = pc[f]
      /\ voltOk'[e] = ok /\ \A f \in Event \ {e} : voltOk'[f] = voltOk[f]
  BY <1>1, <1>2 DEF TypeInv, TypeOK
<1>4. e \notin VoltDumped /\ VoltDumped \subseteq Event
  BY <1>2 DEF VoltInv, VoltCourse, VoltDumped
<1>5. VoltSerial' => VoltSerial
  BY <1>2 DEF VoltSerial
<1>6. ASSUME VoltSerial'
      PROVE  \A f \in Event : pc'[f] # "fanout"
  BY <1>2, <1>3, <1>5, <1>6 DEF VoltInv, OneFans
<1>7. \A f \in VoltDumped : startAt'[f] = startAt[f] /\ startAt[f] \in Nat
                            /\ pc'[f] \notin {"idle", "dumping", "fanout"}
  BY <1>2, <1>3, <1>4 DEF VoltInv, VoltCourse
<1>8. CASE ok = 0
  <2>1. VoltDumped' = VoltDumped
    BY <1>3, <1>4, <1>8 DEF VoltDumped
  <2>2. UNCHANGED voltBudget
    BY <1>1, <1>8
  <2>3. VoltSerial' => OneFans' /\ \A f \in Event : pc'[f] = "fanout" => VoltAllowed(f)'
    BY <1>6 DEF OneFans
  <2> QED
    BY <1>5, <1>7, <2>1, <2>2, <2>3, VoltQuiet
<1>9. CASE ok > 0
  <2>1. VoltDumped' = VoltDumped \union {e}
    BY <1>3, <1>9 DEF VoltDumped
  <2>2. VoltCourse'
    BY <1>0, <1>2, <1>3, <1>7, <2>1 DEF VoltCourse
  <2>3. ASSUME VoltSerial'
        PROVE  Kept(VoltDumped, voltBudget, VoltMinSpacing, VoltDailyMax)'
    <3>1. /\ ~ Refuses(voltBudget, VoltMinSpacing, VoltDailyMax, t)
          /\ Kept(VoltDumped, voltBudget, VoltMinSpacing, VoltDailyMax)
      BY <1>0, <1>2, <1>5, <2>3 DEF VoltInv, VoltAllowed
    <3>2. VoltDumped \in SUBSET Event /\ \A f \in VoltDumped : startAt[f] \in Nat
      BY <1>4, <1>7
    <3>3. voltBudget \in Budget /\ startAt \in [Event -> Times]
      BY DEF TypeInv, TypeOK
    <3>4. Kept(VoltDumped \union {e}, Record(voltBudget, t), VoltMinSpacing, VoltDailyMax)
      BY <1>0, <1>4, <3>1, <3>2, <3>3, Charged, ConfigAssumption
    <3>5. PICK S, b : S = VoltDumped \union {e} /\ b = Record(voltBudget, t)
      OBVIOUS
    <3>6. /\ VoltDumped' = S /\ voltBudget' = b /\ startAt' = startAt
          /\ Kept(S, b, VoltMinSpacing, VoltDailyMax)
      BY <1>1, <1>2, <1>9, <2>1, <3>4, <3>5
    <3>7. \A d : OnDay(VoltDumped, d)' = OnDay(S, d)
      BY <3>6 DEF OnDay
    <3> QED
      BY <3>6, <3>7 DEF Kept, Apart, AtMostPerDay
  <2> QED
    BY <1>6, <2>2, <2>3 DEF VoltInv, OneFans
<1> QED
  BY <1>8, <1>9

LEMMA VoltStep == TypeInv /\ VoltInv /\ [Next]_vars => VoltInv'
<1> SUFFICES ASSUME TypeInv, VoltInv, [Next]_vars
             PROVE  VoltInv'
  OBVIOUS
<1>1. ASSUME NEW e \in Event, Suppress(e) \/ LockOut(e) \/ Request(e)
      PROVE  VoltInv'
  <2>1. /\ pc[e] = "idle" /\ startAt' = [startAt EXCEPT ![e] = now]
        /\ \/ pc' = [pc EXCEPT ![e] = "done"]
           \/ pc' = [pc EXCEPT ![e] = "dumping"]
        /\ UNCHANGED <<voltBudget, voltOk, voltOverlap, restarts>>
    BY <1>1 DEF Suppress, LockOut, Request, Starts
  <2> QED
    BY <2>1, VoltIdle DEF TypeInv, TypeOK
<1>2. ASSUME NEW e \in Event, Refuse(e)
      PROVE  VoltInv'
  <2>1. /\ pc[e] = "idle" /\ startAt' = [startAt EXCEPT ![e] = now]
        /\ AfterIntensity(e, now) /\ UNCHANGED <<voltBudget, voltOk, restarts>>
    BY <1>2 DEF Refuse, Starts
  <2>2. /\ now \in Nat /\ startAt'[e] = now
        /\ \A f \in Event \ {e} : startAt'[f] = startAt[f]
    BY <2>1 DEF TypeInv, TypeOK
  <2> QED
    BY <2>1, <2>2, VoltDecided
<1>3. ASSUME NEW e \in Event, ReplyOK(e) \/ ReplyNotOK(e) \/ RequestFails(e)
      PROVE  VoltInv'
  <2>1. Resumes(e)
    BY <1>3 DEF ReplyOK, ReplyNotOK, RequestFails
  <2>2. /\ pc[e] = "dumping" /\ startAt' = startAt /\ AfterIntensity(e, startAt[e])
        /\ UNCHANGED <<voltBudget, voltOk, restarts>>
    BY <2>1 DEF Resumes
  <2>3. startAt[e] \in Nat
    BY <2>2 DEF TypeInv, StartedHasTime
  <2> QED
    BY <2>2, <2>3, VoltDecided
<1>4. ASSUME NEW e \in Event, VoltageReplies(e)
      PROVE  VoltInv'
  BY <1>4, VoltReply
<1>5. ASSUME UNCHANGED <<pc, startAt, voltBudget, voltOk, voltOverlap, restarts>>
      PROVE  VoltInv'
  BY <1>5, VoltIdle
<1>6. ASSUME NEW e \in Event, DaemonDumps(e) \/ DaemonRefuses(e) \/ WriteCard(e) \/ SshEnds(e)
      PROVE  UNCHANGED <<pc, startAt, voltBudget, voltOk, voltOverlap, restarts>>
  BY <1>6, CardMoves DEF DaemonDumps, DaemonRefuses, process, outside, history
<1>7. ASSUME NEW h \in Host, Poll(h) \/ DiskChanges(h)
      PROVE  UNCHANGED <<pc, startAt, voltBudget, voltOk, voltOverlap, restarts>>
  BY <1>7 DEF Poll, ProbeMeasures, ProbeReturns, ProbeFails, DiskChanges, process, outside,
              history
<1>8. ASSUME Tick \/ UNCHANGED vars
      PROVE  UNCHANGED <<pc, startAt, voltBudget, voltOk, voltOverlap, restarts>>
  BY <1>8 DEF Tick, vars, process, outside, history
<1>9. CASE Restart
  <2>1. restarts' # 0 /\ UNCHANGED <<startAt, voltOk>>
    BY <1>9 DEF Restart, TypeInv, TypeOK
  <2>2. \A e \in Event : pc'[e] = pc[e] \/ pc'[e] = "crashed"
    BY <1>9 DEF Restart
  <2> QED
    BY <2>1, <2>2 DEF VoltInv, VoltCourse, VoltDumped, VoltSerial
<1> QED
  BY <1>1, <1>2, <1>3, <1>4, <1>5, <1>6, <1>7, <1>8, <1>9 DEF Next, Call

(***************************************************************************)
(* While fan-outs do not overlap, the voltage dumps of one run of the      *)
(* daemon keep their minimum spacing and their daily maximum, by the start *)
(* times of their calls and although calls reach their fan-outs in any     *)
(* order.                                                                  *)
(***************************************************************************)
THEOREM SerialVoltageCorrect == Spec => []SerialVoltageHolds
<1>1. VoltInv => SerialVoltageHolds
  BY DEF VoltInv, VoltSerial, SerialVoltageHolds, Kept
<1> QED
  BY <1>1, TypeInit, TypeStep, VoltInit, VoltStep, PTL DEF Spec
-----------------------------------------------------------------------------
(***************************************************************************)
(* Where readings of free space stand.  roomAt is the last time a host was *)
(* above the floor; a good reading is no later than that when it is taken, *)
(* and at most PollTimeout older than its time stamp when it is cached.    *)
(***************************************************************************)
RoomInv ==
  \A h \in Host :
    /\ hasRoom[h] => roomAt[h] = now
    /\ roomAt[h] <= now
    /\ probe[h].room => probe[h].at <= roomAt[h]
    /\ polled[h].room => polled[h].at <= roomAt[h] + PollTimeout

LEMMA RoomInit == Init => RoomInv
  BY DEF Init, RoomInv, NoReading

LEMMA RoomStep == TypeInv /\ RoomInv /\ [Next]_vars => RoomInv'
<1> SUFFICES ASSUME TypeInv, RoomInv, [Next]_vars
             PROVE  RoomInv'
  OBVIOUS
<1> USE DEF TypeInv, TypeOK, RoomInv
<1>1. ASSUME NEW e \in Event, Call(e) \/ DaemonDumps(e) \/ DaemonRefuses(e) \/ WriteCard(e) \/ SshEnds(e)
      PROVE  UNCHANGED <<now, hasRoom, roomAt, probe, polled>>
  BY <1>1 DEF Call, Suppress, LockOut, Refuse, Request, Starts, ReplyOK, ReplyNotOK,
              RequestFails, Resumes, VoltageReplies, DaemonDumps, DaemonRefuses,
              WriteCard, SshEnds, CardGoes, process, outside, history
<1>2. ASSUME NEW h \in Host, ProbeMeasures(h)
      PROVE  RoomInv'
  BY <1>2 DEF ProbeMeasures, outside, history
<1>3. ASSUME NEW h \in Host, ProbeReturns(h)
      PROVE  RoomInv'
  <2>1. now - probe[h].at <= PollTimeout
    BY <1>3 DEF ProbeReturns, InTime
  <2>2. probe[h].at \in Int /\ now \in Int /\ roomAt[h] \in Int
    BY DEF Times, Never
  <2>3. probe[h].room => now <= roomAt[h] + PollTimeout
    BY <2>1, <2>2
  <2> QED
    BY <1>3, <2>3 DEF ProbeReturns, NoReading, outside, history
<1>4. ASSUME NEW h \in Host, ProbeFails(h)
      PROVE  RoomInv'
  BY <1>4 DEF ProbeFails, NoReading, outside, history
<1>5. ASSUME NEW h \in Host, DiskChanges(h)
      PROVE  RoomInv'
  <2>1. \A g \in Host : roomAt'[g] >= roomAt[g] /\ roomAt'[g] \in Nat
    BY <1>5 DEF DiskChanges
  <2>2. \A g \in Host : (probe[g].at \in Int) /\ (polled[g].at \in Int)
    BY DEF Times, Never
  <2> QED
    BY <1>5, <2>1, <2>2 DEF DiskChanges, process
<1>6. CASE Tick
  <2>1. \A g \in Host : roomAt'[g] >= roomAt[g] /\ roomAt'[g] \in Nat
    BY <1>6 DEF Tick
  <2>2. \A g \in Host : (probe[g].at \in Int) /\ (polled[g].at \in Int)
    BY DEF Times, Never
  <2> QED
    BY <1>6, <2>1, <2>2 DEF Tick, process
<1>7. CASE Restart
  BY <1>7 DEF Restart, NoReading, outside
<1>8. CASE UNCHANGED vars
  BY <1>8 DEF vars, process, outside, history
<1> QED
  BY <1>1, <1>2, <1>3, <1>4, <1>5, <1>6, <1>7, <1>8 DEF Next, Poll

(***************************************************************************)
(* A dump is only requested of a host that had room recently.              *)
(***************************************************************************)
THEOREM DumpHostCorrect == Spec => DumpHostHadRoom
<1>1. ASSUME TypeInv, RoomInv, Next, NEW e \in Event, cmd[e] = "none", cmd'[e] = "sent"
      PROVE  IF e.host = LocalHost THEN hasRoom[e.host]
             ELSE now - roomAt[e.host] <= DiskStale + PollTimeout
  <2>1. Request(e)
    <3>1. ASSUME NEW f \in Event, WriteCard(f) \/ SshEnds(f)
          PROVE  cmd' = cmd
      BY <3>1, CardMoves DEF outside
    <3>2. ASSUME NEW f \in Event, DaemonDumps(f) \/ DaemonRefuses(f)
          PROVE  cmd'[e] # "sent"
      BY <1>1, <3>2 DEF DaemonDumps, DaemonRefuses, TypeInv, TypeOK
    <3>3. ASSUME NEW f \in Event, Call(f), ~ Request(e)
          PROVE  cmd'[e] # "sent"
      BY <1>1, <3>3 DEF Call, Suppress, LockOut, Refuse, Request, Starts, ReplyOK, ReplyNotOK,
                  RequestFails, Resumes, MayBeUndelivered, VoltageReplies, TypeInv, TypeOK
    <3>4. (\E h \in Host : Poll(h) \/ DiskChanges(h)) \/ Tick \/ Restart => cmd' = cmd
      BY DEF Poll, ProbeMeasures, ProbeReturns, ProbeFails, DiskChanges, Tick, Restart, outside
    <3> QED
      BY <1>1, <3>1, <3>2, <3>3, <3>4 DEF Next
  <2>2. ~ DiskRefuses(e.host) /\ e.host \in Host
    BY <2>1 DEF Request, IntensityRefuses
  <2>3. CASE e.host = LocalHost
    BY <2>2, <2>3 DEF DiskRefuses
  <2>4. CASE e.host # LocalHost
    <3>1. /\ polled[e.host].room /\ polled[e.host].at \in Int
          /\ now - polled[e.host].at <= DiskStale /\ roomAt[e.host] \in Int
          /\ now \in Int
      BY <1>1, <2>2, <2>4 DEF DiskRefuses, TypeInv, TypeOK, Times, Never
    <3>2. polled[e.host].at <= roomAt[e.host] + PollTimeout
      BY <1>1, <2>2, <3>1 DEF RoomInv
    <3> QED
      BY <2>4, <3>1, <3>2
  <2> QED
    BY <2>3, <2>4
<1> DEFINE HadRoom ==
      \A e \in Event : cmd[e] = "none" /\ cmd'[e] = "sent" =>
        IF e.host = LocalHost THEN hasRoom[e.host]
        ELSE now - roomAt[e.host] <= DiskStale + PollTimeout
<1>2. TypeInv /\ RoomInv /\ [Next]_vars => [HadRoom]_vars
  BY <1>1
<1>3. Spec => [][HadRoom]_vars
  <2> HIDE DEF HadRoom
  <2> QED
    BY <1>2, TypeInit, TypeStep, RoomInit, RoomStep, PTL DEF Spec
<1> QED
  BY <1>3 DEF DumpHostHadRoom
-----------------------------------------------------------------------------
(***************************************************************************)
(* A card is there exactly for a dump the audit table calls triggered, and *)
(* a command is out only for a call that was let through.                  *)
(***************************************************************************)
AuditInv ==
  \A e \in Event :
    /\ pc[e] \in {"idle", "dumping"} => audit[e] = "none" /\ card[e] = "none"
    /\ pc[e] = "idle" => cmd[e] = "none"
    /\ audit[e] = "triggered" <=> card[e] # "none"
    /\ audit[e] = "triggered" => cmd[e] = "executed"
    /\ cmd[e] # "none" =>
         \/ pc[e] \in {"dumping", "crashed"}
         \/ audit[e] \in {"triggered", "refused_daemon", "failed"}

LEMMA AuditInit == Init => AuditInv
  BY DEF Init, AuditInv

LEMMA AuditStep == TypeInv /\ AuditInv /\ [Next]_vars => AuditInv'
<1> SUFFICES ASSUME TypeInv, AuditInv, [Next]_vars
             PROVE  AuditInv'
  OBVIOUS
<1> USE DEF TypeInv, TypeOK, AuditInv
<1>1. ASSUME NEW e \in Event, Suppress(e) \/ LockOut(e) \/ Request(e)
      PROVE  AuditInv'
  <2>1. CASE Suppress(e)
    BY <2>1 DEF Suppress, Starts, Writes
  <2>2. CASE LockOut(e)
    BY <2>2 DEF LockOut, Starts, Writes
  <2>3. CASE Request(e)
    BY <2>3 DEF Request, Starts
  <2> QED
    BY <1>1, <2>1, <2>2, <2>3
<1>2. ASSUME NEW e \in Event, Refuse(e)
      PROVE  AuditInv'
  <2>1. pc'[e] \in {"fanout", "done"} /\ \A f \in Event \ {e} : pc'[f] = pc[f]
    BY <1>2, AfterIntensityType DEF Refuse
  <2> QED
    BY <1>2, <2>1 DEF Refuse, Starts, Writes
<1>3. ASSUME NEW e \in Event, ReplyOK(e) \/ ReplyNotOK(e) \/ RequestFails(e)
      PROVE  AuditInv'
  <2>1. /\ pc'[e] \in {"fanout", "done"} /\ \A f \in Event \ {e} : pc'[f] = pc[f]
        /\ pc[e] = "dumping"
    BY <1>3, AfterIntensityType DEF ReplyOK, ReplyNotOK, RequestFails, Resumes, StartedHasTime
  <2>2. \A f \in Event : cmd'[f] = cmd[f] \/ (f = e /\ RequestFails(e) /\ cmd'[f] = "none")
    BY <1>3 DEF ReplyOK, ReplyNotOK, RequestFails, MayBeUndelivered
  <2>3. CASE ReplyOK(e)
    BY <2>1, <2>3 DEF ReplyOK, Writes
  <2>4. CASE ReplyNotOK(e) \/ RequestFails(e)
    BY <2>1, <2>2, <2>4 DEF ReplyNotOK, RequestFails, Writes
  <2> QED
    BY <1>3, <2>3, <2>4
<1>4. ASSUME NEW e \in Event, VoltageReplies(e)
      PROVE  AuditInv'
  BY <1>4 DEF VoltageReplies
<1>5. ASSUME NEW e \in Event, DaemonDumps(e) \/ DaemonRefuses(e) \/ WriteCard(e) \/ SshEnds(e)
      PROVE  AuditInv'
  <2>1. CASE WriteCard(e) \/ SshEnds(e)
    BY <2>1, CardMoves DEF outside
  <2>2. CASE DaemonDumps(e) \/ DaemonRefuses(e)
    BY <2>2 DEF DaemonDumps, DaemonRefuses, process
  <2> QED
    BY <1>5, <2>1, <2>2
<1>6. ASSUME NEW h \in Host, Poll(h) \/ DiskChanges(h)
      PROVE  UNCHANGED <<pc, audit, card, cmd>>
  BY <1>6 DEF Poll, ProbeMeasures, ProbeReturns, ProbeFails, DiskChanges,
              process, outside, history
<1>7. CASE Tick
  BY <1>7 DEF Tick, process
<1>8. CASE Restart
  BY <1>8 DEF Restart, outside
<1>9. CASE UNCHANGED vars
  BY <1>9 DEF vars, process, outside, history
<1> QED
  BY <1>1, <1>2, <1>3, <1>4, <1>5, <1>6, <1>7, <1>8, <1>9 DEF Next, Call

(***************************************************************************)
(* The audit never hides a dump, whatever fails, is late or crashes.       *)
(***************************************************************************)
THEOREM DumpsAuditedCorrect == Spec => []DumpsAudited
<1>1. TypeInv /\ AuditInv => DumpsAudited
  BY DEF TypeInv, TypeOK, AuditInv, DumpsAudited
<1> QED
  BY <1>1, TypeInit, TypeStep, AuditInit, AuditStep, PTL DEF Spec
-----------------------------------------------------------------------------
(***************************************************************************)
(* Reset "triggered", requests that do not overlap: the clock stands at    *)
(* the latest blind dump, and a blind call that waits was let through by   *)
(* that clock.                                                             *)
(***************************************************************************)
TriggeredApplies ==
  /\ Serial /\ config.reset = "triggered" /\ StormLockout > 0

ClockIsLatest ==
  \A e \in BlindTriggered : lockoutClock # Never /\ startAt[e] <= lockoutClock

WaitsPastLockout ==
  \A e \in Event :
    pc[e] = "dumping" /\ e.blind =>
      (lockoutClock # Never => startAt[e] - lockoutClock >= StormLockout)

LockoutInv ==
  TriggeredApplies =>
    OneWaits /\ ClockIsLatest /\ WaitsPastLockout /\ Apart(BlindTriggered, StormLockout)

LEMMA LockoutInit == Init => LockoutInv
  BY DEF Init, LockoutInv, OneWaits, ClockIsLatest, WaitsPastLockout, Apart,
         BlindTriggered, Triggered

\* A step that sends nothing and writes no "triggered" row.
LEMMA LockoutQuiet ==
  ASSUME TypeInv, Course, LockoutInv,
         TriggeredApplies' => TriggeredApplies /\ UNCHANGED lockoutClock,
         Triggered' = Triggered,
         \A e \in Event : /\ pc'[e] = "dumping" => pc[e] = "dumping"
                          /\ Sent(e) => startAt'[e] = startAt[e]
  PROVE  LockoutInv'
<1> SUFFICES ASSUME TriggeredApplies'
             PROVE  (OneWaits /\ ClockIsLatest /\ WaitsPastLockout
                     /\ Apart(BlindTriggered, StormLockout))'
  BY DEF LockoutInv
<1>1. /\ OneWaits /\ ClockIsLatest /\ WaitsPastLockout
      /\ Apart(BlindTriggered, StormLockout) /\ UNCHANGED lockoutClock
  BY DEF LockoutInv
<1>2. BlindTriggered' = BlindTriggered /\ \A e \in BlindTriggered : startAt'[e] = startAt[e]
  BY DEF BlindTriggered, Triggered, Sent
<1>3. OneWaits' /\ WaitsPastLockout'
  BY <1>1 DEF OneWaits, WaitsPastLockout, Sent
<1>4. ClockIsLatest' /\ Apart(BlindTriggered, StormLockout)'
  BY <1>1, <1>2 DEF ClockIsLatest, Apart
<1> QED
  BY <1>3, <1>4

LEMMA LockoutRequest ==
  ASSUME TypeInv, Course, LockoutInv, NEW e \in Event, Request(e)
  PROVE  LockoutInv'
<1> SUFFICES ASSUME TriggeredApplies'
             PROVE  (OneWaits /\ ClockIsLatest /\ WaitsPastLockout
                     /\ Apart(BlindTriggered, StormLockout))'
  BY DEF LockoutInv
<1> USE DEF TypeInv, TypeOK, Course, Sent
<1>1. TriggeredApplies /\ UNCHANGED lockoutClock
  BY DEF TriggeredApplies, Serial, Request, Starts, EligibleRestartsClock
<1>2. \A f \in Event : pc'[f] = "dumping" => f = e
  BY DEF TriggeredApplies, Serial, Request, OthersAt
<1>3. e.blind /\ lockoutClock # Never => now - lockoutClock >= StormLockout
  BY <1>1 DEF Request, LockedOut, LockoutApplies, TriggeredApplies, Times, Never
<1>4. OneWaits' /\ WaitsPastLockout'
  BY <1>1, <1>2, <1>3 DEF OneWaits, WaitsPastLockout, Request, Starts
<1>5. BlindTriggered' = BlindTriggered /\ \A f \in BlindTriggered : startAt'[f] = startAt[f]
  BY DEF BlindTriggered, Triggered, Request, Starts
<1>6. ClockIsLatest' /\ Apart(BlindTriggered, StormLockout)'
  BY <1>1, <1>5 DEF LockoutInv, ClockIsLatest, Apart
<1> QED
  BY <1>4, <1>6

LEMMA LockoutReply ==
  ASSUME TypeInv, Course, LockoutInv, NEW e \in Event, ReplyOK(e)
  PROVE  LockoutInv'
<1> SUFFICES ASSUME TriggeredApplies'
             PROVE  (OneWaits /\ ClockIsLatest /\ WaitsPastLockout
                     /\ Apart(BlindTriggered, StormLockout))'
  BY DEF LockoutInv
<1> USE DEF TypeInv, TypeOK, Course, Sent
<1>1. /\ TriggeredApplies /\ UNCHANGED startAt /\ pc[e] = "dumping"
      /\ lockoutClock' = IF e.blind THEN startAt[e] ELSE lockoutClock
      /\ Triggered' = Triggered \union {e}
  BY DEF TriggeredApplies, Serial, ReplyOK, Resumes, ClockAfterDump, LockoutApplies,
         Triggered, Writes
<1>2. OneWaits /\ ClockIsLatest /\ WaitsPastLockout /\ Apart(BlindTriggered, StormLockout)
  BY <1>1 DEF LockoutInv
<1>3. \A f \in Event : pc'[f] # "dumping"
  <2>1. pc'[e] \in {"fanout", "done"} /\ \A f \in Event \ {e} : pc'[f] = pc[f]
    BY <1>1, AfterIntensityType DEF ReplyOK, Resumes, StartedHasTime
  <2>2. \A f \in Event \ {e} : pc[f] # "dumping"
    BY <1>1, <1>2 DEF OneWaits
  <2> QED
    BY <2>1, <2>2
<1>4. PICK t \in Nat : t = startAt[e]
  BY <1>1 DEF StartedHasTime
<1>5. ASSUME NEW f \in BlindTriggered, e.blind
      PROVE  t - startAt[f] >= StormLockout /\ startAt[f] <= t
  <2>1. /\ startAt[f] \in Nat /\ lockoutClock \in Nat /\ startAt[f] <= lockoutClock
        /\ t - lockoutClock >= StormLockout
    BY <1>1, <1>2, <1>4, <1>5
    DEF ClockIsLatest, WaitsPastLockout, BlindTriggered, Triggered, Times, Never
  <2> QED
    BY <2>1
<1>6. BlindTriggered' = IF e.blind THEN BlindTriggered \union {e} ELSE BlindTriggered
  BY <1>1 DEF BlindTriggered
<1>7. ClockIsLatest'
  BY <1>1, <1>2, <1>4, <1>5, <1>6 DEF ClockIsLatest, Never
<1>8. Apart(BlindTriggered, StormLockout)'
  BY <1>1, <1>2, <1>4, <1>5, <1>6 DEF Apart
<1> QED
  BY <1>3, <1>7, <1>8 DEF OneWaits, WaitsPastLockout

LEMMA LockoutStep == TypeInv /\ Course /\ LockoutInv /\ [Next]_vars => LockoutInv'
<1> SUFFICES ASSUME TypeInv, Course, LockoutInv, [Next]_vars
             PROVE  LockoutInv'
  OBVIOUS
<1> USE DEF TypeInv, TypeOK, Course
<1>1. ASSUME NEW e \in Event, Suppress(e) \/ LockOut(e)
      PROVE  LockoutInv'
  BY <1>1, LockoutQuiet DEF Suppress, LockOut, Starts, Writes, Sent, Triggered, Serial,
                            TriggeredApplies, EligibleRestartsClock
<1>2. ASSUME NEW e \in Event, Refuse(e)
      PROVE  LockoutInv'
  <2>1. pc'[e] \in {"fanout", "done"} /\ \A f \in Event \ {e} : pc'[f] = pc[f]
    BY <1>2, AfterIntensityType DEF Refuse
  <2> QED
    BY <1>2, <2>1, LockoutQuiet DEF Refuse, Starts, Writes, Sent, Triggered, Serial,
                                    TriggeredApplies, EligibleRestartsClock
<1>3. ASSUME NEW e \in Event, Request(e)
      PROVE  LockoutInv'
  BY <1>3, LockoutRequest
<1>4. ASSUME NEW e \in Event, ReplyOK(e)
      PROVE  LockoutInv'
  BY <1>4, LockoutReply
<1>5. ASSUME NEW e \in Event, ReplyNotOK(e) \/ RequestFails(e)
      PROVE  LockoutInv'
  <2>1. pc'[e] \in {"fanout", "done"} /\ \A f \in Event \ {e} : pc'[f] = pc[f]
    BY <1>5, AfterIntensityType DEF ReplyNotOK, RequestFails, Resumes, StartedHasTime
  <2>2. /\ pc[e] = "dumping"
        /\ UNCHANGED <<startAt, lockoutClock, overlap, restarts, config>>
        /\ audit' = [audit EXCEPT ![e] = audit'[e]] /\ audit'[e] # "triggered"
    BY <1>5 DEF ReplyNotOK, RequestFails, Resumes, Writes
  <2>3. Triggered' = Triggered
    BY <2>2 DEF Triggered
  <2> QED
    BY <2>1, <2>2, <2>3, LockoutQuiet DEF Serial, TriggeredApplies
<1>6. ASSUME NEW e \in Event, VoltageReplies(e)
      PROVE  LockoutInv'
  BY <1>6, LockoutQuiet DEF VoltageReplies, Triggered, Serial, TriggeredApplies
<1>7. ASSUME NEW e \in Event, DaemonDumps(e) \/ DaemonRefuses(e) \/ WriteCard(e) \/ SshEnds(e)
      PROVE  LockoutInv'
  BY <1>7, LockoutQuiet, CardMoves DEF DaemonDumps, DaemonRefuses, process, outside,
                            history, Triggered, Serial, TriggeredApplies
<1>8. ASSUME NEW h \in Host, Poll(h) \/ DiskChanges(h)
      PROVE  LockoutInv'
  BY <1>8, LockoutQuiet DEF Poll, ProbeMeasures, ProbeReturns, ProbeFails, DiskChanges,
                            process, outside, history, Triggered, Serial, TriggeredApplies
<1>9. CASE Tick
  BY <1>9, LockoutQuiet DEF Tick, process, Triggered, Serial, TriggeredApplies
<1>10. CASE Restart
  BY <1>10 DEF Restart, LockoutInv, Serial, TriggeredApplies
<1>11. CASE UNCHANGED vars
  BY <1>11, LockoutQuiet DEF vars, process, outside, history, Triggered, Serial,
                             TriggeredApplies
<1> QED
  BY <1>1, <1>2, <1>3, <1>4, <1>5, <1>6, <1>7, <1>8, <1>9, <1>10, <1>11 DEF Next, Call

(***************************************************************************)
(* While requests do not overlap, reset "triggered" keeps blind dumps at   *)
(* least StormLockout apart.                                               *)
(***************************************************************************)
THEOREM SerialLockoutCorrect == Spec => []SerialLockoutHolds
<1>1. TypeInv /\ Course /\ LockoutInv => SerialLockoutHolds
  <2> SUFFICES ASSUME TypeInv, Course, LockoutInv, Serial, config.reset = "triggered"
               PROVE  Apart(BlindTriggered, StormLockout)
    BY DEF SerialLockoutHolds, Serial
  <2>1. CASE StormLockout = 0
    BY <2>1 DEF Apart, BlindTriggered, Triggered, Course, Sent
  <2>2. CASE StormLockout > 0
    BY <2>2 DEF LockoutInv, TriggeredApplies
  <2> QED
    BY <2>1, <2>2
<1> QED
  BY <1>1, TypeInit, TypeStep, CourseInit, CourseStep, LockoutInit, LockoutStep, PTL
  DEF Spec

(***************************************************************************)
(* The storm lockout of t2d's _trigger holds with either reset: with       *)
(* "eligible" however calls overlap, with "triggered" while none do.       *)
(***************************************************************************)
THEOREM LockoutCorrect == Spec => []LockoutHolds
<1>1. SerialLockoutHolds /\ EligibleLockoutHolds => LockoutHolds
  BY DEF LockoutHolds
<1> QED
  BY <1>1, SerialLockoutCorrect, EligibleLockoutCorrect, PTL
=============================================================================
