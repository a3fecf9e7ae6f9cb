------------------------------- MODULE Gather ---------------------------------
(***************************************************************************)
(* One voltage dump taken by hand and gathered on one node                 *)
(* (dump_client.py): dump_voltages, the Python form, or casm-voltage-dump  *)
(* --gather, the command.  It checks the window and the disks, lists each  *)
(* stream's directory, commands the daemons one after the other, polls the *)
(* directories until the new files hold the window's bytes or a deadline   *)
(* passes, and pulls the files over.                                       *)
(*                                                                         *)
(* The daemons, their writers, other dumps to the same directories and the *)
(* transfers are the environment.  A dump writes one file per stream; free *)
(* space is enough, short of the floor, or unreadable.  The destination    *)
(* holds nothing of this dump's before.  --force, --dry-run and the reader *)
(* prefix are left out.                                                    *)
(***************************************************************************)
EXTENDS Integers, FiniteSets

CONSTANTS
  NStreams,   \* the selected streams are 1 .. NStreams, in the order commanded
  Local,      \* those this node writes
  Hosts,      \* the nodes whose disks are measured
  Window,     \* the seconds asked for
  Lag,        \* PAST_LAG_S
  Lead,       \* FUTURE_LEAD_S
  Lookback,   \* VOLTAGE_LOOKBACK_S
  Full,       \* expected_stream_bytes of the window
  Grace,      \* the minute past a dump length past the window
  Poll,       \* GATHER_POLL_S
  MaxTime     \* bound on the clock

Stream == 1 .. NStreams

ASSUME GatherAssumption ==
  /\ NStreams \in Nat \ {0} /\ Local \subseteq Stream
  /\ Window \in Nat \ {0} /\ Full \in Nat \ {0} /\ Poll \in Nat \ {0}
  /\ {Lag, Lead, Lookback, Grace, MaxTime} \subseteq Nat

\* A file is known by the dump that wrote it: this one, or another that t2d or
\* an operator takes before it or meanwhile.
Dump == {"mine", "other"}

VARIABLES
  entry,     \* "api" is dump_voltages, "cli" is voltage_main
  past,      \* the window is --last (past_duration), not --next
  inPlace,   \* dest is the dump directory itself
  pc, at,    \* where the client is, and at which stream
  start,     \* of the window; it stops Window later
  wakeAt,    \* until when the client sleeps
  before,    \* the files of each stream before the commands
  blind,     \* the streams that could not be listed then
  failed,    \* failed endpoints (the command) ...
  failures,  \*   ... and streams not delivered (gather_dump)
  done, new, \* states: the streams that are done, and each stream's new files
  gathered,  \* the (stream, file) pairs reported
  dest,      \* those that really are at the destination, with their sizes
  disk,      \* each stream's directory: file -> size
  writer,    \* what each daemon's writer does with this dump
  now

choices == <<entry, past, inPlace>>
progress == <<pc, at, start, wakeAt>>
listing == <<before, blind>>
result == <<failed, failures, gathered, dest>>
polled == <<done, new>>
world == <<disk, writer>>
vars == <<choices, progress, listing, result, polled, world, now>>

Stop == start + Window
Deadline == Stop + Window + Grace
Running == pc \notin {"succeeded", "failed", "raised"}

Init ==
  /\ entry \in {"api", "cli"} /\ past \in BOOLEAN /\ inPlace \in BOOLEAN
  /\ pc = "resolving" /\ at = 1 /\ start = 0 /\ wakeAt = 0
  /\ before = [s \in Stream |-> {}] /\ blind = {}
  /\ failed = 0 /\ failures = 0 /\ gathered = {} /\ dest = {}
  /\ done = {} /\ new = [s \in Stream |-> {}]
  /\ disk = [s \in Stream |-> <<>>]
  /\ writer = [s \in Stream |-> "idle"]
  /\ now = Lookback

-----------------------------------------------------------------------------
(***************************************************************************)
(* Before the commands                                                     *)
(***************************************************************************)

\* ring_age_refusal
Stale(from) == now - from > Lookback

\* voltage_window, and a window in the past checked against the ring.
Resolve ==
  /\ pc = "resolving"
  /\ start' = IF past THEN now - Lag - Window ELSE now + Lead
  /\ pc' = IF past /\ Stale(start') THEN "failed" ELSE "measuring"
  /\ UNCHANGED <<choices, at, wakeAt, listing, result, polled, world, now>>

\* preflight_issues: unreadable space is a warning, a short disk a refusal.
Preflight ==
  /\ pc = "measuring"
  /\ \E space \in [Hosts -> {"room", "short", "unreadable"}] :
       pc' = IF \E h \in Hosts : space[h] = "short" THEN "failed"
             ELSE IF entry = "cli" THEN "asking" ELSE "listing"
  /\ UNCHANGED <<choices, at, start, wakeAt, listing, result, polled, world, now>>

\* The answer to the prompt, after which the age is checked anew.
Answer ==
  /\ pc = "asking"
  /\ \E yes \in BOOLEAN :
       pc' = IF yes /\ ~ (past /\ Stale(start)) THEN "listing" ELSE "failed"
  /\ UNCHANGED <<choices, at, start, wakeAt, listing, result, polled, world, now>>

\* The step of a loop over the streams: to the next one, or to what follows.
Onward(where, then) ==
  IF at < NStreams THEN at' = at + 1 /\ pc' = where ELSE at' = 1 /\ pc' = then

\* A directory that cannot be listed reads as empty.
List ==
  /\ pc = "listing"
  /\ \/ before' = [before EXCEPT ![at] = DOMAIN disk[at]] /\ UNCHANGED blind
     \/ before' = [before EXCEPT ![at] = {}] /\ blind' = blind \union {at}
  /\ Onward("listing", "commanding")
  /\ UNCHANGED <<choices, start, wakeAt, result, polled, world, now>>

-----------------------------------------------------------------------------
(***************************************************************************)
(* The commands, and the daemons                                           *)
(***************************************************************************)

\* The endpoint is counted as failed unless it said OK; dump_voltages does
\* not count.
Replied(ok) ==
  /\ failed' = IF entry = "cli" /\ ~ ok THEN failed + 1 ELSE failed
  /\ Onward("commanding", "gathering")
  /\ wakeAt' = Stop
  /\ UNCHANGED <<choices, start, listing, failures, gathered, dest, polled, disk, now>>

\* The daemon has the window in its ring and takes the command.  The disk
\* guard may drop the dump, which no reply tells: the writer stays idle.
CommandTaken ==
  /\ pc = "commanding" /\ ~ Stale(start)
  /\ \E fate \in {"writing", "idle"} : writer' = [writer EXCEPT ![at] = fate]
  /\ Replied(TRUE)

CommandRefused ==
  /\ pc = "commanding" /\ Stale(start)
  /\ Replied(FALSE) /\ UNCHANGED writer

\* No connection, or no reply in time; the command may have been taken.
CommandErrs ==
  /\ pc = "commanding"
  /\ \/ UNCHANGED writer
     \/ ~ Stale(start) /\ writer' = [writer EXCEPT ![at] = "writing"]
  /\ Replied(FALSE)

Put(s, d, size) ==
  disk' = [disk EXCEPT ![s] = [f \in DOMAIN @ \union {d} |-> IF f = d THEN size ELSE @[f]]]

\* The writer opens its file when the window has begun, and grows it.
Write(s) ==
  /\ Running /\ writer[s] = "writing" /\ now >= start
  /\ IF "mine" \notin DOMAIN disk[s] THEN Put(s, "mine", 0)
     ELSE disk[s]["mine"] < Full /\ Put(s, "mine", disk[s]["mine"] + 1)
  /\ UNCHANGED <<choices, progress, listing, result, polled, writer, now>>

\* Another dump to the same directory, short or long.
OtherWrites(s) ==
  /\ Running /\ "other" \notin DOMAIN disk[s]
  /\ \E size \in {1, Full} : Put(s, "other", size)
  /\ UNCHANGED <<choices, progress, listing, result, polled, writer, now>>

-----------------------------------------------------------------------------
(***************************************************************************)
(* gather_dump                                                             *)
(***************************************************************************)

NewFiles(s) == DOMAIN disk[s] \ before[s]

\* Mutant: the first new file ends the wait.
IsDoneOnceNew(s) == NewFiles(s) # {}

\* A file's part of the payload on disk.
NewBytes(s, f) == IF f \in NewFiles(s) THEN disk[s][f] ELSE 0

\* stream_dump_state
IsDone(s) == NewFiles(s) # {} /\ NewBytes(s, "mine") + NewBytes(s, "other") >= Full

\* Mutant: the deadline is never past.
PastDeadlineNever == FALSE

PastDeadline == now > Deadline

\* One round over the streams that are not done, of which only the readable
\* are heard of; then the sleep, or the end of the wait.
PollStreams ==
  /\ pc = "gathering" /\ now >= wakeAt
  /\ \E readable \in SUBSET (Stream \ done) :
       /\ done' = done \union {s \in readable : IsDone(s)}
       /\ new' = [s \in Stream |-> IF s \in readable THEN NewFiles(s) ELSE new[s]]
  /\ IF done' = Stream \/ PastDeadline
     THEN /\ pc' = "pulling" /\ wakeAt' = 0
          /\ failures' = Cardinality(Stream \ done')
     ELSE /\ wakeAt' = now + Poll /\ UNCHANGED <<pc, failures>>
  /\ UNCHANGED <<choices, at, start, listing, failed, gathered, dest, world, now>>

\* The command's exit status, and dump_voltages's exception.
Ended ==
  IF entry = "cli" THEN failed + failures' = 0 ELSE gathered' # {}

OnwardOrEnd ==
  IF at < NStreams THEN at' = at + 1 /\ pc' = "pulling"
  ELSE at' = 1 /\ pc' = IF Ended THEN "succeeded" ELSE "failed"

\* What stays when the client moves files.
Settled == UNCHANGED <<choices, start, wakeAt, listing, failed, polled, world, now>>

CopyOf(s, f) == [stream |-> s, file |-> f, size |-> disk[s][f]]

AllThere(s) == \A f \in new[s] : \E c \in dest : c.stream = s /\ c.file = f

\* A stream that is not done is passed over.
Skip ==
  /\ pc = "pulling" /\ at \notin done
  /\ UNCHANGED <<failures, gathered, dest>>
  /\ OnwardOrEnd /\ Settled

\* Its files lie where they belong already.
TakeInPlace ==
  /\ pc = "pulling" /\ at \in done \intersect Local /\ inPlace
  /\ gathered' = gathered \union ({at} \X new[at])
  /\ dest' = dest \union {CopyOf(at, f) : f \in new[at]}
  /\ UNCHANGED failures
  /\ OnwardOrEnd /\ Settled

\* The stream's directory is made, its files are reported, and its symlinks
\* or its rsync begin.
Pull ==
  /\ pc = "pulling" /\ at \in done /\ ~ (at \in Local /\ inPlace)
  /\ gathered' = gathered \union ({at} \X new[at])
  /\ pc' = "transferring"
  /\ UNCHANGED <<at, failures, dest>> /\ Settled

\* os.makedirs raises, and nothing catches it: gather_dump does not return.
MakeDirRaises ==
  /\ pc = "pulling" /\ at \in done /\ ~ (at \in Local /\ inPlace)
  /\ pc' = "raised"
  /\ UNCHANGED <<at, failures, gathered, dest>> /\ Settled

Copy ==
  /\ pc = "transferring"
  /\ \E f \in new[at] :
       /\ ~ \E c \in dest : c.stream = at /\ c.file = f
       /\ dest' = dest \union {CopyOf(at, f)}
  /\ UNCHANGED <<pc, at, failures, gathered>> /\ Settled

TransferEnds ==
  /\ pc = "transferring" /\ AllThere(at)
  /\ UNCHANGED <<failures, gathered, dest>>
  /\ OnwardOrEnd /\ Settled

\* Mutant: a transfer that fails is not counted.
TransferFailsUncounted ==
  /\ pc = "transferring" /\ (at \in Local => ~ AllThere(at))
  /\ UNCHANGED <<failures, gathered, dest>>
  /\ OnwardOrEnd /\ Settled

\* A symlink that cannot be made ends its stream's; rsync fails with any of
\* the files there, even all.  What arrived stays.
TransferFails ==
  /\ pc = "transferring" /\ (at \in Local => ~ AllThere(at))
  /\ failures' = failures + 1
  /\ UNCHANGED <<gathered, dest>>
  /\ OnwardOrEnd /\ Settled

Transfer == Copy \/ TransferEnds \/ TransferFails

-----------------------------------------------------------------------------
\* The clock of the model starts when the client reads it.
Tick ==
  /\ Running /\ pc # "resolving" /\ now < MaxTime
  /\ now' = now + 1
  /\ UNCHANGED <<choices, progress, listing, result, polled, world>>

Client ==
  \/ Resolve \/ Preflight \/ Answer \/ List
  \/ CommandTaken \/ CommandRefused \/ CommandErrs
  \/ PollStreams \/ Skip \/ TakeInPlace \/ Pull \/ MakeDirRaises \/ Transfer

Next ==
  \/ Client
  \/ \E s \in Stream : Write(s) \/ OtherWrites(s)
  \/ Tick

\* The client runs on and time passes: each request, listing and command has
\* its timeout, and symlinks are made at once.  Nothing is assumed of the
\* operator, of the writers and the other dumps, nor of rsync (external), which
\* is run without a timeout.
Fairness ==
  /\ WF_vars(List \/ CommandTaken \/ CommandRefused \/ CommandErrs)
  /\ WF_vars(PollStreams)
  /\ WF_vars(Skip \/ TakeInPlace \/ Pull \/ MakeDirRaises)
  /\ WF_vars(at \in Local /\ Transfer)
  /\ WF_vars(Tick)

Spec == Init /\ [][Next]_vars
FairSpec == Spec /\ Fairness

-----------------------------------------------------------------------------
(***************************************************************************)
(* What the gathering promises                                             *)
(***************************************************************************)

\* The type invariant: new files are none of those listed before, and a
\* stream that is done has some.
TypeOK ==
  /\ entry \in {"api", "cli"} /\ past \in BOOLEAN /\ inPlace \in BOOLEAN
  /\ pc \in {"resolving", "measuring", "asking", "listing", "commanding", "gathering",
             "pulling", "transferring", "succeeded", "failed", "raised"}
  /\ at \in Stream /\ start \in Int /\ wakeAt \in Int
  /\ blind \subseteq Stream /\ done \subseteq Stream
  /\ failed \in 0 .. NStreams /\ failures \in 0 .. NStreams
  /\ \A s \in Stream :
       /\ new[s] \subseteq DOMAIN disk[s] \ before[s]
       /\ s \in done => new[s] # {}
       /\ \A f \in DOMAIN disk[s] : f \in Dump /\ disk[s][f] \in 0 .. Full
  /\ gathered \subseteq Stream \X Dump

\* The stream was listed, and nothing else was dumped to it since.
Undisturbed(s) == s \notin blind /\ ("other" \in DOMAIN disk[s] => "other" \in before[s])

Delivered(s) == \E c \in dest : c.stream = s /\ c.file = "mine" /\ c.size = Full

(***************************************************************************)
(* What is gathered of an undisturbed stream is this dump's and whole:     *)
(* never a file from before the command, nor one still being written,      *)
(* however the polls fall and whichever of them cannot read a directory.   *)
(***************************************************************************)
GatheredIsTheDump ==
  \A c \in dest : Undisturbed(c.stream) => c.file = "mine" /\ c.size = Full

(***************************************************************************)
(* The command exits 0 only when every stream's whole window is at the     *)
(* destination: a window gone stale before a daemon was asked, a lost      *)
(* reply, a dump the disk guard dropped and a failed transfer each fail it.*)
(***************************************************************************)
ExitZeroIsWhole ==
  pc = "succeeded" /\ entry = "cli" =>
    \A s \in Stream : Undisturbed(s) => Delivered(s)

\* What gather_dump did not bring over whole.
Missing == {s \in Stream : s \notin done \/ ~ AllThere(s)}

(***************************************************************************)
(* The count gather_dump returns is one for every stream that never        *)
(* finished or of which a file is missing at the destination.  It may only *)
(* exceed that by streams whose rsync complained after it had brought all: *)
(* a stream is never counted twice.                                        *)
(***************************************************************************)
FailuresAddUp ==
  pc \in {"succeeded", "failed"} /\ (failures # 0 \/ dest # {}) =>
    /\ Cardinality(Missing) <= failures
    /\ failures <= Cardinality(Missing \union (Stream \ Local))

(***************************************************************************)
(* What the client tells whoever called it is so, and what it took for new *)
(* files of a stream was not there before.                                 *)
(***************************************************************************)
ClientTells == TypeOK /\ ExitZeroIsWhole /\ FailuresAddUp

(***************************************************************************)
(* Once the commands are out the client ends, whatever the writers do: a   *)
(* stream that never finishes is given up at the deadline (one that the    *)
(* bounded clock reaches).  Only an rsync that hangs can keep it.          *)
(***************************************************************************)
GatherEnds ==
  (pc = "gathering" /\ Deadline < MaxTime)
    ~> (~ Running \/ [](pc = "transferring" /\ at \notin Local))

===============================================================================
