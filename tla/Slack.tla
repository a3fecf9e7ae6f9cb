--------------------------------- MODULE Slack ---------------------------------
(***************************************************************************)
(* What the injection bot says in the Slack channel, and what the ledger   *)
(* remembers of it: inject_slack.py's SlackPoster with the three places of *)
(* apps/inject_daemon.py that call it (after the FIFO write, after         *)
(* reconcile, and do_replay).                                              *)
(*                                                                         *)
(* SlackPoster never raises: a call that Slack refuses and one whose       *)
(* answer is lost look alike to it, though the second has had its effect.  *)
(* Every call and every write of the ledger is a step, so that a crash can *)
(* fall between a message and the time stamp stored for it.  The shots are *)
(* the service's, one after another.  Wording, colours and dry runs are    *)
(* left out; the attention message of a streak is in Injection.            *)
(***************************************************************************)
EXTENDS Integers, Sequences, FiniteSets, Functions, FiniteSetsExt

CONSTANTS
  None,
  Configs,     \* the settings the bot may run with
  MaxShots,    \* bound on the ledger
  MaxDays,     \* bound on the calendar
  MaxFaults,   \* bound on the message calls that fail
  MaxCrashes   \* bound on the shots that are abandoned

Mode == {"sent_then_update", "single", "sent_then_edit"}
Setting == [mode: Mode, post: {"never", "always", "daily", "on_miss"},
            onMiss: {"none", "expected"}]

ASSUME ConfigAssumption == Configs \subseteq Setting
ASSUME BoundAssumption == {MaxShots, MaxDays, MaxFaults, MaxCrashes} \subseteq Nat
ASSUME NoneAssumption == None \notin Nat \union {"recovered", "missed", "fire_failed"}

Shot == 1 .. MaxShots

VARIABLES
  config,    \* the settings in force
  inline,    \* the workspace takes image blocks of the bot's own files
  today,
  ledger,    \* rows: the inject day, the outcome, slack_ts, replay_png, replay_posted
  pc,        \* where each shot is in run and do_replay
  due,       \* do_replay goes on to render
  file,      \* the plot was uploaded, shared to no channel
  got,       \* the time stamp the last call returned
  channel,   \* the messages; a message's time stamp is its place
  \* history
  refused,   \* message calls of a shot that had no effect
  lost,      \* message calls of a shot that had one, unknown to the bot
  askedOn    \* the day on which do_replay asked whether a replay is due

local == <<pc, due, file, got>>
history == <<refused, lost, askedOn>>
vars == <<config, inline, today, ledger, local, channel, history>>

Init ==
  /\ config \in Configs /\ inline \in BOOLEAN
  /\ today = 1
  /\ ledger = <<>> /\ channel = <<>>
  /\ pc = [s \in Shot |-> "new"]
  /\ due = [s \in Shot |-> FALSE] /\ file = [s \in Shot |-> FALSE]
  /\ got = [s \in Shot |-> None]
  /\ refused = [s \in Shot |-> 0] /\ lost = [s \in Shot |-> 0]
  /\ askedOn = [s \in Shot |-> 0]

Over == {"new", "done", "abandoned"}
Active == {s \in Shot : pc[s] \notin Over}
Row(s) == ledger[s]
TsOf(s) == ledger[s].ts

Goes(s, to) == pc' = [pc EXCEPT ![s] = to]

\* What a turn of the loop holds ends with it.
Forgets(s) ==
  /\ due' = [due EXCEPT ![s] = FALSE] /\ file' = [file EXCEPT ![s] = FALSE]
  /\ got' = [got EXCEPT ![s] = None]

\* single and sent_then_update owe the shot a finished card.
Completes == config.mode # "sent_then_edit"

-----------------------------------------------------------------------------
(***************************************************************************)
(* Calls                                                                   *)
(***************************************************************************)

\* A card is a shot's own message: its sent line, with or without the bar of
\* the outcome and the plot.  An image is a plot posted by itself.
Message(s, kind, outcome, plot, under) ==
  [shot |-> s, kind |-> kind, outcome |-> outcome, plot |-> plot, under |-> under]

Post(message) == Append(channel, message)
Edit(ts, outcome, plot) ==
  [channel EXCEPT ![ts].outcome = outcome, ![ts].plot = plot]

Faults == SumFunction(refused) + SumFunction(lost)

\* How a call with or without an image block may end.
Answers(withFile) ==
  IF withFile /\ ~ inline THEN {"unwelcome"}
  ELSE IF Faults < MaxFaults THEN {"ok", "refused", "lost"} ELSE {"ok"}

\* A call of the shot at label "at" that makes the channel "after" and names
\* the message ts.  A lost answer also stands for a ledger that was locked
\* when the time stamp was to be stored.
Calls(s, at, withFile, after, ts, ok, fails) ==
  /\ pc[s] = at
  /\ \E answer \in Answers(withFile) :
       /\ channel' = IF answer \in {"ok", "lost"} THEN after ELSE channel
       /\ got' = [got EXCEPT ![s] = IF answer = "ok" THEN ts ELSE None]
       /\ Goes(s, IF answer = "ok" THEN ok ELSE fails)
       /\ refused' = [refused EXCEPT ![s] = @ + (IF answer = "refused" THEN 1 ELSE 0)]
       /\ lost' = [lost EXCEPT ![s] = @ + (IF answer = "lost" THEN 1 ELSE 0)]
  /\ UNCHANGED <<config, inline, today, ledger, due, file, askedOn>>

NextTs == Len(channel) + 1

-----------------------------------------------------------------------------
(***************************************************************************)
(* The shot is fired and announced                                         *)
(***************************************************************************)

NewRow(outcome) ==
  [day |-> today, outcome |-> outcome, ts |-> None, png |-> FALSE, posted |-> FALSE]

MayFire == Len(ledger) < MaxShots /\ Active = {}

Fire ==
  /\ MayFire
  /\ ledger' = Append(ledger, NewRow(None))
  /\ Goes(Len(ledger) + 1, IF config.mode = "single" THEN "waiting" ELSE "fired")
  /\ UNCHANGED <<config, inline, today, due, file, got, channel, refused, lost, askedOn>>

\* The turn of the loop ends before anything is posted.
FireFails ==
  /\ MayFire
  /\ ledger' = Append(ledger, NewRow("fire_failed"))
  /\ Goes(Len(ledger) + 1, "done")
  /\ UNCHANGED <<config, inline, today, due, file, got, channel, history>>

PostSent(s) ==
  Calls(s, "fired", FALSE, Post(Message(s, "card", None, FALSE, None)), NextTs,
        "announced", "announced")

\* Mutant: the time stamp of the sent message is not kept.
KeepTsNever(s) == UNCHANGED ledger

\* A time stamp the row holds is never cleared by a call that failed.
KeepTs(s) ==
  ledger' = [ledger EXCEPT ![s].ts = IF got[s] = None THEN @ ELSE got[s]]

StoreSent(s) ==
  /\ pc[s] = "announced"
  /\ KeepTs(s)
  /\ Goes(s, "waiting")
  /\ UNCHANGED <<config, inline, today, due, file, got, channel, history>>

-----------------------------------------------------------------------------
(***************************************************************************)
(* The outcome                                                             *)
(***************************************************************************)

\* A reconcile that raises ends the shot: see Abandon.
Reconcile(s) ==
  /\ pc[s] = "waiting"
  /\ \E outcome \in {"recovered", "missed"} :
       ledger' = [ledger EXCEPT ![s].outcome = outcome]
  /\ Goes(s, IF config.mode = "single" THEN "replay"
             ELSE IF TsOf(s) = None THEN "afresh" ELSE "resolved")
  /\ UNCHANGED <<config, inline, today, due, file, got, channel, history>>

\* post_outcome: the sent message is edited, or the outcome posted afresh.
\* It ends in do_replay either way, and what it returns is not stored.
EditOutcome(s) ==
  Calls(s, "resolved", FALSE, Edit(TsOf(s), Row(s).outcome, FALSE), TsOf(s),
        "replay", "afresh")

\* Mutant: without a message of its own the outcome is not posted.
PostOutcomeNever(s) ==
  Calls(s, "afresh", FALSE, channel, None, "replay", "replay")

PostOutcome(s) ==
  Calls(s, "afresh", FALSE, Post(Message(s, "card", Row(s).outcome, FALSE, None)),
        NextTs, "replay", "replay")

-----------------------------------------------------------------------------
(***************************************************************************)
(* do_replay: is there a plot, and how the card is completed               *)
(***************************************************************************)

Missed(s) == Row(s).outcome = "missed"

\* last_replay_day
PostedDays == {r.day : r \in {q \in Range(ledger) : q.posted}}
LastReplayDay == IF PostedDays = {} THEN None ELSE Max(PostedDays)

PostDue(s) ==
  CASE config.post = "never"   -> FALSE
    [] config.post = "always"  -> TRUE
    [] config.post = "on_miss" -> Missed(s)
    [] OTHER -> Missed(s) \/ LastReplayDay # today

\* Only a default-mode shot with a message to edit is completed in place.
InPlace(s) == config.mode = "sent_then_update" /\ TsOf(s) # None
CompletesBy(s) == IF InPlace(s) THEN "updating" ELSE "posting"

\* Not due, no dump was had, or a miss that is not rendered: the card is
\* completed without a plot, in the modes that complete it.
NoReplay(s) ==
  /\ pc[s] = "replay"
  /\ Goes(s, IF Completes THEN CompletesBy(s) ELSE "done")
  /\ got' = [got EXCEPT ![s] = None]
  /\ askedOn' = [askedOn EXCEPT ![s] = today]
  /\ UNCHANGED <<config, inline, today, ledger, due, file, channel, refused, lost>>

\* Mutant: a plot whose shot has no stored message is posted loose.
UnderLoose(s) == TRUE

\* Without a stored message nothing is threaded.
Under(s) == TsOf(s) # None

\* run_replay returns a plot or, on any failure, none.
Replay(s) ==
  /\ pc[s] = "replay"
  /\ PostDue(s) /\ ~ (Missed(s) /\ config.onMiss = "none")
  /\ due' = [due EXCEPT ![s] = Completes]
  /\ \E png \in BOOLEAN :
       /\ ledger' = [ledger EXCEPT ![s].png = png]
       /\ Goes(s, CASE Completes /\ png      -> "uploading"
                    [] Completes /\ ~ png    -> CompletesBy(s)
                    [] ~ Completes /\ png /\ Under(s) -> "threading"
                    [] OTHER -> "done")
  /\ got' = [got EXCEPT ![s] = None]
  /\ askedOn' = [askedOn EXCEPT ![s] = today]
  /\ UNCHANGED <<config, inline, today, file, channel, refused, lost>>

\* _upload_unshared
Upload(s) ==
  /\ pc[s] = "uploading"
  /\ \E uploaded \in BOOLEAN : file' = [file EXCEPT ![s] = uploaded]
  /\ Goes(s, CompletesBy(s))
  /\ UNCHANGED <<config, inline, today, ledger, due, got, channel, history>>

\* post_injection, the form "inline" or "bar".
Update(s) ==
  Calls(s, "updating", file[s], Edit(TsOf(s), Row(s).outcome, file[s]), TsOf(s),
        "answered", IF file[s] THEN "updating plain" ELSE "posting")

\* The form "bar+image": the bar alone, then the plot by itself.
UpdatePlain(s) ==
  Calls(s, "updating plain", FALSE, Edit(TsOf(s), Row(s).outcome, FALSE), TsOf(s),
        "image", "posting")

FullCard(s) == Message(s, "card", Row(s).outcome, file[s], None)
PlainCard(s) == Message(s, "card", Row(s).outcome, FALSE, None)

\* A new message, when there is none to update or no update went through.
PostCard(s) ==
  Calls(s, "posting", file[s], Post(FullCard(s)), NextTs, "answered",
        IF file[s] THEN "posting plain" ELSE "posting text")

PostPlain(s) ==
  Calls(s, "posting plain", FALSE, Post(PlainCard(s)), NextTs, "image", "posting text")

\* The form "text": no answer to it is waited for any more.
PostText(s) ==
  Calls(s, "posting text", FALSE, Post(PlainCard(s)), NextTs, "answered", "answered")

\* The plot by itself, top-level; whether it came through is not looked at.
PostImage(s) ==
  /\ pc[s] = "image"
  /\ \E through \in BOOLEAN :
       channel' = IF through THEN Post(Message(s, "image", None, TRUE, None)) ELSE channel
  /\ Goes(s, "answered")
  /\ UNCHANGED <<config, inline, today, ledger, due, file, got, history>>

-----------------------------------------------------------------------------
(***************************************************************************)
(* do_replay: what the ledger keeps, and the thread                        *)
(***************************************************************************)

\* The raw twin is posted only below a message that is known to be up.
RawFollows(s, posted) == Row(s).png /\ posted

\* Mutant: a replay counts as posted when it was threaded.
PostedThreaded(s) == FALSE

\* A card that came through counts, with or without its plot.
Posted(s) == due[s] /\ got[s] # None

\* The time stamp, and when a replay was due also whether it was posted.
StoreCard(s) ==
  /\ pc[s] = "answered"
  /\ ledger' = [ledger EXCEPT ![s].ts = IF got[s] = None THEN @ ELSE got[s],
                              ![s].posted = Posted(s)]
  /\ Goes(s, IF RawFollows(s, Posted(s)) THEN "raw" ELSE "done")
  /\ Forgets(s)
  /\ UNCHANGED <<config, inline, today, channel, history>>

\* post_replay in sent_then_edit.
Thread(s) ==
  Calls(s, "threading", FALSE, Post(Message(s, "reply", None, TRUE, TsOf(s))), NextTs,
        "threaded", "threaded")

StoreReplay(s) ==
  /\ pc[s] = "threaded"
  /\ ledger' = [ledger EXCEPT ![s].posted = got[s] # None]
  /\ Goes(s, IF RawFollows(s, got[s] # None) THEN "raw" ELSE "done")
  /\ Forgets(s)
  /\ UNCHANGED <<config, inline, today, channel, history>>

\* post_replay_raw, if the tool wrote a raw figure: fail-soft, not recorded.
PostRaw(s) ==
  /\ pc[s] = "raw"
  /\ \E through \in BOOLEAN :
       channel' = IF through /\ Under(s)
                  THEN Post(Message(s, "raw", None, TRUE, TsOf(s))) ELSE channel
  /\ Goes(s, "done")
  /\ UNCHANGED <<config, inline, today, ledger, due, file, got, history>>

-----------------------------------------------------------------------------
\* A crash, or an exception the loop catches: nobody takes the shot up again.
Abandon(s) ==
  /\ s \in Active
  /\ Cardinality({t \in Shot : pc[t] = "abandoned"}) < MaxCrashes
  /\ Goes(s, "abandoned")
  /\ Forgets(s)
  /\ UNCHANGED <<config, inline, today, ledger, channel, history>>

Midnight ==
  /\ today < MaxDays
  /\ today' = today + 1
  /\ UNCHANGED <<config, inline, ledger, local, channel, history>>

Step(s) ==
  \/ PostSent(s) \/ StoreSent(s) \/ Reconcile(s) \/ EditOutcome(s) \/ PostOutcome(s)
  \/ NoReplay(s) \/ Replay(s) \/ Upload(s) \/ Update(s) \/ UpdatePlain(s)
  \/ PostCard(s) \/ PostPlain(s) \/ PostText(s) \/ PostImage(s) \/ StoreCard(s)
  \/ Thread(s) \/ StoreReplay(s) \/ PostRaw(s)

Next ==
  \/ Fire \/ FireFails
  \/ \E s \in Shot : Step(s) \/ Abandon(s)
  \/ Midnight

Spec == Init /\ [][Next]_vars

\* A shot under way goes on: every call has a timeout, every await an end.
FairSpec == Spec /\ \A s \in Shot : WF_vars(Step(s))

-----------------------------------------------------------------------------
(***************************************************************************)
(* What the channel and the ledger promise                                 *)
(***************************************************************************)

Label ==
  {"new", "fired", "announced", "waiting", "resolved", "afresh", "replay", "uploading",
   "updating", "updating plain", "posting", "posting plain", "posting text", "image",
   "answered", "threading", "threaded", "raw", "done", "abandoned"}

Ts == 1 .. Len(channel)

TypeOK ==
  /\ config \in Configs /\ inline \in BOOLEAN /\ today \in Nat
  /\ ledger \in Seq([day : Nat, outcome : {None, "recovered", "missed", "fire_failed"},
                     ts : Nat \union {None}, png : BOOLEAN, posted : BOOLEAN])
  /\ Len(ledger) <= MaxShots
  /\ pc \in [Shot -> Label] /\ due \in [Shot -> BOOLEAN] /\ file \in [Shot -> BOOLEAN]
  /\ got \in [Shot -> Ts \union {None}]
  /\ channel \in Seq([shot : Shot, kind : {"card", "image", "reply", "raw"},
                      outcome : {None, "recovered", "missed"}, plot : BOOLEAN,
                      under : Nat \union {None}])
  /\ refused \in [Shot -> Nat] /\ lost \in [Shot -> Nat] /\ askedOn \in [Shot -> Nat]

Cards(s) == {m \in DOMAIN channel : channel[m].shot = s /\ channel[m].kind = "card"}
Tells(m) == channel[m].outcome # None
Fired(s) == s \in DOMAIN ledger /\ Row(s).outcome # "fire_failed"

(***************************************************************************)
(* One shot, one card: a shot whose calls went through has a single        *)
(* message, the ledger knows it and it ends with the outcome.  Every card  *)
(* more needs a call that failed; a lost answer alone can cost two, since  *)
(* post_outcome's fresh message is not stored and do_replay posts again.   *)
(***************************************************************************)
OneCardPerShot ==
  \A s \in DOMAIN ledger :
    /\ Cardinality(Cards(s)) <= 1 + refused[s] + 2 * lost[s]
    /\ Fired(s) /\ pc[s] = "done" /\ refused[s] + lost[s] = 0 =>
         /\ Cards(s) = {TsOf(s)}
         /\ Tells(TsOf(s))

(***************************************************************************)
(* What the ledger says of the channel is so: slack_ts names a card of its *)
(* own row, which carries the outcome in the end unless edits of it were   *)
(* refused, and replay_posted a message with the outcome or the plot.      *)
(* Nothing hangs under another shot's card, or loose.                      *)
(***************************************************************************)
LedgerMatchesChannel ==
  /\ TypeOK
  /\ \A s \in DOMAIN ledger :
       /\ TsOf(s) # None =>
            /\ TsOf(s) \in Cards(s)
            /\ pc[s] = "done" =>
                 \/ Tells(TsOf(s))
                 \/ refused[s] >= (IF config.mode = "sent_then_edit" THEN 1 ELSE 2)
       /\ Row(s).posted =>
            \E m \in DOMAIN channel :
              channel[m].shot = s /\ (Tells(m) \/ channel[m].plot)
  /\ \A m \in DOMAIN channel :
       channel[m].kind \in {"reply", "raw"} => channel[m].under \in Cards(channel[m].shot)

(***************************************************************************)
(* With post "daily" no second replay of an inject day is rendered for a   *)
(* shot that was not missed, once one is marked posted or went through     *)
(* without a failure; unless the second shot was asked about after its     *)
(* midnight, when its row's day is not the day that is looked up.          *)
(***************************************************************************)
WentThrough(s) == pc[s] = "done" /\ Row(s).png /\ refused[s] + lost[s] = 0

DailyOnce ==
  config.post = "daily" =>
    \A s, t \in DOMAIN ledger :
      /\ s < t /\ Row(s).day = Row(t).day
      /\ Row(s).posted \/ WentThrough(s)
      /\ Row(t).png /\ ~ Missed(t)
      => askedOn[t] > Row(t).day

(***************************************************************************)
(* Every outcome reaches the channel: one call that fails, in any mode and *)
(* at any step, never keeps it out, unless the shot is abandoned.          *)
(***************************************************************************)
OutcomeReachesChannel ==
  \A s \in Shot :
    (Fired(s) /\ Row(s).outcome # None) ~>
      \/ \E m \in Cards(s) : Tells(m)
      \/ refused[s] + lost[s] >= 2
      \/ pc[s] = "abandoned"

=============================================================================
