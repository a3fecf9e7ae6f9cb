------------------------------ MODULE SlackProofs ------------------------------
(***************************************************************************)
(* Theorems about the bot's messages, for any settings, any number of      *)
(* shots and days, and any number of calls that fail and shots that are    *)
(* abandoned.                                                              *)
(***************************************************************************)
EXTENDS Slack, FiniteSetTheorems, SequenceTheorems, TLAPS

-----------------------------------------------------------------------------
(***************************************************************************)
(* Types                                                                   *)
(***************************************************************************)

Outcome == {"recovered", "missed"}
MessageType ==
  [shot : Shot, kind : {"card", "image", "reply", "raw"}, outcome : {None} \union Outcome,
   plot : BOOLEAN, under : Nat \union {None}]
RowType ==
  [day : Nat, outcome : {None, "recovered", "missed", "fire_failed"},
   ts : Nat \union {None}, png : BOOLEAN, posted : BOOLEAN]

DataPart ==
  /\ config \in Configs /\ inline \in BOOLEAN /\ today \in Nat
  /\ ledger \in Seq(RowType) /\ Len(ledger) <= MaxShots
  /\ pc \in [Shot -> Label] /\ due \in [Shot -> BOOLEAN] /\ file \in [Shot -> BOOLEAN]
  /\ got \in [Shot -> Nat \union {None}]
  /\ channel \in Seq(MessageType)
  /\ refused \in [Shot -> Nat] /\ lost \in [Shot -> Nat] /\ askedOn \in [Shot -> Nat]

\* Shots come one after another: only the last row's can be under way.
PlacePart ==
  \A s \in Shot : /\ pc[s] = "new" <=> s > Len(ledger)
                  /\ pc[s] \notin Over => s = Len(ledger)

TypeInv == DataPart /\ PlacePart

LEMMA Parameters ==
  /\ MaxShots \in Nat /\ None \notin Nat
  /\ None # "recovered" /\ None # "missed" /\ None # "fire_failed"
  BY BoundAssumption, NoneAssumption

LEMMA SettingType == config \in Configs => config \in Setting
  BY ConfigAssumption

LEMMA RowOfType ==
  ASSUME ledger \in Seq(RowType), NEW s \in 1 .. Len(ledger)
  PROVE  /\ ledger[s] \in RowType
         /\ ledger[s].day \in Nat /\ ledger[s].ts \in Nat \union {None}
         /\ ledger[s].outcome \in {None, "recovered", "missed", "fire_failed"}
         /\ ledger[s].png \in BOOLEAN /\ ledger[s].posted \in BOOLEAN
<1>1. ledger[s] \in RowType
  BY ElementOfSeq
<1> QED
  BY <1>1 DEF RowType

LEMMA MessageOfType ==
  ASSUME channel \in Seq(MessageType), NEW m \in 1 .. Len(channel)
  PROVE  /\ channel[m] \in MessageType
         /\ channel[m].shot \in Shot /\ channel[m].outcome \in {None} \union Outcome
         /\ channel[m].plot \in BOOLEAN /\ channel[m].under \in Nat \union {None}
         /\ channel[m].kind \in {"card", "image", "reply", "raw"}
<1>1. channel[m] \in MessageType
  BY ElementOfSeq
<1> QED
  BY <1>1 DEF MessageType

-----------------------------------------------------------------------------
(***************************************************************************)
(* The channel                                                             *)
(***************************************************************************)

\* A message more.
Said(m) ==
  /\ channel' \in Seq(MessageType) /\ Len(channel') = Len(channel) + 1
  /\ \A i \in 1 .. Len(channel) : channel'[i] = channel[i]
  /\ channel'[Len(channel) + 1] = m

\* A message's outcome and plot changed.
Edited(ts, outcome, plot) ==
  /\ channel' \in Seq(MessageType) /\ Len(channel') = Len(channel)
  /\ \A i \in 1 .. Len(channel) : i # ts => channel'[i] = channel[i]
  /\ channel'[ts].outcome = outcome /\ channel'[ts].plot = plot
  /\ channel'[ts].shot = channel[ts].shot /\ channel'[ts].kind = channel[ts].kind
  /\ channel'[ts].under = channel[ts].under

LEMMA PostSays ==
  ASSUME channel \in Seq(MessageType), NEW m \in MessageType, channel' = Post(m)
  PROVE  Said(m)
  BY AppendProperties DEF Post, Said

LEMMA EditEdits ==
  ASSUME channel \in Seq(MessageType), NEW ts \in 1 .. Len(channel),
         NEW outcome \in {None} \union Outcome, NEW plot \in BOOLEAN,
         channel' = Edit(ts, outcome, plot)
  PROVE  Edited(ts, outcome, plot)
<1>1. PICK m \in MessageType : channel[ts] = m
  BY MessageOfType
<1> DEFINE new == [shot |-> m.shot, kind |-> m.kind, outcome |-> outcome, plot |-> plot,
                   under |-> m.under]
<1>2. new \in MessageType /\ [[m EXCEPT !.outcome = outcome] EXCEPT !.plot = plot] = new
<2> DEFINE half == [shot |-> m.shot, kind |-> m.kind, outcome |-> outcome, plot |-> m.plot,
                    under |-> m.under]
<2>1. [m EXCEPT !.outcome = outcome] = half
  BY DEF MessageType
<2>2. [half EXCEPT !.plot = plot] = new
  OBVIOUS
<2>3. new \in MessageType
  BY DEF MessageType
<2> QED
  BY <2>1, <2>2, <2>3, Zenon
<1>3. channel' = [[channel EXCEPT ![ts] = [channel[ts] EXCEPT !.outcome = outcome]]
                     EXCEPT ![ts] = [[channel[ts] EXCEPT !.outcome = outcome] EXCEPT !.plot = plot]]
<2>1. ts \in DOMAIN channel
  OBVIOUS
<2> QED
  BY <2>1 DEF Edit
<1>4. channel' = [channel EXCEPT ![ts] = new]
<2>1. channel' = [channel EXCEPT ![ts] = [[m EXCEPT !.outcome = outcome] EXCEPT !.plot = plot]]
  BY <1>1, <1>3
<2> QED
  BY <1>2, <2>1
<1>5. /\ channel' \in Seq(MessageType) /\ Len(channel') = Len(channel)
      /\ \A i \in 1 .. Len(channel) : channel'[i] = IF i = ts THEN new ELSE channel[i]
  BY <1>2, <1>4, ExceptSeq
<1> QED
  BY <1>1, <1>5 DEF Edited

LEMMA CardsAre ==
  ASSUME channel \in Seq(MessageType)
  PROVE  \A s : /\ Cards(s) = {m \in 1 .. Len(channel) :
                                 channel[m].shot = s /\ channel[m].kind = "card"}
                /\ IsFiniteSet(Cards(s)) /\ Cardinality(Cards(s)) \in Nat
<1>1. DOMAIN channel = 1 .. Len(channel) /\ Len(channel) \in Nat
  OBVIOUS
<1>2. IsFiniteSet(1 .. Len(channel))
  BY <1>1, FS_Interval
<1>3. \A s : Cards(s) \subseteq 1 .. Len(channel)
  BY <1>1 DEF Cards
<1> QED
  BY <1>1, <1>2, <1>3, FS_Subset, FS_CardinalityType DEF Cards

\* What a step makes of the cards.
LEMMA SaidCards ==
  ASSUME channel \in Seq(MessageType), NEW m, Said(m)
  PROVE  /\ \A s : Cards(s)' = IF m.shot = s /\ m.kind = "card"
                               THEN Cards(s) \union {Len(channel) + 1} ELSE Cards(s)
         /\ \A s : Len(channel) + 1 \notin Cards(s)
         /\ \A s : m.shot = s /\ m.kind = "card" =>
              Cardinality(Cards(s)') = Cardinality(Cards(s)) + 1
<1>1. \A s : Cards(s)' =
               {i \in 1 .. Len(channel') : channel'[i].shot = s /\ channel'[i].kind = "card"}
<2>1. DOMAIN channel' = 1 .. Len(channel')
  BY DEF Said
<2> QED
  BY <2>1 DEF Cards
<1>2. Len(channel) \in Nat /\ Len(channel') = Len(channel) + 1
  BY DEF Said
<1>3. \A s : Cards(s)' = IF m.shot = s /\ m.kind = "card"
                         THEN Cards(s) \union {Len(channel) + 1} ELSE Cards(s)
<2> TAKE s
<2>1. \A i \in 1 .. Len(channel') : i \in 1 .. Len(channel) \/ i = Len(channel) + 1
  BY <1>2
<2>2. \A i \in 1 .. Len(channel) : i \in Cards(s)' <=> i \in Cards(s)
  BY <1>1, <1>2, CardsAre DEF Said
<2>3. Len(channel) + 1 \in Cards(s)' <=> (m.shot = s /\ m.kind = "card")
  BY <1>1, <1>2 DEF Said
<2>4. Cards(s) \subseteq 1 .. Len(channel) /\ Cards(s)' \subseteq 1 .. Len(channel')
  BY <1>1, CardsAre
<2>5. Len(channel) + 1 \in 1 .. Len(channel')
  BY <1>2
<2>6. Len(channel) + 1 \notin 1 .. Len(channel)
  BY <1>2
<2>7. CASE m.shot = s /\ m.kind = "card"
  <3>1. \A i : i \in Cards(s)' <=> i \in Cards(s) \union {Len(channel) + 1}
    BY <2>1, <2>2, <2>3, <2>4, <2>7
  <3> QED
    BY <2>7, <3>1
<2>8. CASE ~ (m.shot = s /\ m.kind = "card")
  <3>1. \A i : i \in Cards(s)' <=> i \in Cards(s)
    BY <2>1, <2>2, <2>3, <2>4, <2>8
  <3> QED
    BY <2>8, <3>1
<2> QED
  BY <2>7, <2>8
<1>4. \A s : Len(channel) + 1 \notin Cards(s)
  BY <1>2, CardsAre
<1>5. \A s : m.shot = s /\ m.kind = "card" => Cardinality(Cards(s)') = Cardinality(Cards(s)) + 1
  BY <1>3, <1>4, CardsAre, FS_AddElement
<1> QED
  BY <1>3, <1>4, <1>5

LEMMA EditedCards ==
  ASSUME channel \in Seq(MessageType), NEW ts \in 1 .. Len(channel), NEW o, NEW p, Edited(ts, o, p)
  PROVE  \A s : Cards(s)' = Cards(s)
<1>1. \A s : Cards(s)' =
               {i \in 1 .. Len(channel') : channel'[i].shot = s /\ channel'[i].kind = "card"}
<2>1. DOMAIN channel' = 1 .. Len(channel')
  BY DEF Edited
<2> QED
  BY <2>1 DEF Cards
<1>2. \A i \in 1 .. Len(channel) :
        channel'[i].shot = channel[i].shot /\ channel'[i].kind = channel[i].kind
  BY DEF Edited
<1>3. Len(channel') = Len(channel)
  BY DEF Edited
<1> TAKE s
<1>4. \A i : i \in Cards(s)' <=> i \in Cards(s)
  BY <1>1, <1>2, <1>3, CardsAre
<1>5. Cards(s)' \subseteq Cards(s) /\ Cards(s) \subseteq Cards(s)'
  BY <1>4
<1> QED
  BY <1>5

-----------------------------------------------------------------------------
(***************************************************************************)
(* A shot and what it is made of                                           *)
(***************************************************************************)

Early == {"fired", "announced", "waiting"}
Closing == {"uploading", "updating", "updating plain", "posting", "posting plain",
            "posting text", "image", "answered"}
Late == {"resolved", "afresh", "replay", "threading", "threaded", "raw"} \union Closing

\* What the shot's place says of its row and of the settings.
RowOk(s) ==
  LET p == pc[s]  ts == TsOf(s) IN
  /\ Row(s).outcome = "fire_failed" => p = "done" /\ ts = None
  /\ p \in Early => Row(s).outcome = None
  /\ p \in Late => Row(s).outcome \in Outcome
  /\ p = "done" => Row(s).outcome # None
  /\ p \in {"fired", "announced", "resolved", "afresh"} => config.mode # "single"
  /\ p \in {"fired", "announced"} => ts = None
  /\ p \in {"resolved", "threading", "threaded", "updating", "updating plain"} => ts # None
  /\ p \in {"updating", "updating plain"} => config.mode = "sent_then_update"
  /\ p \in Closing => Completes
  /\ p \in {"threading", "threaded"} => ~ Completes
  /\ config.mode = "single" /\ p \in {"waiting", "replay"} \union Closing => ts = None
  /\ p \in Early \union {"resolved", "afresh", "replay"} => ~ Row(s).png
  /\ Row(s).posted => p \in {"raw", "done", "abandoned"}

\* Its time stamps name cards of its own.
StampsOk(s) ==
  /\ TsOf(s) # None => TsOf(s) \in Cards(s)
  /\ got[s] # None =>
       IF pc[s] = "threaded"
       THEN got[s] \in 1 .. Len(channel) /\ channel[got[s]].shot = s /\ channel[got[s]].plot
       ELSE got[s] \in Cards(s)
  /\ got[s] # None /\ pc[s] \in {"image", "answered"} => Tells(got[s])
  /\ Row(s).posted =>
       \E m \in 1 .. Len(channel) : channel[m].shot = s /\ (Tells(m) \/ channel[m].plot)

\* The known card tells the outcome, or its edits were refused.
TellsOk(s) ==
  TsOf(s) # None =>
    /\ \/ pc[s] \in {"afresh", "replay", "uploading", "updating", "updating plain",
                     "threading", "threaded"}
       \/ pc[s] \in {"raw", "done"} /\ ~ Completes
       => Tells(TsOf(s)) \/ refused[s] >= 1
    /\ \/ pc[s] \in {"posting", "posting plain", "posting text", "image", "answered"}
       \/ pc[s] \in {"raw", "done"} /\ Completes
       => Tells(TsOf(s)) \/ refused[s] >= 2

\* How many more cards the failed calls leave room for ...
Spare(s) == 1 + refused[s] + lost[s] + lost[s] - Cardinality(Cards(s))

\* ... and how many the shot may still need at least.
Needs(s) ==
  CASE pc[s] = "announced" -> IF got[s] = None THEN 2 ELSE 0
    [] pc[s] = "waiting" -> IF TsOf(s) # None THEN 0
                            ELSE IF config.mode = "single" THEN 1 ELSE 2
    [] pc[s] = "afresh" -> IF TsOf(s) # None THEN 1 ELSE 2
    [] pc[s] \in {"replay", "uploading"} -> IF TsOf(s) # None THEN 0 ELSE 1
    [] pc[s] \in {"new", "fired", "posting", "posting plain", "posting text"} -> 1
    [] OTHER -> 0

SpareOk(s) == Spare(s) >= Needs(s)

Clean(s) == refused[s] + lost[s] = 0

\* While no call of the shot failed, it knows its cards.
CleanOk(s) ==
  Clean(s) =>
    /\ pc[s] \notin {"afresh", "posting text"}
    /\ pc[s] \in {"announced", "image", "answered"} => got[s] # None /\ Cards(s) = {got[s]}
    /\ pc[s] \notin {"announced", "image", "answered", "abandoned"} =>
         Cards(s) = IF TsOf(s) = None THEN {} ELSE {TsOf(s)}
    /\ pc[s] = "threaded" => got[s] # None
    /\ pc[s] \in {"waiting", "replay", "uploading"} /\ config.mode # "single" => TsOf(s) # None
    /\ pc[s] \in {"posting", "posting plain"} => TsOf(s) = None
    /\ pc[s] \in {"raw", "done"} /\ Row(s).outcome # "fire_failed" => TsOf(s) # None

\* A plot that was rendered is posted, if its calls go through.
DueOk(s) ==
  Row(s).png => /\ pc[s] \in Closing => due[s]
                /\ pc[s] \in {"raw", "done"} /\ Clean(s) => Row(s).posted

ShotInv(s) ==
  RowOk(s) /\ StampsOk(s) /\ TellsOk(s) /\ SpareOk(s) /\ CleanOk(s) /\ DueOk(s)

NewPart == \A s \in Shot : pc[s] = "new" => Cards(s) = {} /\ Clean(s) /\ got[s] = None

HangsPart ==
  \A m \in 1 .. Len(channel) :
    channel[m].kind \in {"reply", "raw"} => channel[m].under \in Cards(channel[m].shot)

SlackInv == /\ TypeInv /\ NewPart /\ HangsPart
            /\ \A s \in 1 .. Len(ledger) : ShotInv(s)

-----------------------------------------------------------------------------
(***************************************************************************)
(* What a step of one shot leaves to the others                            *)
(***************************************************************************)

Apart(s) ==
  /\ config' = config /\ 1 .. Len(ledger) \subseteq 1 .. Len(ledger')
  /\ \A t \in Shot : t # s =>
       /\ pc'[t] = pc[t] /\ due'[t] = due[t] /\ got'[t] = got[t]
       /\ refused'[t] = refused[t] /\ lost'[t] = lost[t]
  /\ \A t \in 1 .. Len(ledger') : t # s => t \in 1 .. Len(ledger) /\ ledger'[t] = ledger[t]
  /\ Len(channel) <= Len(channel')
  /\ \A m \in 1 .. Len(channel') : channel'[m].shot # s =>
       m <= Len(channel) /\ channel'[m] = channel[m]
  /\ \A m \in 1 .. Len(channel) : channel'[m].shot = channel[m].shot

LEMMA ApartCards ==
  ASSUME TypeInv, TypeInv', NEW s, Apart(s), NEW t, t # s
  PROVE  /\ Cards(t)' = Cards(t)
         /\ \A m \in 1 .. Len(channel) : channel[m].shot = t =>
              m \in 1 .. Len(channel') /\ channel'[m] = channel[m]
<1>1. DOMAIN channel = 1 .. Len(channel) /\ DOMAIN channel' = 1 .. Len(channel')
      /\ Len(channel) \in Nat /\ Len(channel') \in Nat
  BY DEF TypeInv, DataPart
<1>2. \A m \in 1 .. Len(channel) : channel[m].shot = t =>
        m \in 1 .. Len(channel') /\ channel'[m] = channel[m]
  BY <1>1 DEF Apart
<1>3. \A m \in 1 .. Len(channel') : channel'[m].shot = t =>
        m \in 1 .. Len(channel) /\ channel'[m] = channel[m]
  BY <1>1 DEF Apart
<1>4. Cards(t)' = Cards(t)
  BY <1>1, <1>2, <1>3 DEF Cards
<1> QED
  BY <1>2, <1>4

LEMMA LedgerShots ==
  ASSUME TypeInv
  PROVE  1 .. Len(ledger) \subseteq Shot /\ Len(ledger) \in Nat
  BY Parameters DEF TypeInv, DataPart, Shot

LEMMA ApartKeeps ==
  ASSUME SlackInv, TypeInv', NEW s, Apart(s), NEW t \in 1 .. Len(ledger), t # s
  PROVE  ShotInv(t)'
<1>1. /\ Cards(t)' = Cards(t) /\ TsOf(t)' = TsOf(t) /\ Row(t)' = Row(t) /\ t \in Shot
      /\ pc'[t] = pc[t] /\ due'[t] = due[t] /\ got'[t] = got[t]
      /\ refused'[t] = refused[t] /\ lost'[t] = lost[t] /\ config' = config
  BY ApartCards, LedgerShots DEF SlackInv, Apart, TsOf, Row
<1>2. \A m \in 1 .. Len(channel) : channel[m].shot = t =>
        m \in 1 .. Len(channel') /\ channel'[m] = channel[m]
  BY ApartCards DEF SlackInv
<1>3. \A m \in Cards(t) : m \in 1 .. Len(channel) /\ channel[m].shot = t /\ (Tells(m)' <=> Tells(m))
  BY <1>2, CardsAre DEF Tells, SlackInv, TypeInv, DataPart
<1>4. ShotInv(t)
  BY DEF SlackInv
<1>5. (Completes' <=> Completes) /\ (Clean(t)' <=> Clean(t)) /\ Spare(t)' = Spare(t)
  BY <1>1 DEF Completes, Clean, Spare
<1>6. RowOk(t)'
  BY <1>1, <1>4, <1>5 DEF ShotInv, RowOk
<1>7. StampsOk(t)'
<2>1. \A m \in 1 .. Len(channel) : channel[m].shot = t => (Tells(m)' <=> Tells(m))
  BY <1>2 DEF Tells
<2> QED
  BY <1>1, <1>2, <1>3, <1>4, <2>1 DEF ShotInv, StampsOk
<1>8. TellsOk(t)'
  BY <1>1, <1>3, <1>4, <1>5 DEF ShotInv, TellsOk, StampsOk
<1>9. SpareOk(t)' /\ CleanOk(t)' /\ DueOk(t)'
  BY <1>1, <1>4, <1>5 DEF ShotInv, SpareOk, Needs, CleanOk, DueOk
<1> QED
  BY <1>6, <1>7, <1>8, <1>9 DEF ShotInv

\* The parts that speak of all shots, once the step's own shot is settled.
LEMMA ShotSettles ==
  ASSUME SlackInv, TypeInv', NEW s \in Shot, Apart(s), pc'[s] # "new",
         ShotInv(s)',
         \A m \in 1 .. Len(channel') : channel'[m].shot = s /\ channel'[m].kind \in {"reply", "raw"}
           => channel'[m].under \in Cards(s)'
  PROVE  SlackInv'
<1>1. \A t \in 1 .. Len(ledger') : t # s => t \in 1 .. Len(ledger)
  BY DEF Apart
<1>2. \A t \in 1 .. Len(ledger') : ShotInv(t)'
  BY <1>1, ApartKeeps
<1>3. NewPart'
<2> SUFFICES ASSUME NEW t \in Shot, pc'[t] = "new"
             PROVE  Cards(t)' = {} /\ Clean(t)' /\ got'[t] = None
  BY DEF NewPart
<2>1. t # s
  OBVIOUS
<2>2. Cards(t)' = Cards(t)
  BY <2>1, ApartCards DEF SlackInv
<2>3. pc[t] = "new" /\ refused'[t] = refused[t] /\ lost'[t] = lost[t] /\ got'[t] = got[t]
  BY <2>1 DEF Apart
<2> QED
  BY <2>2, <2>3 DEF SlackInv, NewPart, Clean
<1>4. HangsPart'
<2> SUFFICES ASSUME NEW m \in 1 .. Len(channel'), channel'[m].kind \in {"reply", "raw"}
             PROVE  (channel[m].under \in Cards(channel[m].shot))'
  BY DEF HangsPart
<2>1. CASE channel'[m].shot = s
  <3>1. channel'[m].under \in Cards(s)'
    BY <2>1
  <3> QED
    BY <2>1, <3>1 DEF Cards
<2>2. CASE channel'[m].shot # s
  <3>1. m \in 1 .. Len(channel) /\ channel'[m] = channel[m]
    BY <2>2 DEF Apart, SlackInv, TypeInv, DataPart
  <3>2. channel[m].under \in Cards(channel[m].shot) /\ channel[m].shot # s
    BY <2>2, <3>1 DEF SlackInv, HangsPart
  <3>3. PICK t : t = channel[m].shot
    OBVIOUS
  <3>4. channel[m].under \in Cards(t)'
    BY <3>2, <3>3, ApartCards DEF SlackInv
  <3> QED
    BY <3>1, <3>3, <3>4 DEF Cards
<2> QED
  BY <2>1, <2>2
<1> QED
  BY <1>2, <1>3, <1>4 DEF SlackInv

-----------------------------------------------------------------------------
(***************************************************************************)
(* Calls                                                                   *)
(***************************************************************************)

\* What a step of shot s may do to the channel.
ChannelApart(s) ==
  /\ channel' \in Seq(MessageType)
  /\ Len(channel) <= Len(channel')
  /\ \A m \in 1 .. Len(channel') : channel'[m].shot # s =>
       m <= Len(channel) /\ channel'[m] = channel[m]
  /\ \A m \in 1 .. Len(channel) : channel'[m].shot = channel[m].shot

LEMMA SilentApart ==
  ASSUME TypeInv, channel' = channel, NEW s
  PROVE  ChannelApart(s)
  BY DEF ChannelApart, TypeInv, DataPart

LEMMA SaidApart ==
  ASSUME TypeInv, NEW m, Said(m)
  PROVE  ChannelApart(m.shot)
  BY DEF ChannelApart, Said, TypeInv, DataPart

LEMMA EditedApart ==
  ASSUME TypeInv, NEW s, NEW ts \in 1 .. Len(channel), channel[ts].shot = s, NEW o, NEW p,
         Edited(ts, o, p)
  PROVE  ChannelApart(s)
  BY DEF ChannelApart, Edited, TypeInv, DataPart

\* The ways a call ends.
Went(s, ts, ok) ==
  got'[s] = ts /\ pc'[s] = ok /\ refused'[s] = refused[s] /\ lost'[s] = lost[s]
Refuses(s, fails) ==
  got'[s] = None /\ pc'[s] = fails /\ refused'[s] = refused[s] + 1 /\ lost'[s] = lost[s]
Loses(s, fails) ==
  got'[s] = None /\ pc'[s] = fails /\ refused'[s] = refused[s] /\ lost'[s] = lost[s] + 1
TurnsDown(s, fails) ==
  got'[s] = None /\ pc'[s] = fails /\ refused'[s] = refused[s] /\ lost'[s] = lost[s]

LEMMA CallEnds ==
  ASSUME TypeInv, NEW s \in Shot, NEW at \in Label \ Over, NEW withFile, NEW after,
         NEW ts \in Nat \union {None}, NEW ok \in Label \ {"new"}, NEW fails \in Label \ {"new"},
         Calls(s, at, withFile, after, ts, ok, fails)
  PROVE  /\ pc[s] = at
         /\ UNCHANGED <<config, inline, today, ledger, due, file, askedOn>>
         /\ \/ Went(s, ts, ok) /\ channel' = after
            \/ Refuses(s, fails) /\ channel' = channel
            \/ Loses(s, fails) /\ channel' = after
            \/ TurnsDown(s, fails) /\ channel' = channel /\ withFile
         /\ ChannelApart(s) => TypeInv' /\ Apart(s)
<1> USE DEF TypeInv
<1>1. PICK answer \in Answers(withFile) :
        /\ channel' = IF answer \in {"ok", "lost"} THEN after ELSE channel
        /\ got' = [got EXCEPT ![s] = IF answer = "ok" THEN ts ELSE None]
        /\ Goes(s, IF answer = "ok" THEN ok ELSE fails)
        /\ refused' = [refused EXCEPT ![s] = @ + (IF answer = "refused" THEN 1 ELSE 0)]
        /\ lost' = [lost EXCEPT ![s] = @ + (IF answer = "lost" THEN 1 ELSE 0)]
  BY DEF Calls
<1>2. pc[s] = at /\ UNCHANGED <<config, inline, today, ledger, due, file, askedOn>>
  BY DEF Calls
<1>3. answer \in {"ok", "refused", "lost"} \/ (answer = "unwelcome" /\ withFile)
  BY DEF Answers
<1>4. /\ pc' = [pc EXCEPT ![s] = IF answer = "ok" THEN ok ELSE fails]
      /\ pc' \in [Shot -> Label] /\ got' \in [Shot -> Nat \union {None}]
      /\ refused' \in [Shot -> Nat] /\ lost' \in [Shot -> Nat]
  BY <1>1 DEF Goes, DataPart
<1>5. /\ got'[s] = IF answer = "ok" THEN ts ELSE None
      /\ pc'[s] = IF answer = "ok" THEN ok ELSE fails
      /\ refused'[s] = refused[s] + (IF answer = "refused" THEN 1 ELSE 0)
      /\ lost'[s] = lost[s] + (IF answer = "lost" THEN 1 ELSE 0)
      /\ refused[s] \in Nat /\ lost[s] \in Nat
  BY <1>1, <1>4 DEF DataPart
<1>6. \/ Went(s, ts, ok) /\ channel' = after
      \/ Refuses(s, fails) /\ channel' = channel
      \/ Loses(s, fails) /\ channel' = after
      \/ TurnsDown(s, fails) /\ channel' = channel /\ withFile
<2>1. CASE answer = "ok"
  BY <1>1, <1>5, <2>1 DEF Went
<2>2. CASE answer = "refused"
  BY <1>1, <1>5, <2>2 DEF Refuses
<2>3. CASE answer = "lost"
  BY <1>1, <1>5, <2>3 DEF Loses
<2>4. CASE answer = "unwelcome" /\ withFile
  BY <1>1, <1>5, <2>4 DEF TurnsDown
<2> QED
  BY <1>3, <2>1, <2>2, <2>3, <2>4
<1>7. ASSUME ChannelApart(s)
      PROVE  TypeInv' /\ Apart(s)
<2>1. DataPart'
  BY <1>2, <1>4, <1>7 DEF DataPart, ChannelApart
<2>2. PlacePart'
  BY <1>2, <1>4, <1>5 DEF PlacePart, DataPart
<2>3. Apart(s)
  BY <1>1, <1>2, <1>4, <1>7 DEF Apart, ChannelApart, DataPart
<2> QED
  BY <2>1, <2>2, <2>3
<1> QED
  BY <1>2, <1>6, <1>7

\* The shot's row, its settings and what it owes are as they were.
Holds(s) == /\ config' = config /\ ledger' = ledger /\ due'[s] = due[s]
            /\ (Completes' <=> Completes)

\* No message of the shot changed, and what hangs hangs still.
Hangs(s) ==
  \A m \in 1 .. Len(channel') : channel'[m].shot = s /\ channel'[m].kind \in {"reply", "raw"}
    => channel'[m].under \in Cards(s)'

LEMMA Unchanging ==
  ASSUME SlackInv, NEW s, channel' = channel
  PROVE  /\ Cards(s)' = Cards(s) /\ Hangs(s)
         /\ \A m \in Cards(s) : Tells(m)' <=> Tells(m)
  BY DEF SlackInv, HangsPart, Hangs, Cards, Tells

\* A call that posts a card, the message n.
CardGoes(s, n, outcome, ok, fails, withFile) ==
  \/ /\ Went(s, n, ok) /\ Cards(s)' = Cards(s) \union {n}
     /\ (Tells(n)' <=> outcome # None)
     /\ Spare(s)' = Spare(s) - 1
  \/ Refuses(s, fails) /\ Cards(s)' = Cards(s) /\ Spare(s)' = Spare(s) + 1
  \/ /\ Loses(s, fails) /\ Cards(s)' = Cards(s) \union {n}
     /\ Spare(s)' = Spare(s) + 1
  \/ TurnsDown(s, fails) /\ Cards(s)' = Cards(s) /\ Spare(s)' = Spare(s) /\ withFile

\* What the ways a call ends make of the room for more cards.
LEMMA SpareMoves ==
  ASSUME NEW s, refused[s] \in Nat, lost[s] \in Nat, Cardinality(Cards(s)) \in Nat,
         NEW more \in {0, 1}, Cardinality(Cards(s)') = Cardinality(Cards(s)) + more,
         NEW ts, NEW p
  PROVE  /\ Spare(s) \in Int
         /\ Went(s, ts, p) \/ TurnsDown(s, p) => Spare(s)' = Spare(s) - more
         /\ Refuses(s, p) => Spare(s)' = Spare(s) + 1 - more
         /\ Loses(s, p) => Spare(s)' = Spare(s) + 2 - more
<1>1. PICK c \in Nat, r \in Nat, l \in Nat :
        c = Cardinality(Cards(s)) /\ r = refused[s] /\ l = lost[s]
  OBVIOUS
<1>2. Spare(s) = 1 + r + l + l - c
  BY <1>1 DEF Spare
<1>3. Spare(s)' = 1 + refused'[s] + lost'[s] + lost'[s] - (c + more)
  BY <1>1 DEF Spare
<1>4. /\ Went(s, ts, p) \/ TurnsDown(s, p) => refused'[s] = r /\ lost'[s] = l
      /\ Refuses(s, p) => refused'[s] = r + 1 /\ lost'[s] = l
      /\ Loses(s, p) => refused'[s] = r /\ lost'[s] = l + 1
  BY <1>1 DEF Went, Refuses, Loses, TurnsDown
<1> QED
  BY <1>2, <1>3, <1>4

LEMMA CardCall ==
  ASSUME SlackInv, NEW s \in Shot, NEW at \in Label \ Over, NEW withFile,
         NEW outcome \in {None} \union Outcome, NEW plot \in BOOLEAN,
         NEW ok \in Label \ {"new"}, NEW fails \in Label \ {"new"},
         Calls(s, at, withFile, Post(Message(s, "card", outcome, plot, None)), NextTs, ok, fails)
  PROVE  /\ pc[s] = at /\ TypeInv' /\ Apart(s) /\ Holds(s) /\ Hangs(s)
         /\ \E n \in Nat : CardGoes(s, n, outcome, ok, fails, withFile)
         /\ \A m \in Cards(s) : m \in Cards(s)' /\ (Tells(m)' <=> Tells(m))
         /\ Spare(s) \in Int
<1> DEFINE card == Message(s, "card", outcome, plot, None)
<1> USE DEF SlackInv
<1>1. channel \in Seq(MessageType) /\ Len(channel) \in Nat /\ DOMAIN channel = 1 .. Len(channel)
      /\ refused[s] \in Nat /\ lost[s] \in Nat
  BY DEF TypeInv, DataPart
<1>0. PICK n \in Nat : n = Len(channel) + 1
  BY <1>1
<1>2. /\ pc[s] = at
      /\ UNCHANGED <<config, inline, today, ledger, due, file, askedOn>>
      /\ \/ Went(s, n, ok) /\ channel' = Post(card)
         \/ Refuses(s, fails) /\ channel' = channel
         \/ Loses(s, fails) /\ channel' = Post(card)
         \/ TurnsDown(s, fails) /\ channel' = channel /\ withFile
      /\ ChannelApart(s) => TypeInv' /\ Apart(s)
<2>1. NextTs = n /\ n \in Nat \union {None}
  BY <1>0 DEF NextTs
<2>2. Calls(s, at, withFile, Post(card), n, ok, fails)
  BY <2>1
<2> QED
  BY <2>1, <2>2, CallEnds
<1>3. card \in MessageType /\ card.shot = s /\ card.kind = "card" /\ card.outcome = outcome
  BY DEF Message, MessageType
<1>4. Holds(s)
  BY <1>2 DEF Holds, Completes
<1>5. Spare(s) \in Int /\ Cardinality(Cards(s)) \in Nat
  BY <1>1, CardsAre DEF Spare
<1>6. ASSUME channel' = channel
      PROVE  /\ ChannelApart(s) /\ Hangs(s) /\ Cards(s)' = Cards(s)
             /\ \A m \in Cards(s) : Tells(m)' <=> Tells(m)
  BY <1>6, SilentApart, Unchanging
<1>7. ASSUME channel' = Post(card)
      PROVE  /\ ChannelApart(s) /\ Hangs(s)
             /\ Cards(s)' = Cards(s) \union {n}
             /\ Cardinality(Cards(s)') = Cardinality(Cards(s)) + 1
             /\ \A m \in Cards(s) : Tells(m)' <=> Tells(m)
             /\ (Tells(n)' <=> outcome # None)
<2>1. Said(card)
  BY <1>1, <1>3, <1>7, PostSays
<2>2. ChannelApart(s)
  BY <1>3, <2>1, SaidApart
<2>3. /\ Cards(s)' = Cards(s) \union {n}
      /\ Cardinality(Cards(s)') = Cardinality(Cards(s)) + 1
  BY <1>0, <1>1, <1>3, <2>1, SaidCards
<2>4. \A m \in 1 .. Len(channel) : channel'[m] = channel[m]
  BY <2>1 DEF Said
<2>5. \A m \in Cards(s) : Tells(m)' <=> Tells(m)
  BY <1>1, <2>4 DEF Cards, Tells
<2>6. Tells(n)' <=> outcome # None
<3>1. channel'[n] = card
  BY <1>0, <2>1 DEF Said
<3> QED
  BY <1>3, <3>1 DEF Tells
<2>7. Hangs(s)
<3> SUFFICES ASSUME NEW m \in 1 .. Len(channel'), channel'[m].shot = s,
                    channel'[m].kind \in {"reply", "raw"}
             PROVE  channel'[m].under \in Cards(s)'
  BY DEF Hangs
<3>1. m \in 1 .. Len(channel)
  BY <1>1, <1>3, <2>1 DEF Said
<3>2. channel[m].under \in Cards(s)
  BY <2>4, <3>1 DEF HangsPart
<3> QED
  BY <2>3, <2>4, <3>1, <3>2
<2> QED
  BY <2>2, <2>3, <2>5, <2>6, <2>7
<1>8. TypeInv' /\ Apart(s) /\ Hangs(s)
      /\ \A m \in Cards(s) : m \in Cards(s)' /\ (Tells(m)' <=> Tells(m))
  BY <1>2, <1>6, <1>7
<1>9. CardGoes(s, n, outcome, ok, fails, withFile)
<2>1. CASE channel' = Post(card) /\ (Went(s, n, ok) \/ Loses(s, fails))
  <3>1. /\ Cards(s)' = Cards(s) \union {n} /\ (Tells(n)' <=> outcome # None)
        /\ Cardinality(Cards(s)') = Cardinality(Cards(s)) + 1
    BY <1>7, <2>1
  <3>2. /\ Went(s, n, ok) => Spare(s)' = Spare(s) - 1
        /\ Loses(s, fails) => Spare(s)' = Spare(s) + 2 - 1
    BY <1>1, <1>5, <3>1, SpareMoves
  <3>3. Loses(s, fails) => Spare(s)' = Spare(s) + 1
    BY <1>5, <3>2
  <3> QED
    BY <2>1, <3>1, <3>2, <3>3, Zenon DEF CardGoes
<2>2. CASE channel' = channel /\ (Refuses(s, fails) \/ (TurnsDown(s, fails) /\ withFile))
  <3>1. Cards(s)' = Cards(s)
    BY <1>6, <2>2
  <3>2. Cardinality(Cards(s)') = Cardinality(Cards(s)) + 0
    BY <1>5, <3>1
  <3>3. /\ Refuses(s, fails) => Spare(s)' = Spare(s) + 1 - 0
        /\ TurnsDown(s, fails) => Spare(s)' = Spare(s) - 0
    BY <1>1, <1>5, <3>2, SpareMoves
  <3>4. /\ Refuses(s, fails) => Spare(s)' = Spare(s) + 1
        /\ TurnsDown(s, fails) => Spare(s)' = Spare(s)
    BY <1>5, <3>3
  <3> QED
    BY <2>2, <3>1, <3>4, Zenon DEF CardGoes
<2> QED
  BY <1>2, <2>1, <2>2
<1> QED
  BY <1>2, <1>4, <1>5, <1>8, <1>9

\* A call that edits ts, the shot's known card.
EditGoes(s, ts, ok, fails, withFile) ==
  \/ Went(s, ts, ok) /\ Tells(ts)' /\ Spare(s)' = Spare(s)
  \/ /\ Refuses(s, fails) /\ (Tells(ts)' <=> Tells(ts))
     /\ Spare(s)' = Spare(s) + 1
  \/ Loses(s, fails) /\ Tells(ts)' /\ Spare(s)' = Spare(s) + 2
  \/ /\ TurnsDown(s, fails) /\ (Tells(ts)' <=> Tells(ts))
     /\ Spare(s)' = Spare(s) /\ withFile

LEMMA EditCall ==
  ASSUME SlackInv, NEW s \in Shot, NEW at \in Label \ Over, NEW withFile,
         NEW ts, TsOf(s) = ts, ts \in Cards(s), NEW o \in Outcome, Row(s).outcome = o,
         NEW plot \in BOOLEAN, NEW ok \in Label \ {"new"}, NEW fails \in Label \ {"new"},
         Calls(s, at, withFile, Edit(TsOf(s), Row(s).outcome, plot), TsOf(s), ok, fails)
  PROVE  /\ pc[s] = at /\ TypeInv' /\ Apart(s) /\ Holds(s) /\ Hangs(s)
         /\ Cards(s)' = Cards(s) /\ EditGoes(s, ts, ok, fails, withFile)
         /\ Spare(s) \in Int
<1> USE DEF SlackInv
<1>1. channel \in Seq(MessageType) /\ Len(channel) \in Nat /\ DOMAIN channel = 1 .. Len(channel)
      /\ refused[s] \in Nat /\ lost[s] \in Nat /\ ts \in 1 .. Len(channel) /\ channel[ts].shot = s
  BY CardsAre DEF TypeInv, DataPart
<1>2. /\ pc[s] = at
      /\ UNCHANGED <<config, inline, today, ledger, due, file, askedOn>>
      /\ \/ Went(s, ts, ok) /\ channel' = Edit(ts, o, plot)
         \/ Refuses(s, fails) /\ channel' = channel
         \/ Loses(s, fails) /\ channel' = Edit(ts, o, plot)
         \/ TurnsDown(s, fails) /\ channel' = channel /\ withFile
      /\ ChannelApart(s) => TypeInv' /\ Apart(s)
<2>1. Calls(s, at, withFile, Edit(ts, o, plot), ts, ok, fails)
  OBVIOUS
<2> QED
  BY <1>1, <2>1, CallEnds
<1>3. Holds(s)
  BY <1>2 DEF Holds, Completes
<1>4. Spare(s) \in Int /\ Cardinality(Cards(s)) \in Nat
  BY <1>1, CardsAre DEF Spare
<1>5. ASSUME channel' = channel
      PROVE  /\ ChannelApart(s) /\ Hangs(s) /\ Cards(s)' = Cards(s)
             /\ (Tells(ts)' <=> Tells(ts))
  BY <1>5, SilentApart, Unchanging
<1>6. ASSUME channel' = Edit(ts, o, plot)
      PROVE  ChannelApart(s) /\ Hangs(s) /\ Cards(s)' = Cards(s) /\ Tells(ts)'
<2>1. Edited(ts, o, plot) /\ o # None
  BY <1>1, <1>6, EditEdits, Parameters DEF Outcome
<2>2. ChannelApart(s) /\ Cards(s)' = Cards(s)
  BY <1>1, <2>1, EditedApart, EditedCards
<2>3. Tells(ts)'
  BY <2>1 DEF Edited, Tells
<2>4. Hangs(s)
<3> SUFFICES ASSUME NEW m \in 1 .. Len(channel'), channel'[m].shot = s,
                    channel'[m].kind \in {"reply", "raw"}
             PROVE  channel'[m].under \in Cards(s)'
  BY DEF Hangs
<3>1. m \in 1 .. Len(channel) /\ m # ts
  BY <1>1, <2>1, CardsAre DEF Edited
<3> QED
  BY <2>1, <2>2, <3>1 DEF HangsPart, Edited
<2> QED
  BY <2>2, <2>3, <2>4
<1>7. TypeInv' /\ Apart(s) /\ Hangs(s) /\ Cards(s)' = Cards(s)
  BY <1>2, <1>5, <1>6
<1>8. \/ Went(s, ts, ok) /\ Tells(ts)'
      \/ Refuses(s, fails) /\ (Tells(ts)' <=> Tells(ts))
      \/ Loses(s, fails) /\ Tells(ts)'
      \/ TurnsDown(s, fails) /\ (Tells(ts)' <=> Tells(ts)) /\ withFile
  BY <1>2, <1>5, <1>6
<1>9. EditGoes(s, ts, ok, fails, withFile)
<2>1. Cardinality(Cards(s)') = Cardinality(Cards(s)) + 0
  BY <1>4, <1>7
<2>2. /\ Went(s, ts, ok) => Spare(s)' = Spare(s) - 0
      /\ Refuses(s, fails) => Spare(s)' = Spare(s) + 1 - 0
      /\ Loses(s, fails) => Spare(s)' = Spare(s) + 2 - 0
      /\ TurnsDown(s, fails) => Spare(s)' = Spare(s) - 0
  BY <1>1, <1>4, <2>1, SpareMoves
<2>3. /\ Went(s, ts, ok) => Spare(s)' = Spare(s)
      /\ Refuses(s, fails) => Spare(s)' = Spare(s) + 1
      /\ Loses(s, fails) => Spare(s)' = Spare(s) + 2
      /\ TurnsDown(s, fails) => Spare(s)' = Spare(s)
  BY <1>4, <2>2
<2> QED
  BY <1>8, <2>3, Zenon DEF EditGoes
<1> QED
  BY <1>2, <1>3, <1>4, <1>7, <1>9

-----------------------------------------------------------------------------
(***************************************************************************)
(* The calls that post a card, and those that edit it                      *)
(***************************************************************************)

LEMMA Standing ==
  ASSUME SlackInv, NEW s \in Shot, pc[s] \notin {"new"}
  PROVE  /\ s \in 1 .. Len(ledger) /\ ShotInv(s)
         /\ Row(s) \in RowType /\ TsOf(s) \in Nat \union {None}
         /\ Row(s).outcome \in {None, "recovered", "missed", "fire_failed"}
         /\ Row(s).png \in BOOLEAN /\ Row(s).posted \in BOOLEAN
         /\ refused[s] \in Nat /\ lost[s] \in Nat /\ got[s] \in Nat \union {None}
         /\ due[s] \in BOOLEAN /\ config \in Setting
<1>1. s \in 1 .. Len(ledger)
  BY LedgerShots DEF SlackInv, TypeInv, PlacePart, Shot
<1> QED
  BY <1>1, RowOfType, SettingType DEF SlackInv, TypeInv, DataPart, Row, TsOf

CardPath(at, outcome, ok, fails, withFile) ==
  \/ at = "fired" /\ outcome = None /\ ok = "announced" /\ fails = "announced" /\ ~ withFile
  \/ /\ outcome # None
     /\ \/ at = "afresh" /\ ok = "replay" /\ fails = "replay" /\ ~ withFile
        \/ at = "posting" /\ ok = "answered" /\ fails = "posting plain"
        \/ at = "posting" /\ ok = "answered" /\ fails = "posting text" /\ ~ withFile
        \/ at = "posting plain" /\ ok = "image" /\ fails = "posting text" /\ ~ withFile
        \/ at = "posting text" /\ ok = "answered" /\ fails = "answered" /\ ~ withFile

LEMMA CardStep ==
  ASSUME SlackInv, NEW s \in Shot, NEW at, NEW withFile,
         NEW outcome \in {None} \union Outcome, NEW plot \in BOOLEAN, NEW ok, NEW fails,
         Calls(s, at, withFile, Post(Message(s, "card", outcome, plot, None)), NextTs, ok, fails),
         CardPath(at, outcome, ok, fails, withFile)
  PROVE  SlackInv'
<1>1. at \in Label \ Over /\ ok \in Label \ {"new"} /\ fails \in Label \ {"new"}
  BY DEF CardPath, Label, Over
<1>2. /\ pc[s] = at /\ TypeInv' /\ Apart(s) /\ Holds(s) /\ Hangs(s)
      /\ \A m \in Cards(s) : m \in Cards(s)' /\ (Tells(m)' <=> Tells(m))
      /\ Spare(s) \in Int
  BY <1>1, CardCall
<1>3. PICK n \in Nat : CardGoes(s, n, outcome, ok, fails, withFile)
  BY <1>1, CardCall
<1>4. /\ ShotInv(s) /\ TsOf(s) \in Nat \union {None} /\ refused[s] \in Nat /\ lost[s] \in Nat
      /\ config \in Setting /\ Row(s).png \in BOOLEAN
  BY <1>1, <1>2, Standing DEF Over
<1>5. PICK ts, o : ts = TsOf(s) /\ o = Row(s).outcome
  OBVIOUS
<1>6. /\ TsOf(s)' = ts /\ Row(s)' = Row(s) /\ due'[s] = due[s] /\ config' = config
      /\ (Completes' <=> Completes) /\ None \notin Nat
  BY <1>2, <1>5, Parameters DEF Holds, TsOf, Row
<1>7. /\ pc'[s] \in {ok, fails} /\ pc'[s] # "new"
  BY <1>1, <1>3 DEF CardGoes, Went, Refuses, Loses, TurnsDown
<1>8. RowOk(s)'
  BY <1>2, <1>4, <1>5, <1>6, <1>7 DEF ShotInv, RowOk, CardPath, Early, Late, Closing, Outcome
<1>9. StampsOk(s)'
  BY <1>2, <1>3, <1>4, <1>5, <1>6, <1>7
  DEF ShotInv, RowOk, StampsOk, CardPath, CardGoes, Went, Refuses, Loses, TurnsDown
<1>10. TellsOk(s)'
<2>1. ts # None => Tells(ts) <=> Tells(ts)'
  BY <1>2, <1>4, <1>5 DEF ShotInv, StampsOk
<2>2. refused'[s] \in Nat /\ refused'[s] >= refused[s]
  BY <1>3, <1>4 DEF CardGoes, Went, Refuses, Loses, TurnsDown
<2>3. Tells(TsOf(s))' <=> Tells(ts)'
  BY <1>6 DEF Tells
<2>4. CASE at = "fired"
  BY <1>2, <1>4, <1>5, <1>6, <2>4 DEF ShotInv, RowOk, TellsOk
<2>5. CASE at = "afresh"
  <3>1. ts # None => Tells(ts) \/ refused[s] >= 1
    BY <1>2, <1>4, <1>5, <2>5 DEF ShotInv, TellsOk
  <3>2. pc'[s] = "replay"
    BY <1>7, <2>5 DEF CardPath
  <3> QED
    BY <1>4, <1>6, <2>1, <2>2, <2>3, <3>1, <3>2 DEF TellsOk
<2>6. CASE at \in {"posting", "posting plain", "posting text"}
  <3>1. ts # None => Tells(ts) \/ refused[s] >= 2
    BY <1>2, <1>4, <1>5, <2>6 DEF ShotInv, TellsOk
  <3>2. pc'[s] \in {"posting plain", "posting text", "image", "answered"}
    BY <1>7, <2>6 DEF CardPath
  <3>3. ts # None => Tells(TsOf(s))' \/ refused'[s] >= 2
    BY <1>4, <2>1, <2>2, <2>3, <3>1
  <3> QED
    BY <1>6, <3>2, <3>3 DEF TellsOk
<2> QED
  BY <2>4, <2>5, <2>6 DEF CardPath
<1>11. SpareOk(s)'
<2>1. Spare(s) >= Needs(s)
  BY <1>4 DEF ShotInv, SpareOk
<2>2. PICK x \in Int : x = Spare(s)
  BY <1>2
<2>3. \/ pc'[s] = ok /\ got'[s] = n /\ Spare(s)' = x - 1
      \/ pc'[s] = fails /\ got'[s] = None /\ Spare(s)' = x + 1
      \/ pc'[s] = fails /\ got'[s] = None /\ Spare(s)' = x /\ withFile
  BY <1>3, <2>2 DEF CardGoes, Went, Refuses, Loses, TurnsDown
<2>4. n # None
  BY <1>6
<2>5. CASE at = "fired"
  <3>1. x >= 1 /\ ts = None /\ Needs(s)' = IF got'[s] = None THEN 2 ELSE 0
    BY <1>2, <1>4, <1>5, <1>7, <2>1, <2>2, <2>5 DEF Needs, ShotInv, RowOk, CardPath
  <3> QED
    BY <2>3, <2>4, <2>5, <3>1 DEF SpareOk, CardPath
<2>6. CASE at = "afresh"
  <3>1. x >= (IF ts # None THEN 1 ELSE 2) /\ Needs(s)' = IF ts # None THEN 0 ELSE 1
    BY <1>2, <1>5, <1>6, <1>7, <2>1, <2>2, <2>6 DEF Needs, CardPath
  <3> QED
    BY <2>3, <2>6, <3>1 DEF SpareOk, CardPath
<2>7. CASE at \in {"posting", "posting plain", "posting text"}
  <3>1. x >= 1
    BY <1>2, <2>1, <2>2, <2>7 DEF Needs
  <3>2. Needs(s)' = IF pc'[s] \in {"posting plain", "posting text"} THEN 1 ELSE 0
    BY <1>7, <2>7 DEF Needs, CardPath
  <3>3. pc'[s] = ok => Needs(s)' = 0
    BY <2>7, <3>2 DEF CardPath
  <3>4. PICK k \in {0, 1} : k = Needs(s)'
    BY <3>2
  <3>5. pc'[s] = ok => k = 0
    BY <3>3, <3>4
  <3>6. Spare(s)' >= k
    BY <2>3, <3>1, <3>5
  <3> QED
    BY <3>4, <3>6 DEF SpareOk
<2> QED
  BY <2>5, <2>6, <2>7 DEF CardPath
<1>12. CleanOk(s)'
<2> SUFFICES ASSUME Clean(s)'
             PROVE  CleanOk(s)'
  BY DEF CleanOk
<2>1. refused'[s] + lost'[s] = 0
  BY DEF Clean
<2>2. \/ Went(s, n, ok) /\ Cards(s)' = Cards(s) \union {n}
      \/ TurnsDown(s, fails) /\ Cards(s)' = Cards(s) /\ withFile
  BY <1>3, <1>4, <2>1 DEF CardGoes, Refuses, Loses
<2>3. Clean(s)
  BY <2>1, <2>2 DEF Went, TurnsDown, Clean
<2>4. ts = None /\ Cards(s) = {} /\ at \in {"fired", "posting", "posting plain"}
  BY <1>2, <1>4, <1>5, <2>3 DEF ShotInv, RowOk, CleanOk, CardPath
<2>5. CASE Went(s, n, ok) /\ Cards(s)' = Cards(s) \union {n}
  <3>1. pc'[s] \in {"announced", "answered", "image"} /\ got'[s] # None /\ Cards(s)' = {got'[s]}
    BY <1>6, <2>4, <2>5 DEF Went, CardPath
  <3> QED
    BY <3>1 DEF CleanOk
<2>6. CASE TurnsDown(s, fails) /\ Cards(s)' = Cards(s) /\ withFile
  <3>1. pc'[s] = "posting plain" /\ Cards(s)' = {}
    BY <2>4, <2>6 DEF TurnsDown, CardPath
  <3> QED
    BY <1>6, <2>4, <3>1 DEF CleanOk
<2> QED
  BY <2>2, <2>5, <2>6
<1>13. DueOk(s)'
  BY <1>2, <1>4, <1>6, <1>7 DEF ShotInv, RowOk, DueOk, CardPath, Early, Closing
<1> QED
  BY <1>2, <1>7, <1>8, <1>9, <1>10, <1>11, <1>12, <1>13, ShotSettles DEF ShotInv, Hangs

EditPath(at, ok, fails, withFile) ==
  \/ at = "resolved" /\ ok = "replay" /\ fails = "afresh" /\ ~ withFile
  \/ at = "updating" /\ ok = "answered" /\ fails = "updating plain"
  \/ at = "updating" /\ ok = "answered" /\ fails = "posting" /\ ~ withFile
  \/ at = "updating plain" /\ ok = "image" /\ fails = "posting" /\ ~ withFile

LEMMA EditStep ==
  ASSUME SlackInv, NEW s \in Shot, NEW at, NEW withFile, NEW plot \in BOOLEAN, NEW ok, NEW fails,
         Calls(s, at, withFile, Edit(TsOf(s), Row(s).outcome, plot), TsOf(s), ok, fails),
         EditPath(at, ok, fails, withFile)
  PROVE  SlackInv'
<1>1. at \in Label \ Over /\ ok \in Label \ {"new"} /\ fails \in Label \ {"new"}
  BY DEF EditPath, Label, Over
<1>2. pc[s] = at
  BY DEF Calls
<1>3. /\ ShotInv(s) /\ refused[s] \in Nat /\ lost[s] \in Nat
      /\ config \in Setting /\ Row(s).png \in BOOLEAN /\ None \notin Nat
  BY <1>1, <1>2, Standing, Parameters DEF Over
<1>4. PICK ts, o : ts = TsOf(s) /\ o = Row(s).outcome
  OBVIOUS
<1>5. ts # None /\ ts \in Cards(s) /\ o \in Outcome
  BY <1>2, <1>3, <1>4 DEF ShotInv, RowOk, StampsOk, EditPath, Late, Closing
<1>6. /\ TypeInv' /\ Apart(s) /\ Holds(s) /\ Hangs(s)
      /\ Cards(s)' = Cards(s) /\ EditGoes(s, ts, ok, fails, withFile) /\ Spare(s) \in Int
  BY <1>1, <1>4, <1>5, EditCall
<1>7. /\ TsOf(s)' = ts /\ Row(s)' = Row(s) /\ due'[s] = due[s] /\ config' = config
      /\ (Completes' <=> Completes) /\ (Tells(TsOf(s))' <=> Tells(ts)')
  BY <1>4, <1>6 DEF Holds, TsOf, Row, Tells
<1>8. pc'[s] \in {ok, fails} /\ pc'[s] # "new"
  BY <1>1, <1>6 DEF EditGoes, Went, Refuses, Loses, TurnsDown
<1>9. RowOk(s)'
  BY <1>2, <1>3, <1>4, <1>5, <1>7, <1>8
  DEF ShotInv, RowOk, EditPath, Early, Late, Closing, Outcome
<1>10. StampsOk(s)'
<2>1. got'[s] # None => got'[s] = ts /\ Tells(ts)'
  BY <1>6 DEF EditGoes, Went, Refuses, Loses, TurnsDown
<2>2. pc'[s] # "threaded" /\ ~ Row(s)'.posted
  BY <1>2, <1>3, <1>7, <1>8 DEF EditPath, ShotInv, RowOk
<2>3. TsOf(s)' \in Cards(s)'
  BY <1>5, <1>6, <1>7
<2>4. got'[s] # None => Tells(got[s])'
  BY <2>1 DEF Tells
<2> QED
  BY <1>5, <1>6, <2>1, <2>2, <2>3, <2>4 DEF StampsOk
<1>11. TellsOk(s)'
<2>1. \/ pc'[s] = ok /\ Tells(ts)'
      \/ pc'[s] = fails /\ Tells(ts)'
      \/ pc'[s] = fails /\ refused'[s] = refused[s] + 1 /\ (Tells(ts)' <=> Tells(ts))
      \/ pc'[s] = fails /\ refused'[s] = refused[s] /\ (Tells(ts)' <=> Tells(ts)) /\ withFile
  BY <1>6 DEF EditGoes, Went, Refuses, Loses, TurnsDown
<2>2. CASE Tells(ts)'
  BY <1>7, <2>2 DEF TellsOk
<2>3. CASE at = "resolved" /\ ~ Tells(ts)'
  <3>1. pc'[s] = "afresh" /\ refused'[s] >= 1
    BY <1>3, <2>1, <2>3 DEF EditPath
  <3> QED
    BY <3>1 DEF TellsOk
<2>4. CASE at \in {"updating", "updating plain"} /\ ~ Tells(ts)'
  <3>1. Tells(ts) \/ refused[s] >= 1
    BY <1>2, <1>3, <1>4, <1>5, <2>4 DEF ShotInv, TellsOk
  <3>2. \/ pc'[s] \in {"updating plain", "posting"} /\ refused'[s] >= 2
        \/ pc'[s] = "updating plain" /\ refused'[s] >= 1
  <4>0. PICK r \in Nat : r = refused[s]
    BY <1>3
  <4>1. \/ pc'[s] = fails /\ refused'[s] = r + 1 /\ r >= 1
        \/ pc'[s] = fails /\ refused'[s] = r /\ r >= 1 /\ withFile
    BY <2>1, <2>4, <3>1, <4>0, Zenon
  <4>2. fails \in {"updating plain", "posting"} /\ (withFile => fails = "updating plain")
    BY <2>4 DEF EditPath
  <4>3. CASE pc'[s] = fails /\ refused'[s] = r + 1 /\ r >= 1
  <5>1. refused'[s] >= 2
    BY <4>0, <4>3
  <5> QED
    BY <4>2, <4>3, <5>1
  <4>4. CASE pc'[s] = fails /\ refused'[s] = r /\ r >= 1 /\ withFile
    BY <4>2, <4>4
  <4> QED
    BY <4>1, <4>3, <4>4
  <3>3. refused'[s] \in Nat
    BY <1>3, <1>6 DEF EditGoes, Went, Refuses, Loses, TurnsDown
  <3>4. refused'[s] >= 2 => refused'[s] >= 1
    BY <3>3
  <3> QED
    BY <3>2, <3>4 DEF TellsOk
<2> QED
  BY <2>2, <2>3, <2>4 DEF EditPath
<1>12. SpareOk(s)'
<2>1. PICK x \in Int : x = Spare(s)
  BY <1>6
<2>2. x >= 0
  BY <1>2, <1>3, <2>1 DEF ShotInv, SpareOk, Needs, EditPath
<2>3. \/ pc'[s] = ok /\ Spare(s)' = x
      \/ pc'[s] = fails /\ Spare(s)' = x + 1
      \/ pc'[s] = fails /\ Spare(s)' = x + 2
      \/ pc'[s] = fails /\ Spare(s)' = x /\ withFile
  BY <1>6, <2>1 DEF EditGoes, Went, Refuses, Loses, TurnsDown
<2>4. PICK k : k = Needs(s)'
  OBVIOUS
<2>5. k = IF pc'[s] \in {"afresh", "posting"} THEN 1 ELSE 0
  BY <1>5, <1>7, <1>8, <2>4 DEF Needs, EditPath
<2>6. (pc'[s] = ok => k = 0) /\ (withFile => k = 0) /\ k \in {0, 1}
  BY <1>8, <2>5 DEF EditPath
<2>7. Spare(s)' >= k
  BY <2>2, <2>3, <2>6
<2> QED
  BY <2>4, <2>7 DEF SpareOk
<1>13. CleanOk(s)'
<2> SUFFICES ASSUME Clean(s)'
             PROVE  CleanOk(s)'
  BY DEF CleanOk
<2>1. refused'[s] + lost'[s] = 0
  BY DEF Clean
<2>2. Went(s, ts, ok) \/ (TurnsDown(s, fails) /\ withFile)
  BY <1>3, <1>6, <2>1 DEF EditGoes, Refuses, Loses
<2>3. Clean(s)
  BY <2>1, <2>2 DEF Went, TurnsDown, Clean
<2>4. Cards(s)' = {ts}
  BY <1>2, <1>3, <1>4, <1>5, <1>6, <2>3 DEF ShotInv, CleanOk, EditPath
<2>5. CASE Went(s, ts, ok)
  <3>1. got'[s] = ts /\ pc'[s] \in {"replay", "answered", "image"}
    BY <2>5 DEF Went, EditPath
  <3> QED
    BY <1>5, <1>7, <2>4, <3>1 DEF CleanOk
<2>6. CASE TurnsDown(s, fails) /\ withFile
  <3>1. pc'[s] = "updating plain"
    BY <2>6 DEF TurnsDown, EditPath
  <3> QED
    BY <1>5, <1>7, <2>4, <3>1 DEF CleanOk
<2> QED
  BY <2>2, <2>5, <2>6
<1>14. DueOk(s)'
  BY <1>2, <1>3, <1>7, <1>8 DEF ShotInv, RowOk, DueOk, EditPath, Early, Closing
<1> QED
  BY <1>6, <1>8, <1>9, <1>10, <1>11, <1>12, <1>13, <1>14, ShotSettles DEF ShotInv, Hangs

-----------------------------------------------------------------------------
(***************************************************************************)
(* The other steps of a shot                                               *)
(***************************************************************************)

\* Nothing is said, or something that is no card.
Speaks(s) ==
  /\ ChannelApart(s) /\ Hangs(s) /\ Cards(s)' = Cards(s)
  /\ \A m \in 1 .. Len(channel) :
       m \in 1 .. Len(channel') /\ channel'[m] = channel[m] /\ (Tells(m)' <=> Tells(m))

LEMMA SilentSpeaks ==
  ASSUME SlackInv, NEW s, channel' = channel
  PROVE  Speaks(s)
  BY SilentApart, Unchanging DEF Speaks, SlackInv, Tells

LEMMA LooseSpeaks ==
  ASSUME SlackInv, NEW s, NEW m \in MessageType, channel' = Post(m), m.shot = s,
         m.kind # "card", m.kind \in {"reply", "raw"} => m.under \in Cards(s)
  PROVE  Speaks(s) /\ Said(m)
<1>1. channel \in Seq(MessageType) /\ Len(channel) \in Nat
  BY DEF SlackInv, TypeInv, DataPart
<1>2. Said(m)
  BY <1>1, PostSays
<1>3. ChannelApart(s) /\ Cards(s)' = Cards(s)
  BY <1>1, <1>2, SaidApart, SaidCards DEF SlackInv
<1>4. \A i \in 1 .. Len(channel) :
        i \in 1 .. Len(channel') /\ channel'[i] = channel[i] /\ (Tells(i)' <=> Tells(i))
  BY <1>1, <1>2 DEF Said, Tells
<1>5. Hangs(s)
<2> SUFFICES ASSUME NEW i \in 1 .. Len(channel'), channel'[i].shot = s,
                    channel'[i].kind \in {"reply", "raw"}
             PROVE  channel'[i].under \in Cards(s)'
  BY DEF Hangs
<2>1. CASE i = Len(channel) + 1
  BY <1>2, <1>3, <2>1 DEF Said
<2>2. CASE i \in 1 .. Len(channel)
  BY <1>3, <1>4, <2>2 DEF SlackInv, HangsPart
<2> QED
  BY <1>1, <1>2, <2>1, <2>2 DEF Said
<1> QED
  BY <1>2, <1>3, <1>4, <1>5 DEF Speaks

\* Only row s of the ledger changes.
RowsKept(s) ==
  /\ ledger' \in Seq(RowType) /\ Len(ledger') = Len(ledger)
  /\ \A t \in 1 .. Len(ledger) : t # s => ledger'[t] = ledger[t]

LEMMA RowChange ==
  ASSUME SlackInv, NEW s \in 1 .. Len(ledger), NEW row \in RowType,
         ledger' = [ledger EXCEPT ![s] = row]
  PROVE  RowsKept(s) /\ ledger'[s] = row
  BY ExceptSeq DEF RowsKept, SlackInv, TypeInv, DataPart

\* What every step of a shot that is not a call has in common.
LEMMA PrivateStep ==
  ASSUME SlackInv, NEW s \in Shot, pc[s] \notin Over, NEW to \in Label \ {"new"}, Goes(s, to),
         Speaks(s), RowsKept(s),
         due' \in [Shot -> BOOLEAN], \A t \in Shot : t # s => due'[t] = due[t],
         file' \in [Shot -> BOOLEAN],
         got' \in [Shot -> Nat \union {None}], \A t \in Shot : t # s => got'[t] = got[t],
         askedOn' \in [Shot -> Nat], UNCHANGED <<config, inline, today, refused, lost>>
  PROVE  /\ TypeInv' /\ Apart(s) /\ pc'[s] = to
         /\ (Completes' <=> Completes) /\ (Clean(s)' <=> Clean(s)) /\ Spare(s)' = Spare(s)
<1>1. DataPart'
  BY DEF SlackInv, TypeInv, DataPart, Goes, Speaks, ChannelApart, RowsKept
<1>2. pc'[s] = to /\ \A t \in Shot : t # s => pc'[t] = pc[t]
  BY DEF SlackInv, TypeInv, DataPart, Goes
<1>3. PlacePart'
  BY <1>2 DEF SlackInv, TypeInv, PlacePart, RowsKept, Over
<1>4. Apart(s)
  BY <1>2 DEF Apart, RowsKept, Speaks, ChannelApart
<1>5. (Completes' <=> Completes) /\ (Clean(s)' <=> Clean(s)) /\ Spare(s)' = Spare(s)
  BY DEF Completes, Clean, Spare, Speaks
<1> QED
  BY <1>1, <1>2, <1>3, <1>4, <1>5 DEF TypeInv

LEMMA StoreSentStep ==
  ASSUME SlackInv, NEW s \in Shot, StoreSent(s)
  PROVE  SlackInv'
<1>0. PICK row : row = [Row(s) EXCEPT !.ts = IF got[s] = None THEN @ ELSE got[s]]
  OBVIOUS
<1>1. pc[s] = "announced" /\ KeepTs(s) /\ Goes(s, "waiting")
      /\ UNCHANGED <<config, inline, today, due, file, got, channel, refused, lost, askedOn>>
  BY DEF StoreSent, history
<1>2. /\ s \in 1 .. Len(ledger) /\ ShotInv(s) /\ Row(s) \in RowType
      /\ got[s] \in Nat \union {None} /\ refused[s] \in Nat /\ lost[s] \in Nat
      /\ config \in Setting /\ None \notin Nat
  BY <1>1, Standing, Parameters
<1>3. row \in RowType /\ ledger' = [ledger EXCEPT ![s] = row]
  BY <1>0, <1>1, <1>2 DEF KeepTs, Row, RowType, SlackInv, TypeInv, DataPart
<1>4. RowsKept(s) /\ ledger'[s] = row
  BY <1>2, <1>3, RowChange
<1>5. Speaks(s)
  BY <1>1, SilentSpeaks
<1>6. /\ TypeInv' /\ Apart(s) /\ pc'[s] = "waiting"
      /\ (Completes' <=> Completes) /\ (Clean(s)' <=> Clean(s)) /\ Spare(s)' = Spare(s)
  BY <1>1, <1>4, <1>5, PrivateStep DEF Over, Label, SlackInv, TypeInv, DataPart
<1>7. /\ TsOf(s) = None /\ TsOf(s)' = got[s] /\ got'[s] = got[s] /\ Cards(s)' = Cards(s)
      /\ Row(s)'.outcome = None /\ ~ Row(s)'.png /\ ~ Row(s)'.posted /\ config' = config
      /\ config.mode # "single"
  BY <1>0, <1>1, <1>2, <1>4, <1>5
  DEF TsOf, Row, RowType, ShotInv, RowOk, Early, Speaks
<1>8. RowOk(s)'
  BY <1>2, <1>6, <1>7, Parameters DEF RowOk, Early, Late, Closing
<1>9. StampsOk(s)'
  BY <1>1, <1>2, <1>6, <1>7 DEF StampsOk, ShotInv
<1>10. TellsOk(s)'
  BY <1>6 DEF TellsOk
<1>11. SpareOk(s)'
  BY <1>1, <1>2, <1>6, <1>7 DEF SpareOk, Needs, ShotInv
<1>12. CleanOk(s)' /\ DueOk(s)'
  BY <1>1, <1>2, <1>6, <1>7 DEF CleanOk, ShotInv, DueOk, Closing
<1> QED
  BY <1>5, <1>6, <1>8, <1>9, <1>10, <1>11, <1>12, ShotSettles DEF ShotInv, Speaks, Hangs

LEMMA ReconcileStep ==
  ASSUME SlackInv, NEW s \in Shot, Reconcile(s)
  PROVE  SlackInv'
<1>0. PICK outcome \in Outcome :
        /\ ledger' = [ledger EXCEPT ![s].outcome = outcome]
        /\ pc[s] = "waiting"
        /\ Goes(s, IF config.mode = "single" THEN "replay"
                   ELSE IF TsOf(s) = None THEN "afresh" ELSE "resolved")
        /\ UNCHANGED <<config, inline, today, due, file, got, channel, refused, lost, askedOn>>
  BY DEF Reconcile, history, Outcome
<1>1. PICK row, to :
        /\ row = [Row(s) EXCEPT !.outcome = outcome]
        /\ to = IF config.mode = "single" THEN "replay"
                ELSE IF TsOf(s) = None THEN "afresh" ELSE "resolved"
  OBVIOUS
<1>2. /\ s \in 1 .. Len(ledger) /\ ShotInv(s) /\ Row(s) \in RowType
      /\ refused[s] \in Nat /\ lost[s] \in Nat /\ config \in Setting
  BY <1>0, Standing
<1>3. row \in RowType /\ ledger' = [ledger EXCEPT ![s] = row]
  BY <1>0, <1>1, <1>2 DEF Row, RowType, Outcome, SlackInv, TypeInv, DataPart
<1>4. RowsKept(s) /\ ledger'[s] = row
  BY <1>2, <1>3, RowChange
<1>5. Speaks(s)
  BY <1>0, SilentSpeaks
<1>6. /\ TypeInv' /\ Apart(s) /\ pc'[s] = to /\ to # "new"
      /\ (Completes' <=> Completes) /\ (Clean(s)' <=> Clean(s)) /\ Spare(s)' = Spare(s)
  BY <1>0, <1>1, <1>4, <1>5, PrivateStep DEF Over, Label, SlackInv, TypeInv, DataPart
<1>7. /\ TsOf(s)' = TsOf(s) /\ got'[s] = got[s] /\ Cards(s)' = Cards(s)
      /\ Row(s)'.outcome = outcome /\ ~ Row(s)'.png /\ ~ Row(s)'.posted /\ config' = config
  BY <1>0, <1>1, <1>2, <1>4, <1>5 DEF TsOf, Row, RowType, ShotInv, RowOk, Early, Speaks
<1>8. RowOk(s)'
  BY <1>0, <1>1, <1>2, <1>6, <1>7, Parameters
  DEF ShotInv, RowOk, Early, Late, Closing, Outcome
<1>9. StampsOk(s)'
  BY <1>0, <1>1, <1>2, <1>6, <1>7 DEF StampsOk, ShotInv
<1>10. TellsOk(s)'
  BY <1>0, <1>1, <1>2, <1>6, <1>7 DEF TellsOk, ShotInv, RowOk
<1>11. SpareOk(s)'
<2>1. /\ config.mode = "single" => TsOf(s) = None /\ to = "replay"
      /\ config.mode # "single" /\ TsOf(s) = None => to = "afresh"
      /\ config.mode # "single" /\ TsOf(s) # None => to = "resolved"
  BY <1>0, <1>1, <1>2 DEF ShotInv, RowOk
<2>2. /\ Needs(s) = IF TsOf(s) # None THEN 0 ELSE IF config.mode = "single" THEN 1 ELSE 2
      /\ Needs(s)' = CASE to = "replay" -> IF TsOf(s) # None THEN 0 ELSE 1
                       [] to = "afresh" -> IF TsOf(s) # None THEN 1 ELSE 2
                       [] to = "resolved" -> 0
  BY <1>0, <1>6, <1>7, <2>1 DEF Needs
<2>3. Needs(s)' = Needs(s)
  BY <2>1, <2>2
<2> QED
  BY <1>2, <1>6, <2>3 DEF SpareOk, ShotInv
<1>12. CleanOk(s)'
  BY <1>0, <1>1, <1>2, <1>6, <1>7 DEF CleanOk, ShotInv
<1>13. DueOk(s)'
  BY <1>7 DEF DueOk
<1> QED
  BY <1>5, <1>6, <1>8, <1>9, <1>10, <1>11, <1>12, <1>13, ShotSettles DEF ShotInv, Speaks, Hangs

\* Where do_replay goes on to complete the card.
LEMMA CompletesTo ==
  ASSUME SlackInv, NEW s \in Shot, pc[s] \in {"replay", "uploading"}, Completes
  PROVE  \/ TsOf(s) # None /\ CompletesBy(s) = "updating" /\ config.mode = "sent_then_update"
         \/ TsOf(s) = None /\ CompletesBy(s) = "posting"
<1>1. ShotInv(s) /\ config \in Setting
  BY Standing
<1> QED
  BY <1>1 DEF CompletesBy, InPlace, Completes, ShotInv, RowOk, Closing, Setting, Mode

LEMMA NoReplayStep ==
  ASSUME SlackInv, NEW s \in Shot, NoReplay(s)
  PROVE  SlackInv'
<1>0. /\ pc[s] = "replay" /\ ledger' = ledger
      /\ got' = [got EXCEPT ![s] = None]
      /\ askedOn' = [askedOn EXCEPT ![s] = today]
      /\ UNCHANGED <<config, inline, today, ledger, due, file, channel, refused, lost>>
  BY DEF NoReplay
<1>1. PICK to : Goes(s, to) /\ to = IF Completes THEN CompletesBy(s) ELSE "done"
  BY DEF NoReplay
<1>2. /\ s \in 1 .. Len(ledger) /\ ShotInv(s) /\ Row(s) \in RowType
      /\ refused[s] \in Nat /\ lost[s] \in Nat /\ config \in Setting
  BY <1>0, Standing
<1>3. \/ Completes /\ TsOf(s) # None /\ to = "updating" /\ config.mode = "sent_then_update"
      \/ Completes /\ TsOf(s) = None /\ to = "posting"
      \/ ~ Completes /\ to = "done"
  BY <1>0, <1>1, CompletesTo
<1>4. RowsKept(s)
  BY <1>0 DEF RowsKept, SlackInv, TypeInv, DataPart
<1>5. Speaks(s)
  BY <1>0, SilentSpeaks
<1>6. /\ TypeInv' /\ Apart(s) /\ pc'[s] = to /\ to # "new"
      /\ (Completes' <=> Completes) /\ (Clean(s)' <=> Clean(s)) /\ Spare(s)' = Spare(s)
<2>1. to \in Label \ {"new"} /\ pc[s] \notin Over
  BY <1>0, <1>3 DEF Label, Over
<2>2. /\ due' \in [Shot -> BOOLEAN] /\ file' \in [Shot -> BOOLEAN]
      /\ got' \in [Shot -> Nat \union {None}] /\ askedOn' \in [Shot -> Nat]
      /\ \A t \in Shot : t # s => due'[t] = due[t] /\ got'[t] = got[t]
  BY <1>0 DEF SlackInv, TypeInv, DataPart
<2> QED
  BY <1>0, <1>1, <1>4, <1>5, <2>1, <2>2, PrivateStep
<1>7. /\ TsOf(s)' = TsOf(s) /\ Row(s)' = Row(s) /\ got'[s] = None /\ Cards(s)' = Cards(s)
      /\ config' = config /\ ~ Row(s).png /\ ~ Row(s).posted /\ Row(s).outcome \in Outcome
      /\ (Tells(TsOf(s))' <=> Tells(TsOf(s))) /\ refused'[s] = refused[s]
  BY <1>0, <1>2, <1>5
  DEF TsOf, Row, ShotInv, RowOk, Early, Late, Speaks, SlackInv, TypeInv, DataPart, Tells
<1>8. RowOk(s)'
  BY <1>0, <1>2, <1>3, <1>6, <1>7, Parameters
  DEF ShotInv, RowOk, Early, Late, Closing, Outcome, Completes
<1>9. StampsOk(s)'
  BY <1>0, <1>2, <1>6, <1>7 DEF StampsOk, ShotInv
<1>10. TellsOk(s)'
  BY <1>0, <1>2, <1>3, <1>6, <1>7 DEF TellsOk, ShotInv
<1>11. SpareOk(s)'
<2>1. Needs(s)' = Needs(s) \/ (Needs(s)' = 0 /\ Needs(s) \in {0, 1})
  BY <1>0, <1>2, <1>3, <1>6, <1>7 DEF Needs
<2>2. Spare(s) \in Int
  BY <1>2, CardsAre DEF Spare, SlackInv, TypeInv, DataPart
<2> QED
  BY <1>2, <1>6, <2>1, <2>2 DEF SpareOk, ShotInv
<1>12. CleanOk(s)'
  BY <1>0, <1>2, <1>3, <1>6, <1>7 DEF CleanOk, ShotInv, Completes
<1>13. DueOk(s)'
  BY <1>7 DEF DueOk
<1> QED
  BY <1>5, <1>6, <1>8, <1>9, <1>10, <1>11, <1>12, <1>13, ShotSettles DEF ShotInv, Speaks, Hangs

LEMMA ReplayStep ==
  ASSUME SlackInv, NEW s \in Shot, Replay(s)
  PROVE  SlackInv'
<1>0. /\ pc[s] = "replay" /\ due' = [due EXCEPT ![s] = Completes]
      /\ got' = [got EXCEPT ![s] = None] /\ askedOn' = [askedOn EXCEPT ![s] = today]
      /\ UNCHANGED <<config, inline, today, file, channel, refused, lost>>
  BY DEF Replay
<1>1. PICK png, to :
        /\ png \in BOOLEAN /\ ledger' = [ledger EXCEPT ![s].png = png] /\ Goes(s, to)
        /\ to = CASE Completes /\ png      -> "uploading"
                  [] Completes /\ ~ png    -> CompletesBy(s)
                  [] ~ Completes /\ png /\ Under(s) -> "threading"
                  [] OTHER -> "done"
  BY DEF Replay
<1>2. /\ s \in 1 .. Len(ledger) /\ ShotInv(s) /\ Row(s) \in RowType
      /\ refused[s] \in Nat /\ lost[s] \in Nat /\ config \in Setting
  BY <1>0, Standing
<1>3. \/ Completes /\ png /\ to = "uploading"
      \/ Completes /\ TsOf(s) # None /\ to = "updating" /\ config.mode = "sent_then_update"
      \/ Completes /\ TsOf(s) = None /\ to = "posting"
      \/ ~ Completes /\ TsOf(s) # None /\ to = "threading"
      \/ ~ Completes /\ (png => TsOf(s) = None) /\ to = "done"
  BY <1>0, <1>1, CompletesTo DEF Under
<1>4. RowsKept(s) /\ TsOf(s)' = TsOf(s) /\ Row(s)'.outcome = Row(s).outcome
      /\ Row(s)'.png = png /\ Row(s)'.posted = Row(s).posted
<2>1. PICK row : row = [Row(s) EXCEPT !.png = png]
  OBVIOUS
<2>2. row \in RowType /\ ledger' = [ledger EXCEPT ![s] = row]
  BY <1>1, <1>2, <2>1 DEF Row, RowType, SlackInv, TypeInv, DataPart
<2>3. RowsKept(s) /\ ledger'[s] = row
  BY <1>2, <2>2, RowChange
<2> QED
  BY <1>2, <2>1, <2>3 DEF Row, RowType, TsOf
<1>5. Speaks(s)
  BY <1>0, SilentSpeaks
<1>6. /\ TypeInv' /\ Apart(s) /\ pc'[s] = to /\ to # "new"
      /\ (Completes' <=> Completes) /\ (Clean(s)' <=> Clean(s)) /\ Spare(s)' = Spare(s)
<2>1. to \in Label \ {"new"} /\ pc[s] \notin Over
  BY <1>0, <1>3 DEF Label, Over
<2>2. /\ due' \in [Shot -> BOOLEAN] /\ file' \in [Shot -> BOOLEAN]
      /\ got' \in [Shot -> Nat \union {None}] /\ askedOn' \in [Shot -> Nat]
      /\ \A t \in Shot : t # s => due'[t] = due[t] /\ got'[t] = got[t]
  BY <1>0 DEF SlackInv, TypeInv, DataPart, Completes
<2> QED
  BY <1>0, <1>1, <1>4, <1>5, <2>1, <2>2, PrivateStep
<1>7. /\ got'[s] = None /\ Cards(s)' = Cards(s) /\ config' = config /\ due'[s] = Completes
      /\ ~ Row(s)'.posted /\ Row(s)'.outcome \in Outcome
      /\ (Tells(TsOf(s))' <=> Tells(TsOf(s))) /\ refused'[s] = refused[s]
<2>1. got'[s] = None /\ due'[s] = Completes
  BY <1>0 DEF SlackInv, TypeInv, DataPart
<2>2. ~ Row(s).posted /\ Row(s).outcome \in Outcome
  BY <1>0, <1>2 DEF ShotInv, RowOk, Early, Late
<2> QED
  BY <1>0, <1>4, <1>5, <2>1, <2>2 DEF Speaks, Tells
<1>8. RowOk(s)'
  BY <1>0, <1>2, <1>3, <1>4, <1>6, <1>7, Parameters
  DEF ShotInv, RowOk, Early, Late, Closing, Outcome, Completes
<1>9. StampsOk(s)'
  BY <1>0, <1>2, <1>4, <1>6, <1>7 DEF StampsOk, ShotInv
<1>10. TellsOk(s)'
  BY <1>0, <1>2, <1>3, <1>4, <1>6, <1>7 DEF TellsOk, ShotInv
<1>11. SpareOk(s)'
<2>1. Needs(s)' = Needs(s) \/ (Needs(s)' = 0 /\ Needs(s) \in {0, 1})
  BY <1>0, <1>2, <1>3, <1>4, <1>6 DEF Needs
<2>2. Spare(s) \in Int
  BY <1>2, CardsAre DEF Spare, SlackInv, TypeInv, DataPart
<2> QED
  BY <1>2, <1>6, <2>1, <2>2 DEF SpareOk, ShotInv
<1>12. CleanOk(s)'
  BY <1>0, <1>2, <1>3, <1>4, <1>6, <1>7 DEF CleanOk, ShotInv, Completes
<1>13. DueOk(s)'
<2>1. pc'[s] \in Closing => Completes
  BY <1>3, <1>6 DEF Closing
<2>2. Clean(s)' /\ ~ Completes => TsOf(s) # None
  BY <1>0, <1>2, <1>6 DEF ShotInv, CleanOk, Completes
<2>3. png /\ pc'[s] \in {"raw", "done"} => ~ Clean(s)'
  BY <1>3, <1>6, <2>2
<2> QED
  BY <1>4, <1>7, <2>1, <2>3 DEF DueOk
<1> QED
  BY <1>5, <1>6, <1>8, <1>9, <1>10, <1>11, <1>12, <1>13, ShotSettles DEF ShotInv, Speaks, Hangs

LEMMA UploadStep ==
  ASSUME SlackInv, NEW s \in Shot, Upload(s)
  PROVE  SlackInv'
<1>0. /\ pc[s] = "uploading" /\ Goes(s, CompletesBy(s))
      /\ UNCHANGED <<config, inline, today, ledger, due, got, channel, refused, lost, askedOn>>
  BY DEF Upload, history
<1>1. PICK to : to = CompletesBy(s)
  OBVIOUS
<1>2. /\ s \in 1 .. Len(ledger) /\ ShotInv(s) /\ Row(s) \in RowType
      /\ refused[s] \in Nat /\ lost[s] \in Nat /\ config \in Setting
  BY <1>0, Standing
<1>3. /\ Completes
      /\ \/ TsOf(s) # None /\ to = "updating" /\ config.mode = "sent_then_update"
         \/ TsOf(s) = None /\ to = "posting"
<2>1. Completes
  BY <1>0, <1>2 DEF ShotInv, RowOk, Closing
<2> QED
  BY <1>0, <1>1, <2>1, CompletesTo
<1>4. RowsKept(s)
  BY <1>0 DEF RowsKept, SlackInv, TypeInv, DataPart
<1>5. Speaks(s)
  BY <1>0, SilentSpeaks
<1>6. /\ TypeInv' /\ Apart(s) /\ pc'[s] = to /\ to # "new"
      /\ (Completes' <=> Completes) /\ (Clean(s)' <=> Clean(s)) /\ Spare(s)' = Spare(s)
<2>1. to \in Label \ {"new"} /\ pc[s] \notin Over
  BY <1>0, <1>3 DEF Label, Over
<2>2. file' \in [Shot -> BOOLEAN]
  BY DEF Upload, SlackInv, TypeInv, DataPart
<2>3. /\ due' \in [Shot -> BOOLEAN]
      /\ got' \in [Shot -> Nat \union {None}] /\ askedOn' \in [Shot -> Nat]
  BY <1>0 DEF SlackInv, TypeInv, DataPart
<2> QED
  BY <1>0, <1>1, <1>4, <1>5, <2>1, <2>2, <2>3, PrivateStep
<1>7. /\ TsOf(s)' = TsOf(s) /\ Row(s)' = Row(s) /\ got'[s] = got[s] /\ Cards(s)' = Cards(s)
      /\ config' = config /\ due'[s] = due[s]
      /\ (Tells(TsOf(s))' <=> Tells(TsOf(s))) /\ refused'[s] = refused[s]
  BY <1>0, <1>5 DEF TsOf, Row, Speaks, Tells
<1>8. RowOk(s)'
  BY <1>0, <1>2, <1>3, <1>6, <1>7, Parameters DEF ShotInv, RowOk, Early, Late, Closing
<1>9. StampsOk(s)'
  BY <1>0, <1>2, <1>3, <1>6, <1>7 DEF StampsOk, ShotInv, RowOk
<1>10. TellsOk(s)'
  BY <1>0, <1>2, <1>3, <1>6, <1>7 DEF TellsOk, ShotInv
<1>11. SpareOk(s)'
<2>1. Needs(s)' = Needs(s)
  BY <1>0, <1>3, <1>6, <1>7 DEF Needs
<2> QED
  BY <1>2, <1>6, <2>1 DEF SpareOk, ShotInv
<1>12. CleanOk(s)'
  BY <1>0, <1>2, <1>3, <1>6, <1>7 DEF CleanOk, ShotInv
<1>13. DueOk(s)'
  BY <1>0, <1>2, <1>3, <1>6, <1>7 DEF DueOk, ShotInv, Closing
<1> QED
  BY <1>5, <1>6, <1>8, <1>9, <1>10, <1>11, <1>12, <1>13, ShotSettles DEF ShotInv, Speaks, Hangs

LEMMA PostImageStep ==
  ASSUME SlackInv, NEW s \in Shot, PostImage(s)
  PROVE  SlackInv'
<1>0. /\ pc[s] = "image" /\ Goes(s, "answered")
      /\ UNCHANGED <<config, inline, today, ledger, due, file, got, refused, lost, askedOn>>
  BY DEF PostImage, history
<1>1. channel' \in {channel, Post(Message(s, "image", None, TRUE, None))}
  BY DEF PostImage
<1>2. /\ s \in 1 .. Len(ledger) /\ ShotInv(s) /\ Row(s) \in RowType
      /\ refused[s] \in Nat /\ lost[s] \in Nat /\ config \in Setting
      /\ TsOf(s) \in Nat \union {None} /\ None \notin Nat /\ None # "fire_failed"
  BY <1>0, Standing, Parameters
<1>4. RowsKept(s)
  BY <1>0 DEF RowsKept, SlackInv, TypeInv, DataPart
<1>5. Speaks(s)
<2>1. CASE channel' = channel
  BY <2>1, SilentSpeaks
<2>2. CASE channel' # channel
  <3>1. PICK m : m = Message(s, "image", None, TRUE, None)
    OBVIOUS
  <3>2. m \in MessageType /\ m.shot = s /\ m.kind = "image"
    BY <3>1 DEF Message, MessageType
  <3> QED
    BY <1>1, <2>2, <3>1, <3>2, LooseSpeaks
<2> QED
  BY <2>1, <2>2
<1>6. /\ TypeInv' /\ Apart(s) /\ pc'[s] = "answered"
      /\ (Completes' <=> Completes) /\ (Clean(s)' <=> Clean(s)) /\ Spare(s)' = Spare(s)
<2>1. "answered" \in Label \ {"new"} /\ pc[s] \notin Over
  BY <1>0 DEF Label, Over
<2>2. /\ due' \in [Shot -> BOOLEAN] /\ file' \in [Shot -> BOOLEAN]
      /\ got' \in [Shot -> Nat \union {None}] /\ askedOn' \in [Shot -> Nat]
  BY <1>0 DEF SlackInv, TypeInv, DataPart
<2> QED
  BY <1>0, <1>4, <1>5, <2>1, <2>2, PrivateStep
<1>7. /\ TsOf(s)' = TsOf(s) /\ Row(s)' = Row(s) /\ got'[s] = got[s] /\ Cards(s)' = Cards(s)
      /\ config' = config /\ due'[s] = due[s] /\ refused'[s] = refused[s]
      /\ \A m \in Cards(s) : m \in 1 .. Len(channel) /\ (Tells(m)' <=> Tells(m))
<2>1. channel \in Seq(MessageType)
  BY DEF SlackInv, TypeInv, DataPart
<2> QED
  BY <1>0, <1>5, <2>1, CardsAre DEF TsOf, Row, Speaks
<1>8. RowOk(s)'
  BY <1>0, <1>2, <1>6, <1>7, Parameters DEF ShotInv, RowOk, Early, Late, Closing, Outcome
<1>9. StampsOk(s)'
<2>1. TsOf(s)' # None => TsOf(s)' \in Cards(s)'
  BY <1>2, <1>7 DEF StampsOk, ShotInv
<2>2. /\ got'[s] # None => got'[s] \in Cards(s)'
      /\ got[s] # None /\ pc[s] = "image" => Tells(got[s])
  BY <1>0, <1>2, <1>7 DEF StampsOk, ShotInv
<2>3. got'[s] # None /\ pc'[s] \in {"image", "answered"} => Tells(got[s])'
<3>1. PICK g : g = got[s]
  OBVIOUS
<3>2. Tells(got[s])' <=> Tells(g)'
  BY <1>7, <3>1 DEF Tells
<3>3. g # None /\ pc'[s] = "answered" => g \in Cards(s) /\ Tells(g)
  BY <1>0, <1>6, <1>7, <2>2, <3>1
<3> QED
  BY <1>6, <1>7, <3>1, <3>2, <3>3
<2>4. Row(s)'.posted =>
        \E m \in 1 .. Len(channel') : channel'[m].shot = s /\ (Tells(m)' \/ channel'[m].plot)
<3>1. Row(s).posted =>
        \E m \in 1 .. Len(channel) : channel[m].shot = s /\ (Tells(m) \/ channel[m].plot)
  BY <1>2 DEF StampsOk, ShotInv
<3> QED
  BY <1>5, <1>7, <3>1 DEF Speaks
<2> QED
  BY <1>6, <2>1, <2>2, <2>3, <2>4 DEF StampsOk, Tells
<1>10. TellsOk(s)'
<2>1. TsOf(s) # None => (Tells(TsOf(s))' <=> Tells(TsOf(s)))
<3>1. PICK ts : ts = TsOf(s)
  OBVIOUS
<3>2. Tells(TsOf(s))' <=> Tells(ts)'
  BY <1>7, <3>1 DEF Tells
<3> QED
  BY <1>2, <1>7, <3>1, <3>2 DEF StampsOk, ShotInv
<2> QED
  BY <1>0, <1>2, <1>6, <1>7, <2>1 DEF TellsOk, ShotInv
<1>11. SpareOk(s)'
<2>1. Needs(s)' = Needs(s)
  BY <1>0, <1>6 DEF Needs
<2> QED
  BY <1>2, <1>6, <2>1 DEF SpareOk, ShotInv
<1>12. CleanOk(s)'
  BY <1>0, <1>2, <1>6, <1>7 DEF CleanOk, ShotInv
<1>13. DueOk(s)'
  BY <1>0, <1>2, <1>6, <1>7 DEF DueOk, ShotInv, Closing
<1> QED
  BY <1>5, <1>6, <1>8, <1>9, <1>10, <1>11, <1>12, <1>13, ShotSettles DEF ShotInv, Speaks, Hangs

LEMMA PostRawStep ==
  ASSUME SlackInv, NEW s \in Shot, PostRaw(s)
  PROVE  SlackInv'
<1>0. /\ pc[s] = "raw" /\ Goes(s, "done")
      /\ UNCHANGED <<config, inline, today, ledger, due, file, got, refused, lost, askedOn>>
  BY DEF PostRaw, history
<1>1. \/ channel' = channel
      \/ channel' = Post(Message(s, "raw", None, TRUE, TsOf(s))) /\ Under(s)
<2>1. PICK through \in BOOLEAN :
        channel' = IF through /\ Under(s)
                   THEN Post(Message(s, "raw", None, TRUE, TsOf(s))) ELSE channel
  BY DEF PostRaw
<2> QED
  BY <2>1
<1>2. /\ s \in 1 .. Len(ledger) /\ ShotInv(s) /\ Row(s) \in RowType
      /\ refused[s] \in Nat /\ lost[s] \in Nat /\ config \in Setting
      /\ TsOf(s) \in Nat \union {None} /\ None \notin Nat /\ None # "fire_failed"
  BY <1>0, Standing, Parameters
<1>4. RowsKept(s)
  BY <1>0 DEF RowsKept, SlackInv, TypeInv, DataPart
<1>5. Speaks(s)
<2>1. CASE channel' = channel
  BY <2>1, SilentSpeaks
<2>2. CASE channel' # channel
  <3>1. PICK m : m = Message(s, "raw", None, TRUE, TsOf(s))
    OBVIOUS
  <3>2. m \in MessageType /\ m.shot = s /\ m.kind = "raw" /\ m.under = TsOf(s)
    BY <1>2, <3>1 DEF Message, MessageType
  <3>3. TsOf(s) \in Cards(s)
    BY <1>1, <1>2, <2>2 DEF Under, StampsOk, ShotInv
  <3> QED
    BY <1>1, <2>2, <3>1, <3>2, <3>3, LooseSpeaks
<2> QED
  BY <2>1, <2>2
<1>6. /\ TypeInv' /\ Apart(s) /\ pc'[s] = "done"
      /\ (Completes' <=> Completes) /\ (Clean(s)' <=> Clean(s)) /\ Spare(s)' = Spare(s)
<2>1. "done" \in Label \ {"new"} /\ pc[s] \notin Over
  BY <1>0 DEF Label, Over
<2>2. /\ due' \in [Shot -> BOOLEAN] /\ file' \in [Shot -> BOOLEAN]
      /\ got' \in [Shot -> Nat \union {None}] /\ askedOn' \in [Shot -> Nat]
  BY <1>0 DEF SlackInv, TypeInv, DataPart
<2> QED
  BY <1>0, <1>4, <1>5, <2>1, <2>2, PrivateStep
<1>7. /\ TsOf(s)' = TsOf(s) /\ Row(s)' = Row(s) /\ got'[s] = got[s] /\ Cards(s)' = Cards(s)
      /\ config' = config /\ due'[s] = due[s] /\ refused'[s] = refused[s]
      /\ \A m \in Cards(s) : m \in 1 .. Len(channel) /\ (Tells(m)' <=> Tells(m))
<2>1. channel \in Seq(MessageType)
  BY DEF SlackInv, TypeInv, DataPart
<2> QED
  BY <1>0, <1>5, <2>1, CardsAre DEF TsOf, Row, Speaks
<1>8. RowOk(s)'
  BY <1>0, <1>2, <1>6, <1>7, Parameters DEF ShotInv, RowOk, Early, Late, Closing, Outcome
<1>9. StampsOk(s)'
<2>1. TsOf(s)' # None => TsOf(s)' \in Cards(s)'
  BY <1>2, <1>7 DEF StampsOk, ShotInv
<2>2. /\ got'[s] # None => got'[s] \in Cards(s)'
      /\ got[s] # None /\ pc[s] = "image" => Tells(got[s])
  BY <1>0, <1>2, <1>7 DEF StampsOk, ShotInv
<2>3. got'[s] # None /\ pc'[s] \in {"image", "answered"} => Tells(got[s])'
<3>1. PICK g : g = got[s]
  OBVIOUS
<3>2. Tells(got[s])' <=> Tells(g)'
  BY <1>7, <3>1 DEF Tells
<3>3. g # None /\ pc'[s] = "answered" => g \in Cards(s) /\ Tells(g)
  BY <1>0, <1>6, <1>7, <2>2, <3>1
<3> QED
  BY <1>6, <1>7, <3>1, <3>2, <3>3
<2>4. Row(s)'.posted =>
        \E m \in 1 .. Len(channel') : channel'[m].shot = s /\ (Tells(m)' \/ channel'[m].plot)
<3>1. Row(s).posted =>
        \E m \in 1 .. Len(channel) : channel[m].shot = s /\ (Tells(m) \/ channel[m].plot)
  BY <1>2 DEF StampsOk, ShotInv
<3> QED
  BY <1>5, <1>7, <3>1 DEF Speaks
<2> QED
  BY <1>6, <2>1, <2>2, <2>3, <2>4 DEF StampsOk, Tells
<1>10. TellsOk(s)'
<2>1. TsOf(s) # None => (Tells(TsOf(s))' <=> Tells(TsOf(s)))
<3>1. PICK ts : ts = TsOf(s)
  OBVIOUS
<3>2. Tells(TsOf(s))' <=> Tells(ts)'
  BY <1>7, <3>1 DEF Tells
<3> QED
  BY <1>2, <1>7, <3>1, <3>2 DEF StampsOk, ShotInv
<2> QED
  BY <1>0, <1>2, <1>6, <1>7, <2>1 DEF TellsOk, ShotInv
<1>11. SpareOk(s)'
<2>1. Needs(s)' = Needs(s)
  BY <1>0, <1>6 DEF Needs
<2> QED
  BY <1>2, <1>6, <2>1 DEF SpareOk, ShotInv
<1>12. CleanOk(s)'
  BY <1>0, <1>2, <1>6, <1>7 DEF CleanOk, ShotInv
<1>13. DueOk(s)'
  BY <1>0, <1>2, <1>6, <1>7 DEF DueOk, ShotInv, Closing
<1> QED
  BY <1>5, <1>6, <1>8, <1>9, <1>10, <1>11, <1>12, <1>13, ShotSettles DEF ShotInv, Speaks, Hangs

LEMMA StoreCardStep ==
  ASSUME SlackInv, NEW s \in Shot, StoreCard(s)
  PROVE  SlackInv'
<1>0. /\ pc[s] = "answered" /\ Forgets(s)
      /\ UNCHANGED <<config, inline, today, channel, refused, lost, askedOn>>
  BY DEF StoreCard, history
<1>1. PICK ts, posted, to :
        /\ ts = (IF got[s] = None THEN TsOf(s) ELSE got[s]) /\ posted = Posted(s)
        /\ to = (IF RawFollows(s, posted) THEN "raw" ELSE "done") /\ Goes(s, to)
  BY DEF StoreCard
<1>2. /\ s \in 1 .. Len(ledger) /\ ShotInv(s) /\ Row(s) \in RowType
      /\ got[s] \in Nat \union {None} /\ TsOf(s) \in Nat \union {None} /\ due[s] \in BOOLEAN
      /\ refused[s] \in Nat /\ lost[s] \in Nat /\ config \in Setting /\ Row(s).png \in BOOLEAN
  BY <1>0, Standing
<1>3. posted \in BOOLEAN /\ (posted <=> due[s] /\ got[s] # None) /\ to \in {"raw", "done"}
  BY <1>1, <1>2 DEF Posted
<1>4. /\ RowsKept(s) /\ TsOf(s)' = ts /\ Row(s)'.outcome = Row(s).outcome
      /\ Row(s)'.png = Row(s).png /\ Row(s)'.posted = posted
<2>1. PICK half, row : half = [Row(s) EXCEPT !.ts = IF got[s] = None THEN @ ELSE got[s]]
                       /\ row = [half EXCEPT !.posted = posted]
  OBVIOUS
<2>2. /\ half \in RowType /\ half.ts = ts /\ half.outcome = Row(s).outcome
      /\ half.png = Row(s).png
  BY <1>1, <1>2, <2>1 DEF RowType, TsOf, Row
<2>3. /\ row \in RowType /\ row.ts = ts /\ row.outcome = Row(s).outcome
      /\ row.png = Row(s).png /\ row.posted = posted
  BY <1>3, <2>1, <2>2 DEF RowType
<2>4. ledger' = [ledger EXCEPT ![s] = row]
<3>1. s \in DOMAIN ledger
  BY <1>2 DEF SlackInv, TypeInv, DataPart
<3>2. ledger' = [[ledger EXCEPT ![s] = half] EXCEPT ![s] = [half EXCEPT !.posted = posted]]
  BY <1>1, <2>1, <3>1 DEF StoreCard, Row
<3> QED
  BY <2>1, <3>1, <3>2
<2>5. RowsKept(s) /\ ledger'[s] = row
  BY <1>2, <2>3, <2>4, RowChange
<2> QED
  BY <2>3, <2>5 DEF Row, TsOf
<1>5. Speaks(s)
  BY <1>0, SilentSpeaks
<1>6. /\ TypeInv' /\ Apart(s) /\ pc'[s] = to /\ to # "new"
      /\ (Completes' <=> Completes) /\ (Clean(s)' <=> Clean(s)) /\ Spare(s)' = Spare(s)
<2>1. to \in Label \ {"new"} /\ pc[s] \notin Over
  BY <1>0, <1>3 DEF Label, Over
<2>2. /\ due' \in [Shot -> BOOLEAN] /\ file' \in [Shot -> BOOLEAN]
      /\ got' \in [Shot -> Nat \union {None}] /\ askedOn' \in [Shot -> Nat]
      /\ \A t \in Shot : t # s => due'[t] = due[t] /\ got'[t] = got[t]
  BY <1>0 DEF Forgets, SlackInv, TypeInv, DataPart
<2> QED
  BY <1>0, <1>1, <1>4, <1>5, <2>1, <2>2, PrivateStep
<1>7. /\ got'[s] = None /\ Cards(s)' = Cards(s) /\ config' = config /\ refused'[s] = refused[s]
      /\ Completes /\ Row(s).outcome \in Outcome
      /\ (Tells(TsOf(s))' <=> Tells(ts)) /\ channel' = channel
<2>1. got'[s] = None
  BY <1>0 DEF Forgets, SlackInv, TypeInv, DataPart
<2>2. Row(s).outcome \in Outcome /\ Completes
  BY <1>0, <1>2 DEF ShotInv, RowOk, Late, Closing
<2> QED
  BY <1>0, <1>4, <1>5, <2>1, <2>2 DEF Speaks, Tells
<1>8. RowOk(s)'
  BY <1>2, <1>3, <1>4, <1>6, <1>7, Parameters DEF ShotInv, RowOk, Early, Late, Closing, Outcome
<1>9. StampsOk(s)'
<2>1. ts # None => ts \in Cards(s)
  BY <1>0, <1>1, <1>2 DEF ShotInv, StampsOk
<2>2. posted => /\ got[s] \in 1 .. Len(channel) /\ channel[got[s]].shot = s
                /\ Tells(got[s])
<3>1. posted => got[s] \in Cards(s) /\ Tells(got[s])
  BY <1>0, <1>2, <1>3 DEF ShotInv, StampsOk
<3> QED
  BY <3>1, CardsAre DEF SlackInv, TypeInv, DataPart
<2>3. posted => \E m \in 1 .. Len(channel') :
                  channel'[m].shot = s /\ (Tells(m)' \/ channel'[m].plot)
  BY <1>7, <2>2 DEF Tells
<2> QED
  BY <1>4, <1>7, <2>1, <2>3 DEF StampsOk, Tells
<1>10. TellsOk(s)'
<2>1. ts # None => Tells(ts) \/ refused[s] >= 2
  BY <1>0, <1>1, <1>2 DEF ShotInv, StampsOk, TellsOk
<2> QED
  BY <1>3, <1>4, <1>6, <1>7, <2>1 DEF TellsOk
<1>11. SpareOk(s)'
<2>1. Needs(s)' = 0 /\ Needs(s) = 0
  BY <1>0, <1>3, <1>6 DEF Needs
<2> QED
  BY <1>2, <1>6, <2>1 DEF SpareOk, ShotInv
<1>12. CleanOk(s)'
  BY <1>0, <1>1, <1>2, <1>3, <1>4, <1>6, <1>7 DEF CleanOk, ShotInv
<1>13. DueOk(s)'
  BY <1>0, <1>2, <1>3, <1>4, <1>6, <1>7 DEF DueOk, CleanOk, ShotInv, Closing
<1> QED
  BY <1>5, <1>6, <1>8, <1>9, <1>10, <1>11, <1>12, <1>13, ShotSettles DEF ShotInv, Speaks, Hangs

LEMMA StoreReplayStep ==
  ASSUME SlackInv, NEW s \in Shot, StoreReplay(s)
  PROVE  SlackInv'
<1>0. /\ pc[s] = "threaded" /\ Forgets(s)
      /\ UNCHANGED <<config, inline, today, channel, refused, lost, askedOn>>
  BY DEF StoreReplay, history
<1>1. PICK posted, to :
        /\ posted = (got[s] # None)
        /\ to = (IF RawFollows(s, posted) THEN "raw" ELSE "done") /\ Goes(s, to)
  BY DEF StoreReplay
<1>2. /\ s \in 1 .. Len(ledger) /\ ShotInv(s) /\ Row(s) \in RowType
      /\ got[s] \in Nat \union {None} /\ TsOf(s) \in Nat \union {None}
      /\ refused[s] \in Nat /\ lost[s] \in Nat /\ config \in Setting /\ Row(s).png \in BOOLEAN
  BY <1>0, Standing
<1>3. posted \in BOOLEAN /\ to \in {"raw", "done"}
  BY <1>1
<1>4. /\ RowsKept(s) /\ TsOf(s)' = TsOf(s) /\ Row(s)'.outcome = Row(s).outcome
      /\ Row(s)'.png = Row(s).png /\ Row(s)'.posted = posted
<2>1. PICK row : row = [Row(s) EXCEPT !.posted = posted]
  OBVIOUS
<2>2. row \in RowType /\ ledger' = [ledger EXCEPT ![s] = row]
  BY <1>1, <1>2, <1>3, <2>1 DEF StoreReplay, Row, RowType, SlackInv, TypeInv, DataPart
<2>3. RowsKept(s) /\ ledger'[s] = row
  BY <1>2, <2>2, RowChange
<2> QED
  BY <1>2, <2>1, <2>3 DEF Row, RowType, TsOf
<1>5. Speaks(s)
  BY <1>0, SilentSpeaks
<1>6. /\ TypeInv' /\ Apart(s) /\ pc'[s] = to /\ to # "new"
      /\ (Completes' <=> Completes) /\ (Clean(s)' <=> Clean(s)) /\ Spare(s)' = Spare(s)
<2>1. to \in Label \ {"new"} /\ pc[s] \notin Over
  BY <1>0, <1>3 DEF Label, Over
<2>2. /\ due' \in [Shot -> BOOLEAN] /\ file' \in [Shot -> BOOLEAN]
      /\ got' \in [Shot -> Nat \union {None}] /\ askedOn' \in [Shot -> Nat]
      /\ \A t \in Shot : t # s => due'[t] = due[t] /\ got'[t] = got[t]
  BY <1>0 DEF Forgets, SlackInv, TypeInv, DataPart
<2> QED
  BY <1>0, <1>1, <1>4, <1>5, <2>1, <2>2, PrivateStep
<1>7. /\ got'[s] = None /\ Cards(s)' = Cards(s) /\ config' = config /\ refused'[s] = refused[s]
      /\ ~ Completes /\ Row(s).outcome \in Outcome /\ TsOf(s) # None
      /\ (Tells(TsOf(s))' <=> Tells(TsOf(s))) /\ channel' = channel
<2>1. got'[s] = None
  BY <1>0 DEF Forgets, SlackInv, TypeInv, DataPart
<2>2. Row(s).outcome \in Outcome /\ ~ Completes /\ TsOf(s) # None
  BY <1>0, <1>2 DEF ShotInv, RowOk, Late
<2> QED
  BY <1>0, <1>4, <1>5, <2>1, <2>2 DEF Speaks, Tells
<1>8. RowOk(s)'
  BY <1>2, <1>3, <1>4, <1>6, <1>7, Parameters DEF ShotInv, RowOk, Early, Late, Closing, Outcome
<1>9. StampsOk(s)'
<2>1. TsOf(s) \in Cards(s)
  BY <1>2, <1>7 DEF ShotInv, StampsOk
<2>2. posted => /\ got[s] \in 1 .. Len(channel) /\ channel[got[s]].shot = s
                /\ channel[got[s]].plot
  BY <1>0, <1>1, <1>2 DEF ShotInv, StampsOk
<2>3. posted => \E m \in 1 .. Len(channel') :
                  channel'[m].shot = s /\ (Tells(m)' \/ channel'[m].plot)
  BY <1>7, <2>2
<2> QED
  BY <1>4, <1>7, <2>1, <2>3 DEF StampsOk
<1>10. TellsOk(s)'
  BY <1>0, <1>2, <1>3, <1>4, <1>6, <1>7 DEF TellsOk, ShotInv
<1>11. SpareOk(s)'
<2>1. Needs(s)' = 0 /\ Needs(s) = 0
  BY <1>0, <1>3, <1>6 DEF Needs
<2> QED
  BY <1>2, <1>6, <2>1 DEF SpareOk, ShotInv
<1>12. CleanOk(s)'
  BY <1>0, <1>2, <1>3, <1>4, <1>6, <1>7 DEF CleanOk, ShotInv
<1>13. DueOk(s)'
  BY <1>0, <1>1, <1>2, <1>3, <1>4, <1>6, <1>7 DEF DueOk, CleanOk, ShotInv, Closing
<1> QED
  BY <1>5, <1>6, <1>8, <1>9, <1>10, <1>11, <1>12, <1>13, ShotSettles DEF ShotInv, Speaks, Hangs

LEMMA AbandonStep ==
  ASSUME SlackInv, NEW s \in Shot, Abandon(s)
  PROVE  SlackInv'
<1>0. /\ pc[s] \notin Over /\ Forgets(s) /\ Goes(s, "abandoned")
      /\ UNCHANGED <<config, inline, today, ledger, channel, refused, lost, askedOn>>
  BY DEF Abandon, Active, history
<1>2. /\ s \in 1 .. Len(ledger) /\ ShotInv(s) /\ refused[s] \in Nat /\ lost[s] \in Nat
      /\ pc[s] \in Label
  BY <1>0, Standing DEF Over, SlackInv, TypeInv, DataPart
<1>4. RowsKept(s)
  BY <1>0 DEF RowsKept, SlackInv, TypeInv, DataPart
<1>5. Speaks(s)
  BY <1>0, SilentSpeaks
<1>6. /\ TypeInv' /\ Apart(s) /\ pc'[s] = "abandoned"
      /\ (Completes' <=> Completes) /\ (Clean(s)' <=> Clean(s)) /\ Spare(s)' = Spare(s)
<2>1. "abandoned" \in Label \ {"new"}
  BY DEF Label
<2>2. /\ due' \in [Shot -> BOOLEAN] /\ file' \in [Shot -> BOOLEAN]
      /\ got' \in [Shot -> Nat \union {None}] /\ askedOn' \in [Shot -> Nat]
      /\ \A t \in Shot : t # s => due'[t] = due[t] /\ got'[t] = got[t]
  BY <1>0 DEF Forgets, SlackInv, TypeInv, DataPart
<2> QED
  BY <1>0, <1>4, <1>5, <2>1, <2>2, PrivateStep
<1>7. /\ TsOf(s)' = TsOf(s) /\ Row(s)' = Row(s) /\ got'[s] = None /\ Cards(s)' = Cards(s)
      /\ config' = config /\ channel' = channel
  BY <1>0, <1>5 DEF TsOf, Row, Forgets, Speaks, SlackInv, TypeInv, DataPart
<1>8. RowOk(s)'
<2>1. Row(s).outcome # "fire_failed"
  BY <1>0, <1>2 DEF ShotInv, RowOk, Over
<2> QED
  BY <1>6, <1>7, <2>1 DEF RowOk, Early, Late, Closing
<1>9. StampsOk(s)'
<2>1. TsOf(s) # None => TsOf(s) \in Cards(s)
  BY <1>2 DEF ShotInv, StampsOk
<2>2. Row(s).posted =>
        \E m \in 1 .. Len(channel) : channel[m].shot = s /\ (Tells(m) \/ channel[m].plot)
  BY <1>2 DEF ShotInv, StampsOk
<2> QED
  BY <1>7, <2>1, <2>2 DEF StampsOk, Tells
<1>10. TellsOk(s)'
  BY <1>6 DEF TellsOk
<1>11. SpareOk(s)'
<2>1. Needs(s)' = 0 /\ Needs(s) \in {0, 1, 2}
  BY <1>6 DEF Needs
<2>2. Spare(s) \in Int
  BY <1>2, CardsAre DEF Spare, SlackInv, TypeInv, DataPart
<2> QED
  BY <1>2, <1>6, <2>1, <2>2 DEF SpareOk, ShotInv
<1>12. CleanOk(s)'
  BY <1>6 DEF CleanOk
<1>13. DueOk(s)'
  BY <1>6 DEF DueOk, Closing
<1> QED
  BY <1>5, <1>6, <1>8, <1>9, <1>10, <1>11, <1>12, <1>13, ShotSettles DEF ShotInv, Speaks, Hangs

LEMMA ThreadStep ==
  ASSUME SlackInv, NEW s \in Shot, Thread(s)
  PROVE  SlackInv'
<1>0. PICK m : /\ m = Message(s, "reply", None, TRUE, TsOf(s))
               /\ Calls(s, "threading", FALSE, Post(m), NextTs, "threaded", "threaded")
  BY DEF Thread
<1>1. pc[s] = "threading"
  BY <1>0 DEF Calls
<1>2. /\ s \in 1 .. Len(ledger) /\ ShotInv(s) /\ TsOf(s) \in Nat \union {None}
      /\ refused[s] \in Nat /\ lost[s] \in Nat /\ config \in Setting
      /\ None \notin Nat /\ channel \in Seq(MessageType) /\ Len(channel) \in Nat
  BY <1>1, Standing, Parameters DEF SlackInv, TypeInv, DataPart
<1>3. /\ m \in MessageType /\ m.shot = s /\ m.kind = "reply" /\ m.under = TsOf(s) /\ m.plot = TRUE
  BY <1>0, <1>2 DEF Message, MessageType
<1>4. TsOf(s) # None /\ TsOf(s) \in Cards(s) /\ ~ Row(s).posted /\ ~ Completes
  BY <1>1, <1>2 DEF ShotInv, RowOk, StampsOk
<1>5. PICK n : n = NextTs /\ n \in Nat
  BY <1>2 DEF NextTs
<1>6. /\ UNCHANGED <<config, inline, today, ledger, due, file, askedOn>>
      /\ \/ Went(s, n, "threaded") /\ channel' = Post(m)
         \/ Refuses(s, "threaded") /\ channel' = channel
         \/ Loses(s, "threaded") /\ channel' = Post(m)
      /\ ChannelApart(s) => TypeInv' /\ Apart(s)
<2>1. Calls(s, "threading", FALSE, Post(m), n, "threaded", "threaded")
  BY <1>0, <1>5
<2>2. "threading" \in Label \ Over /\ "threaded" \in Label \ {"new"}
  BY DEF Label, Over
<2> QED
  BY <1>5, <2>1, <2>2, CallEnds DEF SlackInv
<1>7. Speaks(s) /\ (channel' = Post(m) => n \in 1 .. Len(channel') /\ channel'[n] = m)
<2>1. CASE channel' = Post(m)
  <3>1. Speaks(s) /\ Said(m)
    BY <1>3, <1>4, <2>1, LooseSpeaks
  <3> QED
    BY <1>2, <1>5, <3>1 DEF Said, NextTs
<2>2. CASE channel' # Post(m)
  BY <1>6, <2>2, SilentSpeaks
<2> QED
  BY <2>1, <2>2
<1>8. /\ TypeInv' /\ Apart(s) /\ pc'[s] = "threaded" /\ refused'[s] \in Nat
      /\ refused'[s] >= refused[s]
      /\ got'[s] = None \/ (got'[s] = n /\ channel' = Post(m) /\ (Clean(s)' <=> Clean(s)))
      /\ Clean(s)' => got'[s] = n /\ Clean(s)
<2>1. pc'[s] = "threaded" /\ refused'[s] \in Nat /\ refused'[s] >= refused[s]
  BY <1>2, <1>6 DEF Went, Refuses, Loses
<2>2. got'[s] = None \/ (got'[s] = n /\ channel' = Post(m) /\ (Clean(s)' <=> Clean(s)))
  BY <1>6 DEF Went, Refuses, Loses, Clean
<2>3. Clean(s)' => got'[s] = n /\ Clean(s)
  BY <1>2, <1>6 DEF Went, Refuses, Loses, Clean
<2> QED
  BY <1>6, <1>7, <2>1, <2>2, <2>3 DEF Speaks
<1>9. /\ TsOf(s)' = TsOf(s) /\ Row(s)' = Row(s) /\ Cards(s)' = Cards(s)
      /\ config' = config /\ (Completes' <=> Completes)
      /\ (Tells(TsOf(s))' <=> Tells(TsOf(s)))
<2>1. PICK ts : ts = TsOf(s)
  OBVIOUS
<2>2. TsOf(s)' = ts /\ (Tells(TsOf(s))' <=> Tells(ts)')
  BY <1>6, <2>1 DEF TsOf, Tells
<2>3. Tells(ts)' <=> Tells(ts)
  BY <1>2, <1>4, <1>7, <2>1, CardsAre DEF Speaks
<2> QED
  BY <1>6, <1>7, <2>1, <2>2, <2>3 DEF Row, Speaks, Completes
<1>10. RowOk(s)'
  BY <1>1, <1>2, <1>4, <1>8, <1>9 DEF ShotInv, RowOk, Early, Late, Closing
<1>11. StampsOk(s)'
<2>1. got'[s] # None => got'[s] \in 1 .. Len(channel') /\ channel'[got'[s]].shot = s
                        /\ channel'[got'[s]].plot
  BY <1>3, <1>7, <1>8
<2> QED
  BY <1>4, <1>8, <1>9, <2>1 DEF StampsOk
<1>12. TellsOk(s)'
<2>1. Tells(TsOf(s)) \/ refused[s] >= 1
  BY <1>1, <1>2, <1>4 DEF ShotInv, TellsOk
<2>2. Tells(TsOf(s))' \/ refused'[s] >= 1
  BY <1>2, <1>8, <1>9, <2>1
<2> QED
  BY <1>8, <1>9, <2>2 DEF TellsOk
<1>13. SpareOk(s)'
<2>1. PICK c \in Nat : c = Cardinality(Cards(s)) /\ c = Cardinality(Cards(s)')
  BY <1>2, <1>9, CardsAre
<2>2. Needs(s)' = 0 /\ Needs(s) = 0
  BY <1>1, <1>8 DEF Needs
<2>3. 1 + refused[s] + lost[s] + lost[s] - c >= 0
  BY <1>2, <2>1, <2>2 DEF ShotInv, SpareOk, Spare
<2>4. lost'[s] \in Nat /\ lost'[s] >= lost[s]
  BY <1>2, <1>6 DEF Went, Refuses, Loses
<2>5. 1 + refused'[s] + lost'[s] + lost'[s] - c >= 0
<3>1. PICK r \in Nat, l \in Nat, r2 \in Nat, l2 \in Nat :
        r = refused[s] /\ l = lost[s] /\ r2 = refused'[s] /\ l2 = lost'[s]
  BY <1>2, <1>8, <2>4
<3>2. 1 + r + l + l - c >= 0 /\ r2 >= r /\ l2 >= l
  BY <1>8, <2>3, <2>4, <3>1
<3>3. 1 + r2 + l2 + l2 - c >= 0
  BY <2>1, <3>1, <3>2
<3> QED
  BY <3>1, <3>3
<2> QED
  BY <2>1, <2>2, <2>5 DEF SpareOk, Spare
<1>14. CleanOk(s)'
  BY <1>1, <1>2, <1>4, <1>5, <1>8, <1>9 DEF CleanOk, ShotInv
<1>15. DueOk(s)'
  BY <1>8 DEF DueOk, Closing
<1> QED
  BY <1>7, <1>8, <1>10, <1>11, <1>12, <1>13, <1>14, <1>15, ShotSettles
  DEF ShotInv, Speaks, Hangs

-----------------------------------------------------------------------------
(***************************************************************************)
(* A shot begins, and steps of no shot                                     *)
(***************************************************************************)

LEMMA Begins ==
  ASSUME SlackInv, MayFire, NEW outcome \in {None, "fire_failed"}, NEW to,
         ledger' = Append(ledger, NewRow(outcome)), Goes(Len(ledger) + 1, to),
         \/ outcome = "fire_failed" /\ to = "done"
         \/ outcome = None /\ to = "waiting" /\ config.mode = "single"
         \/ outcome = None /\ to = "fired" /\ config.mode # "single",
         UNCHANGED <<config, inline, today, due, file, got, channel, refused, lost, askedOn>>
  PROVE  SlackInv'
<1>1. /\ ledger \in Seq(RowType) /\ Len(ledger) \in Nat /\ Len(ledger) < MaxShots
      /\ today \in Nat /\ MaxShots \in Nat /\ pc \in [Shot -> Label]
  BY Parameters DEF SlackInv, TypeInv, DataPart, MayFire
<1>2. PICK s \in Shot : s = Len(ledger) + 1
  BY <1>1 DEF Shot
<1>3. PICK row \in RowType : /\ row = NewRow(outcome) /\ row.outcome = outcome /\ row.ts = None
                             /\ row.png = FALSE /\ row.posted = FALSE
<2>1. /\ NewRow(outcome).outcome = outcome /\ NewRow(outcome).ts = None
      /\ NewRow(outcome).png = FALSE /\ NewRow(outcome).posted = FALSE
  BY DEF NewRow
<2>2. NewRow(outcome) \in RowType
  BY <1>1 DEF NewRow, RowType
<2> QED
  BY <2>1, <2>2
<1>4. /\ ledger' \in Seq(RowType) /\ Len(ledger') = s /\ ledger'[s] = row
      /\ \A t \in 1 .. Len(ledger) : ledger'[t] = ledger[t]
  BY <1>1, <1>2, <1>3, AppendProperties
<1>5. /\ pc' \in [Shot -> Label] /\ pc'[s] = to /\ to \in Label \ {"new"}
      /\ \A t \in Shot : t # s => pc'[t] = pc[t]
  BY <1>1, <1>2 DEF Goes, Label
<1>6. pc[s] = "new" /\ \A t \in Shot : pc[t] \in Over
  BY <1>1, <1>2 DEF MayFire, Active, SlackInv, TypeInv, PlacePart
<1>7. TypeInv'
<2>1. DataPart'
<3>1. ledger' \in Seq(RowType) /\ Len(ledger') <= MaxShots /\ pc' \in [Shot -> Label]
  BY <1>1, <1>2, <1>4, <1>5
<3> QED
  BY <3>1 DEF SlackInv, TypeInv, DataPart
<2>2. PlacePart'
<3> SUFFICES ASSUME NEW t \in Shot
             PROVE  /\ pc'[t] = "new" <=> t > Len(ledger')
                    /\ pc'[t] \notin Over => t = Len(ledger')
  BY DEF PlacePart
<3>1. pc[t] = "new" <=> t > Len(ledger)
  BY DEF SlackInv, TypeInv, PlacePart
<3>2. t \in Nat
  BY <1>1 DEF Shot
<3> QED
  BY <1>1, <1>2, <1>4, <1>5, <1>6, <3>1, <3>2
<2> QED
  BY <2>1, <2>2 DEF TypeInv
<1>8. Apart(s)
<2>1. /\ 1 .. Len(ledger) \subseteq 1 .. Len(ledger')
      /\ \A t \in 1 .. Len(ledger') : t # s => t \in 1 .. Len(ledger) /\ ledger'[t] = ledger[t]
  BY <1>1, <1>2, <1>4
<2> QED
  BY <1>5, <2>1 DEF Apart, SlackInv, TypeInv, DataPart
<1>9. /\ Cards(s)' = {} /\ refused'[s] = 0 /\ lost'[s] = 0 /\ got'[s] = None
<2>1. Cards(s) = {} /\ Clean(s) /\ got[s] = None
  BY <1>6 DEF SlackInv, NewPart
<2>2. refused[s] \in Nat /\ lost[s] \in Nat
  BY DEF SlackInv, TypeInv, DataPart
<2> QED
  BY <2>1, <2>2 DEF Cards, Clean
<1>10. Row(s)' = row /\ TsOf(s)' = None /\ config' = config
  BY <1>3, <1>4 DEF Row, TsOf
<1>11. RowOk(s)'
  BY <1>3, <1>5, <1>10, Parameters DEF RowOk, Early, Late, Closing
<1>12. StampsOk(s)'
  BY <1>3, <1>9, <1>10 DEF StampsOk
<1>13. TellsOk(s)'
  BY <1>10 DEF TellsOk
<1>14. SpareOk(s)'
<2>1. Spare(s)' = 1
  BY <1>9, FS_EmptySet DEF Spare
<2>2. Needs(s)' \in {0, 1}
  BY <1>5, <1>10 DEF Needs
<2> QED
  BY <2>1, <2>2 DEF SpareOk
<1>15. CleanOk(s)'
  BY <1>3, <1>5, <1>9, <1>10 DEF CleanOk
<1>16. DueOk(s)'
  BY <1>3, <1>10 DEF DueOk
<1>17. Hangs(s)
  BY <1>8, Unchanging DEF Hangs
<1> QED
  BY <1>5, <1>7, <1>8, <1>11, <1>12, <1>13, <1>14, <1>15, <1>16, <1>17, ShotSettles
  DEF ShotInv, Hangs

LEMMA Idles ==
  ASSUME SlackInv, today' \in Nat, askedOn' = askedOn,
         UNCHANGED <<config, inline, ledger, pc, due, file, got, channel, refused, lost>>
  PROVE  SlackInv'
<1>1. TypeInv'
  BY DEF SlackInv, TypeInv, DataPart, PlacePart
<1>2. Apart(0)
  BY DEF Apart, SlackInv, TypeInv, DataPart
<1>3. \A t \in 1 .. Len(ledger') : ShotInv(t)'
  BY <1>1, <1>2, ApartKeeps
<1>4. NewPart' /\ HangsPart'
  BY DEF SlackInv, NewPart, HangsPart, Cards, Clean
<1> QED
  BY <1>1, <1>3, <1>4 DEF SlackInv

-----------------------------------------------------------------------------
(***************************************************************************)
(* The invariant                                                           *)
(***************************************************************************)

LEMMA Starts ==
  ASSUME Init
  PROVE  SlackInv
<1>1. ledger = <<>> /\ channel = <<>> /\ Len(ledger) = 0 /\ Len(channel) = 0
  BY DEF Init
<1>2. DataPart
<2>1. ledger \in Seq(RowType) /\ channel \in Seq(MessageType)
  BY <1>1
<2>2. Len(ledger) <= MaxShots
  BY <1>1, Parameters
<2> QED
  BY <2>1, <2>2 DEF Init, DataPart, Label
<1>3. PlacePart
  BY <1>1 DEF Init, PlacePart, Shot, Over
<1>4. NewPart /\ HangsPart
  BY <1>1 DEF Init, NewPart, HangsPart, Cards, Clean
<1> QED
  BY <1>1, <1>2, <1>3, <1>4 DEF SlackInv, TypeInv

\* The calls, as paths of a card or of an edit.
LEMMA CallStep ==
  ASSUME SlackInv, NEW s \in Shot,
         \/ PostSent(s) \/ EditOutcome(s) \/ PostOutcome(s) \/ Update(s) \/ UpdatePlain(s)
         \/ PostCard(s) \/ PostPlain(s) \/ PostText(s)
  PROVE  SlackInv'
<1>1. CASE PostSent(s)
<2>1. CardPath("fired", None, "announced", "announced", FALSE)
  BY DEF CardPath
<2> QED
  BY <1>1, <2>1, CardStep DEF PostSent
<1>2. ASSUME pc[s] \in Late
      PROVE  /\ Row(s).outcome \in {None} \union Outcome /\ Row(s).outcome # None
             /\ file[s] \in BOOLEAN
<2>1. ShotInv(s)
  BY <1>2, Standing DEF Late, Closing
<2> QED
  BY <1>2, <2>1, Parameters DEF ShotInv, RowOk, Outcome, SlackInv, TypeInv, DataPart
<1>3. CASE EditOutcome(s)
<2>1. EditPath("resolved", "replay", "afresh", FALSE)
  BY DEF EditPath
<2> QED
  BY <1>3, <2>1, EditStep DEF EditOutcome
<1>4. CASE PostOutcome(s)
<2>1. pc[s] = "afresh"
  BY <1>4 DEF PostOutcome, Calls
<2>2. PICK o \in {None} \union Outcome : o = Row(s).outcome /\ o # None
  BY <1>2, <2>1 DEF Late
<2>3. CardPath("afresh", o, "replay", "replay", FALSE)
  BY <2>2 DEF CardPath
<2>4. Calls(s, "afresh", FALSE, Post(Message(s, "card", o, FALSE, None)), NextTs,
            "replay", "replay")
  BY <1>4, <2>2 DEF PostOutcome
<2> QED
  BY <2>3, <2>4, CardStep
<1>5. CASE Update(s)
<2>1. pc[s] = "updating"
  BY <1>5 DEF Update, Calls
<2>2. PICK f, fails :
        /\ f = file[s] /\ f \in BOOLEAN
        /\ fails = IF f THEN "updating plain" ELSE "posting"
  BY <1>2, <2>1 DEF Late, Closing
<2>3. EditPath("updating", "answered", fails, f)
  BY <2>2 DEF EditPath
<2>4. Calls(s, "updating", f, Edit(TsOf(s), Row(s).outcome, f), TsOf(s), "answered", fails)
  BY <1>5, <2>2 DEF Update
<2> QED
  BY <2>2, <2>3, <2>4, EditStep
<1>6. CASE UpdatePlain(s)
<2>1. EditPath("updating plain", "image", "posting", FALSE)
  BY DEF EditPath
<2> QED
  BY <1>6, <2>1, EditStep DEF UpdatePlain
<1>7. CASE PostCard(s)
<2>1. pc[s] = "posting"
  BY <1>7 DEF PostCard, Calls
<2>2. PICK o, f, fails :
        /\ o = Row(s).outcome /\ o # None /\ o \in {None} \union Outcome
        /\ f = file[s] /\ f \in BOOLEAN /\ fails = IF f THEN "posting plain" ELSE "posting text"
  BY <1>2, <2>1 DEF Late, Closing
<2>3. CardPath("posting", o, "answered", fails, f)
  BY <2>2 DEF CardPath
<2>4. Calls(s, "posting", f, Post(Message(s, "card", o, f, None)), NextTs, "answered", fails)
  BY <1>7, <2>2 DEF PostCard, FullCard
<2> QED
  BY <2>2, <2>3, <2>4, CardStep
<1>8. CASE PostPlain(s)
<2>1. pc[s] = "posting plain"
  BY <1>8 DEF PostPlain, Calls
<2>2. PICK o \in {None} \union Outcome : o = Row(s).outcome /\ o # None
  BY <1>2, <2>1 DEF Late, Closing
<2>3. CardPath("posting plain", o, "image", "posting text", FALSE)
  BY <2>2 DEF CardPath
<2>4. Calls(s, "posting plain", FALSE, Post(Message(s, "card", o, FALSE, None)), NextTs,
            "image", "posting text")
  BY <1>8, <2>2 DEF PostPlain, PlainCard
<2> QED
  BY <2>3, <2>4, CardStep
<1>9. CASE PostText(s)
<2>1. pc[s] = "posting text"
  BY <1>9 DEF PostText, Calls
<2>2. PICK o \in {None} \union Outcome : o = Row(s).outcome /\ o # None
  BY <1>2, <2>1 DEF Late, Closing
<2>3. CardPath("posting text", o, "answered", "answered", FALSE)
  BY <2>2 DEF CardPath
<2>4. Calls(s, "posting text", FALSE, Post(Message(s, "card", o, FALSE, None)), NextTs,
            "answered", "answered")
  BY <1>9, <2>2 DEF PostText, PlainCard
<2> QED
  BY <2>3, <2>4, CardStep
<1> QED
  BY <1>1, <1>3, <1>4, <1>5, <1>6, <1>7, <1>8, <1>9

LEMMA Keeps ==
  ASSUME SlackInv, [Next]_vars
  PROVE  SlackInv'
<1>1. CASE Fire
<2>1. PICK to : to = IF config.mode = "single" THEN "waiting" ELSE "fired"
  OBVIOUS
<2>2. /\ MayFire /\ ledger' = Append(ledger, NewRow(None)) /\ Goes(Len(ledger) + 1, to)
      /\ UNCHANGED <<config, inline, today, due, file, got, channel, refused, lost, askedOn>>
  BY <1>1, <2>1 DEF Fire
<2> QED
  BY <2>1, <2>2, Begins
<1>2. CASE FireFails
  BY <1>2, Begins DEF FireFails, history
<1>3. ASSUME NEW s \in Shot, Step(s)
      PROVE  SlackInv'
  BY <1>3, CallStep, StoreSentStep, ReconcileStep, NoReplayStep, ReplayStep, UploadStep,
     PostImageStep, StoreCardStep, ThreadStep, StoreReplayStep, PostRawStep DEF Step
<1>4. ASSUME NEW s \in Shot, Abandon(s)
      PROVE  SlackInv'
  BY <1>4, AbandonStep
<1>5. CASE Midnight
<2>1. today' \in Nat
  BY <1>5 DEF Midnight, SlackInv, TypeInv, DataPart
<2> QED
  BY <1>5, <2>1, Idles DEF Midnight, local, history
<1>6. CASE UNCHANGED vars
<2>1. today' \in Nat
  BY <1>6 DEF vars, SlackInv, TypeInv, DataPart
<2> QED
  BY <1>6, <2>1, Idles DEF vars, local, history
<1> QED
  BY <1>1, <1>2, <1>3, <1>4, <1>5, <1>6 DEF Next

LEMMA SlackInvariant == Spec => []SlackInv
<1>1. Init => SlackInv
  BY Starts
<1>2. SlackInv /\ [Next]_vars => SlackInv'
  BY Keeps
<1> QED
  BY <1>1, <1>2, PTL DEF Spec

-----------------------------------------------------------------------------
(***************************************************************************)
(* What the channel and the ledger promise                                 *)
(***************************************************************************)

LEMMA SpareIsRoom ==
  ASSUME NEW c \in Nat, NEW r \in Nat, NEW l \in Nat, 1 + r + l + l - c >= 0
  PROVE  c <= 1 + r + 2 * l
  OBVIOUS

LEMMA OneCard ==
  ASSUME SlackInv
  PROVE  OneCardPerShot
<1> SUFFICES ASSUME NEW s \in 1 .. Len(ledger)
             PROVE  /\ Cardinality(Cards(s)) <= 1 + refused[s] + 2 * lost[s]
                    /\ Fired(s) /\ pc[s] = "done" /\ refused[s] + lost[s] = 0 =>
                         /\ Cards(s) = {TsOf(s)}
                         /\ Tells(TsOf(s))
  BY DEF OneCardPerShot, SlackInv, TypeInv, DataPart
<1>1. /\ ShotInv(s) /\ s \in Shot /\ refused[s] \in Nat /\ lost[s] \in Nat
      /\ Cardinality(Cards(s)) \in Nat /\ config \in Setting
  BY LedgerShots, CardsAre, SettingType DEF SlackInv, TypeInv, DataPart
<1>2. Spare(s) >= 0
<2>1. Needs(s) \in {0, 1, 2}
  BY DEF Needs
<2>2. Spare(s) \in Int
  BY <1>1 DEF Spare
<2> QED
  BY <1>1, <2>1, <2>2 DEF ShotInv, SpareOk
<1>3. Cardinality(Cards(s)) <= 1 + refused[s] + 2 * lost[s]
<2>1. PICK r \in Nat, l \in Nat, c \in Nat :
        r = refused[s] /\ l = lost[s] /\ c = Cardinality(Cards(s))
  BY <1>1
<2>2. 1 + r + l + l - c >= 0
  BY <1>2, <2>1 DEF Spare
<2>3. c <= 1 + r + 2 * l
  BY <2>1, <2>2, SpareIsRoom
<2> QED
  BY <2>1, <2>3
<1>4. ASSUME Fired(s), pc[s] = "done", refused[s] + lost[s] = 0
      PROVE  Cards(s) = {TsOf(s)} /\ Tells(TsOf(s))
<2>1. Row(s).outcome # "fire_failed" /\ Clean(s) /\ refused[s] = 0
  BY <1>1, <1>4 DEF Fired, Clean
<2>2. TsOf(s) # None /\ Cards(s) = {TsOf(s)}
  BY <1>1, <1>4, <2>1 DEF ShotInv, CleanOk
<2>3. Tells(TsOf(s)) \/ refused[s] >= 1
  BY <1>1, <1>4, <2>2 DEF ShotInv, TellsOk
<2> QED
  BY <2>1, <2>2, <2>3
<1> QED
  BY <1>3, <1>4

(***************************************************************************)
(* However calls end: never more cards than one and those the failed calls *)
(* account for; without a failure exactly one, known to the ledger and     *)
(* with the outcome (inject_slack.py's SlackPoster and its callers).       *)
(***************************************************************************)
THEOREM OneCardCorrect == Spec => []OneCardPerShot
<1>1. SlackInv => OneCardPerShot
  BY OneCard
<1> QED
  BY <1>1, SlackInvariant, PTL

LEMMA LedgerMatches ==
  ASSUME SlackInv
  PROVE  LedgerMatchesChannel
<1>1. TypeOK
<2>1. got \in [Shot -> Ts \union {None}]
<3>1. ASSUME NEW s \in Shot, got[s] # None
      PROVE  got[s] \in Ts
  <4>1. pc[s] # "new"
    BY <3>1 DEF SlackInv, NewPart
  <4>2. ShotInv(s)
    BY <4>1, Standing
  <4>3. got[s] \in Cards(s) \/ got[s] \in 1 .. Len(channel)
    BY <3>1, <4>2 DEF ShotInv, StampsOk
  <4> QED
    BY <4>3, CardsAre DEF Ts, SlackInv, TypeInv, DataPart
<3> QED
  BY <3>1 DEF SlackInv, TypeInv, DataPart
<2> QED
  BY <2>1 DEF TypeOK, SlackInv, TypeInv, DataPart, RowType, MessageType, Outcome
<1>2. ASSUME NEW s \in DOMAIN ledger
      PROVE  /\ TsOf(s) # None =>
                  /\ TsOf(s) \in Cards(s)
                  /\ pc[s] = "done" =>
                       \/ Tells(TsOf(s))
                       \/ refused[s] >= (IF config.mode = "sent_then_edit" THEN 1 ELSE 2)
             /\ Row(s).posted =>
                  \E m \in DOMAIN channel :
                    channel[m].shot = s /\ (Tells(m) \/ channel[m].plot)
<2>1. s \in 1 .. Len(ledger) /\ ShotInv(s) /\ DOMAIN channel = 1 .. Len(channel)
  BY DEF SlackInv, TypeInv, DataPart
<2>2. TsOf(s) # None => TsOf(s) \in Cards(s)
  BY <2>1 DEF ShotInv, StampsOk
<2>3. TsOf(s) # None /\ pc[s] = "done" =>
        Tells(TsOf(s)) \/ refused[s] >= (IF config.mode = "sent_then_edit" THEN 1 ELSE 2)
  BY <2>1 DEF ShotInv, TellsOk, Completes
<2>4. Row(s).posted =>
        \E m \in DOMAIN channel : channel[m].shot = s /\ (Tells(m) \/ channel[m].plot)
  BY <2>1 DEF ShotInv, StampsOk
<2> QED
  BY <2>2, <2>3, <2>4
<1>3. \A m \in DOMAIN channel :
        channel[m].kind \in {"reply", "raw"} => channel[m].under \in Cards(channel[m].shot)
<2>1. DOMAIN channel = 1 .. Len(channel)
  BY DEF SlackInv, TypeInv, DataPart
<2> QED
  BY <2>1 DEF SlackInv, HangsPart
<1> QED
  BY <1>1, <1>2, <1>3 DEF LedgerMatchesChannel

(***************************************************************************)
(* slack_ts and replay_posted never say of the channel what is not so, and *)
(* no reply hangs under a message that is not its shot's card.             *)
(***************************************************************************)
THEOREM LedgerMatchesCorrect == Spec => []LedgerMatchesChannel
<1>1. SlackInv => LedgerMatchesChannel
  BY LedgerMatches
<1> QED
  BY <1>1, SlackInvariant, PTL

-----------------------------------------------------------------------------
(***************************************************************************)
(* One replay a day                                                        *)
(***************************************************************************)

DaysOk == \A s \in 1 .. Len(ledger) : Row(s).day <= today

\* What a step of shot s leaves as it was, for the other shots and for itself.
Elsewhere(s) ==
  /\ config' = config /\ today' = today /\ Len(ledger') = Len(ledger)
  /\ \A t \in Shot : t # s =>
       /\ pc'[t] = pc[t] /\ askedOn'[t] = askedOn[t]
       /\ refused'[t] = refused[t] /\ lost'[t] = lost[t]
  /\ \A t \in 1 .. Len(ledger) : t # s => ledger'[t] = ledger[t]
  /\ ledger'[s].day = ledger[s].day

\* A plot and its outcome are not news.
NoNews(s) ==
  Row(s)'.png => /\ Row(s).png /\ Row(s)'.outcome = Row(s).outcome
                 /\ askedOn'[s] = askedOn[s]

LEMMA CallsElsewhere ==
  ASSUME SlackInv, NEW s \in Shot, NEW at, NEW withFile, NEW after, NEW ts, NEW ok, NEW fails,
         Calls(s, at, withFile, after, ts, ok, fails)
  PROVE  Elsewhere(s) /\ NoNews(s)
  BY DEF Calls, Elsewhere, NoNews, Row, Goes, SlackInv, TypeInv, DataPart

LEMMA StepElsewhere ==
  ASSUME SlackInv, NEW s \in Shot, Step(s) \/ Abandon(s)
  PROVE  /\ s = Len(ledger) /\ s \in 1 .. Len(ledger) /\ Elsewhere(s)
         /\ \/ NoNews(s)
            \/ /\ Replay(s) /\ Row(s)'.outcome = Row(s).outcome
               /\ askedOn'[s] = today
<1>1. pc[s] \notin Over
  BY DEF Step, Abandon, Active, Over, Calls, PostSent, StoreSent, Reconcile, EditOutcome,
         PostOutcome, NoReplay, Replay, Upload, Update, UpdatePlain, PostCard, PostPlain,
         PostText, PostImage, StoreCard, Thread, StoreReplay, PostRaw
<1>2. /\ s = Len(ledger) /\ s \in 1 .. Len(ledger) /\ ShotInv(s) /\ Row(s) \in RowType
      /\ ledger \in Seq(RowType) /\ s \in DOMAIN ledger
  BY <1>1, Standing DEF Over, SlackInv, TypeInv, DataPart, PlacePart
<1>3. CASE \/ PostSent(s) \/ EditOutcome(s) \/ PostOutcome(s) \/ Update(s) \/ UpdatePlain(s)
           \/ PostCard(s) \/ PostPlain(s) \/ PostText(s) \/ Thread(s)
<2>1. PICK at, withFile, after, ts, ok, fails : Calls(s, at, withFile, after, ts, ok, fails)
  BY <1>3 DEF PostSent, EditOutcome, PostOutcome, Update, UpdatePlain, PostCard, PostPlain,
              PostText, Thread
<2> QED
  BY <1>2, <2>1, CallsElsewhere
<1>4. CASE Upload(s) \/ PostImage(s) \/ PostRaw(s) \/ Abandon(s)
<2>1. /\ UNCHANGED <<config, today, ledger, refused, lost, askedOn>>
      /\ \A t \in Shot : t # s => pc'[t] = pc[t]
  BY <1>4 DEF Upload, PostImage, PostRaw, Abandon, Goes, history, SlackInv, TypeInv, DataPart
<2> QED
  BY <1>2, <2>1 DEF Elsewhere, NoNews, Row
<1>5. CASE NoReplay(s)
<2>1. /\ UNCHANGED <<config, today, ledger, refused, lost>>
      /\ \A t \in Shot : t # s => pc'[t] = pc[t] /\ askedOn'[t] = askedOn[t]
  BY <1>5 DEF NoReplay, Goes, SlackInv, TypeInv, DataPart
<2>2. ~ Row(s).png
  BY <1>2, <1>5 DEF NoReplay, ShotInv, RowOk
<2> QED
  BY <1>2, <2>1, <2>2 DEF Elsewhere, NoNews, Row
<1>6. CASE StoreSent(s) \/ StoreCard(s) \/ StoreReplay(s)
<2>1. /\ UNCHANGED <<config, today, refused, lost, askedOn>>
      /\ \A t \in Shot : t # s => pc'[t] = pc[t]
  BY <1>6 DEF StoreSent, StoreCard, StoreReplay, Goes, history, SlackInv, TypeInv, DataPart
<2>2. PICK row : /\ ledger' = [ledger EXCEPT ![s] = row] /\ row.png = Row(s).png
                 /\ row.outcome = Row(s).outcome /\ row.day = Row(s).day
<3>1. PICK half : half = [Row(s) EXCEPT !.ts = IF got[s] = None THEN @ ELSE got[s]]
  OBVIOUS
<3>2. \A x : LET row == [Row(s) EXCEPT !.posted = x] IN
               row.png = Row(s).png /\ row.outcome = Row(s).outcome /\ row.day = Row(s).day
  BY <1>2 DEF RowType
<3>3. /\ half.png = Row(s).png /\ half.outcome = Row(s).outcome /\ half.day = Row(s).day
      /\ DOMAIN half = {"day", "outcome", "ts", "png", "posted"}
  BY <1>2, <3>1 DEF RowType
<3>4. CASE StoreSent(s)
  <4>1. ledger' = [ledger EXCEPT ![s] = half]
    BY <1>2, <3>1, <3>4 DEF StoreSent, KeepTs, Row
  <4> QED
    BY <3>3, <4>1
<3>5. CASE StoreCard(s)
  <4>1. PICK row : row = [half EXCEPT !.posted = Posted(s)]
    OBVIOUS
  <4>2. ledger' = [[ledger EXCEPT ![s] = half] EXCEPT ![s] = [half EXCEPT !.posted = Posted(s)]]
    BY <1>2, <3>1, <3>5 DEF StoreCard, Row
  <4>3. ledger' = [ledger EXCEPT ![s] = row]
    BY <1>2, <4>1, <4>2
  <4>4. row.png = Row(s).png /\ row.outcome = Row(s).outcome /\ row.day = Row(s).day
    BY <3>3, <4>1
  <4> QED
    BY <4>3, <4>4
<3>6. CASE StoreReplay(s)
  <4>1. PICK x : x = (got[s] # None)
    OBVIOUS
  <4>2. ledger' = [ledger EXCEPT ![s] = [Row(s) EXCEPT !.posted = x]]
    BY <1>2, <3>6, <4>1 DEF StoreReplay, Row
  <4> QED
    BY <3>2, <4>2
<3> QED
  BY <1>6, <3>4, <3>5, <3>6
<2> QED
  BY <1>2, <2>1, <2>2 DEF Elsewhere, NoNews, Row
<1>7. CASE Reconcile(s)
<2>1. /\ UNCHANGED <<config, today, refused, lost, askedOn>>
      /\ \A t \in Shot : t # s => pc'[t] = pc[t]
  BY <1>7 DEF Reconcile, Goes, history, SlackInv, TypeInv, DataPart
<2>2. PICK row : /\ ledger' = [ledger EXCEPT ![s] = row] /\ row.png = Row(s).png
                 /\ row.day = Row(s).day
  BY <1>2, <1>7 DEF Reconcile, Row, RowType
<2>3. ~ Row(s).png
  BY <1>2, <1>7 DEF Reconcile, ShotInv, RowOk, Early
<2> QED
  BY <1>2, <2>1, <2>2, <2>3 DEF Elsewhere, NoNews, Row
<1>8. CASE Replay(s)
<2>1. /\ UNCHANGED <<config, today, refused, lost>> /\ askedOn'[s] = today
      /\ \A t \in Shot : t # s => pc'[t] = pc[t] /\ askedOn'[t] = askedOn[t]
  BY <1>8 DEF Replay, Goes, SlackInv, TypeInv, DataPart
<2>2. PICK row : /\ ledger' = [ledger EXCEPT ![s] = row] /\ row.outcome = Row(s).outcome
                 /\ row.day = Row(s).day
  BY <1>2, <1>8 DEF Replay, Row, RowType
<2> QED
  BY <1>2, <1>8, <2>1, <2>2 DEF Elsewhere, Row
<1> QED
  BY <1>3, <1>4, <1>5, <1>6, <1>7, <1>8 DEF Step

\* No day is later than today, so today's replay is the last.
LEMMA TodayIsLast ==
  ASSUME SlackInv, DaysOk, NEW s \in 1 .. Len(ledger), Row(s).posted, Row(s).day = today
  PROVE  LastReplayDay = today
<1>1. \A t \in 1 .. Len(ledger) : ledger[t].day \in Nat /\ ledger[t].day <= today
  BY RowOfType DEF SlackInv, TypeInv, DataPart, DaysOk, Row
<1>2. Range(ledger) = {ledger[t] : t \in 1 .. Len(ledger)}
  BY DEF Range, SlackInv, TypeInv, DataPart
<1>3. today \in PostedDays /\ \A d \in PostedDays : d \in Nat /\ d <= today
  BY <1>1, <1>2 DEF PostedDays, Row
<1>4. Max(PostedDays) = today
<2>1. Max(PostedDays) = CHOOSE x \in PostedDays : \A y \in PostedDays : x >= y
  BY DEF Max
<2>2. today \in Nat
  BY DEF SlackInv, TypeInv, DataPart
<2>3. \A x \in PostedDays : (\A y \in PostedDays : x >= y) => x = today
  BY <1>3, <2>2
<2>4. \A y \in PostedDays : today >= y
  BY <1>3, <2>2
<2> QED
  BY <1>3, <2>1, <2>3, <2>4
<1> QED
  BY <1>3, <1>4 DEF LastReplayDay

LEMMA DailyKeeps ==
  ASSUME SlackInv, DaysOk, DailyOnce, [Next]_vars
  PROVE  DaysOk' /\ DailyOnce'
<1> USE DEF SlackInv, TypeInv, DataPart
<1>1. ASSUME NEW u \in Shot, Step(u) \/ Abandon(u)
      PROVE  DaysOk' /\ DailyOnce'
<2>1. /\ u = Len(ledger) /\ u \in 1 .. Len(ledger) /\ Elsewhere(u)
      /\ \/ NoNews(u)
         \/ Replay(u) /\ Row(u)'.outcome = Row(u).outcome /\ askedOn'[u] = today
  BY <1>1, StepElsewhere
<2>2. DaysOk'
  BY <2>1 DEF Elsewhere, DaysOk, Row
<2>3. ASSUME config'.post = "daily", NEW s \in 1 .. Len(ledger), NEW t \in 1 .. Len(ledger), s < t,
             Row(s)'.day = Row(t)'.day, Row(s)'.posted \/ WentThrough(s)',
             Row(t)'.png, ~ Missed(t)'
      PROVE  askedOn'[t] > Row(t)'.day
<3>1. /\ s # u /\ s \in Shot /\ t \in Shot /\ config.post = "daily"
      /\ Row(s)' = Row(s) /\ (WentThrough(s)' <=> WentThrough(s))
      /\ Row(t)'.day = Row(t).day /\ Row(s).day = Row(t).day
      /\ Row(s).posted \/ WentThrough(s)
  <4>1. s # u /\ s \in Shot /\ t \in Shot /\ config.post = "daily"
    <5>1. s # u
      BY <2>1, <2>3
    <5>2. 1 .. Len(ledger) \subseteq Shot
      BY LedgerShots
    <5>3. config.post = "daily"
      BY <2>1, <2>3 DEF Elsewhere
    <5> QED
      BY <5>1, <5>2, <5>3
  <4>2. /\ Row(s)' = Row(s) /\ pc'[s] = pc[s] /\ refused'[s] = refused[s] /\ lost'[s] = lost[s]
        /\ Row(t)'.day = Row(t).day
    BY <2>1, <4>1 DEF Elsewhere, Row
  <4>3. WentThrough(s)' <=> WentThrough(s)
    BY <4>2 DEF WentThrough
  <4>4. Row(s).posted \/ WentThrough(s)
    BY <2>3, <4>2, <4>3
  <4>5. Row(s).day = Row(t).day
    BY <2>3, <4>2
  <4> QED
    BY <4>1, <4>2, <4>3, <4>4, <4>5
<3>2. Row(t).png /\ ~ Missed(t) => askedOn[t] > Row(t).day
  <4>1. s \in DOMAIN ledger /\ t \in DOMAIN ledger
    OBVIOUS
  <4> QED
    BY <2>3, <3>1, <4>1 DEF DailyOnce
<3>3. CASE t # u
  <4>1. Row(t)' = Row(t) /\ askedOn'[t] = askedOn[t] /\ (Missed(t)' <=> Missed(t))
    BY <2>1, <3>1, <3>3 DEF Elsewhere, Row, Missed
  <4> QED
    BY <2>3, <3>2, <4>1
<3>4. CASE t = u /\ NoNews(u)
  <4>1. Row(t).png /\ ~ Missed(t) /\ askedOn'[t] = askedOn[t]
    BY <2>3, <3>4 DEF NoNews, Missed
  <4> QED
    BY <3>1, <3>2, <4>1
<3>5. CASE t = u /\ Replay(u) /\ Row(u)'.outcome = Row(u).outcome /\ askedOn'[u] = today
  <4>1. PostDue(t) /\ ~ Missed(t)
    BY <2>3, <3>5 DEF Replay, Missed
  <4>2. LastReplayDay # today
    BY <3>1, <4>1 DEF PostDue
  <4>3. Row(s).posted
    BY <3>1 DEF WentThrough, Clean, ShotInv, DueOk
  <4>4. Row(t).day # today
    BY <3>1, <4>2, <4>3, TodayIsLast
  <4>5. Row(t).day \in Nat /\ Row(t).day <= today
    BY RowOfType DEF DaysOk, Row
  <4> QED
    BY <3>1, <3>5, <4>4, <4>5
<3> QED
  BY <2>1, <3>3, <3>4, <3>5
<2>4. DOMAIN ledger' = 1 .. Len(ledger)
<3>1. SlackInv'
  BY Keeps
<3> QED
  BY <2>1, <3>1 DEF Elsewhere
<2>5. DailyOnce'
  BY <2>3, <2>4 DEF DailyOnce
<2> QED
  BY <2>2, <2>5
<1>2. CASE Fire \/ FireFails
<2>1. PICK outcome, s, to :
        /\ ledger' = Append(ledger, NewRow(outcome)) /\ s = Len(ledger) + 1 /\ Goes(s, to)
        /\ UNCHANGED <<config, today, refused, lost, askedOn>>
<3>1. CASE Fire
  BY <3>1 DEF Fire
<3>2. CASE FireFails
  BY <3>2 DEF FireFails, history
<3> QED
  BY <1>2, <3>1, <3>2
<2>2. /\ Len(ledger') = s /\ ledger'[s] = NewRow(outcome)
      /\ \A t \in 1 .. Len(ledger) : ledger'[t] = ledger[t] /\ pc'[t] = pc[t]
      /\ DOMAIN ledger' = 1 .. s /\ Len(ledger) \in Nat
<3>1. ledger \in Seq(RowType) /\ NewRow(outcome) \in {NewRow(outcome)}
  OBVIOUS
<3>2. Len(ledger') = s /\ ledger'[s] = NewRow(outcome) /\ DOMAIN ledger' = 1 .. s
      /\ \A t \in 1 .. Len(ledger) : ledger'[t] = ledger[t]
  BY <2>1, <3>1
<3>3. \A t \in 1 .. Len(ledger) : t \in Shot /\ t # s
  BY <2>1, LedgerShots
<3>4. \A t \in 1 .. Len(ledger) : pc'[t] = pc[t]
  BY <2>1, <3>3 DEF Goes
<3> QED
  BY <3>2, <3>4
<2>3. Row(s)'.png = FALSE /\ Row(s)'.day = today
  BY <2>2 DEF Row, NewRow
<2>4. DaysOk'
  BY <2>1, <2>2, <2>3 DEF DaysOk, Row
<2>5. ASSUME config'.post = "daily", NEW t \in 1 .. s, NEW q \in 1 .. s, q < t,
             Row(q)'.day = Row(t)'.day, Row(q)'.posted \/ WentThrough(q)',
             Row(t)'.png, ~ Missed(t)'
      PROVE  askedOn'[t] > Row(t)'.day
<3>1. t # s /\ t \in 1 .. Len(ledger) /\ q \in 1 .. Len(ledger)
  BY <2>1, <2>2, <2>3, <2>5
<3>2. /\ Row(t)' = Row(t) /\ Row(q)' = Row(q) /\ (WentThrough(q)' <=> WentThrough(q))
      /\ (Missed(t)' <=> Missed(t)) /\ askedOn' = askedOn /\ config' = config
  BY <2>1, <2>2, <3>1 DEF Row, WentThrough, Missed
<3>3. /\ config.post = "daily" /\ Row(q).day = Row(t).day /\ Row(t).png /\ ~ Missed(t)
      /\ Row(q).posted \/ WentThrough(q)
  BY <2>5, <3>2
<3>4. t \in DOMAIN ledger /\ q \in DOMAIN ledger
  BY <3>1
<3>5. askedOn[t] > Row(t).day
  BY <2>5, <3>3, <3>4 DEF DailyOnce
<3> QED
  BY <3>2, <3>5
<2>6. DailyOnce'
  BY <2>2, <2>5 DEF DailyOnce
<2> QED
  BY <2>4, <2>6
<1>3. CASE Midnight \/ UNCHANGED vars
<2>1. /\ UNCHANGED <<config, ledger, pc, refused, lost, askedOn>>
      /\ today' \in Nat /\ today' >= today
  BY <1>3 DEF Midnight, vars, local, history
<2>2. \A t \in 1 .. Len(ledger) : ledger[t].day \in Nat
  BY RowOfType
<2>3. DaysOk'
  BY <2>1, <2>2 DEF DaysOk, Row
<2>4. DailyOnce'
  BY <2>1 DEF DailyOnce, Row, WentThrough, Missed
<2> QED
  BY <2>3, <2>4
<1> QED
  BY <1>1, <1>2, <1>3 DEF Next

(***************************************************************************)
(* A replay a day, for any calendar and any number of shots: what posted   *)
(* says and last_replay_day looks up is enough (do_replay's question       *)
(* whether a replay is due, apps/inject_daemon.py).                        *)
(***************************************************************************)
THEOREM DailyOnceCorrect == Spec => []DailyOnce
<1>1. Init => DaysOk /\ DailyOnce
  BY DEF Init, DaysOk, DailyOnce
<1>2. SlackInv /\ DaysOk /\ DailyOnce /\ [Next]_vars => DaysOk' /\ DailyOnce'
  BY DailyKeeps
<1> QED
  BY <1>1, <1>2, SlackInvariant, PTL DEF Spec

================================================================================
