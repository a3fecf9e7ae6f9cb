------------------------------- MODULE Decision -------------------------------
(***************************************************************************)
(* The decision chain of t2d (apps/t2d.py): the fast path, which judges a  *)
(* batch's trials on arrival, and _process, which judges a gulp's clusters *)
(* later, with what they share: the injection ledger and its cache, the    *)
(* fast triggers that await their cluster, the event names, and the        *)
(* clusters, triggers and gulp_stats tables.                               *)
(*                                                                         *)
(* Each runs without an await up to the dump request inside _trigger, so   *)
(* each is one step here, and a call that has sent a request ends in       *)
(* another.  _trigger itself is Trigger.tla's; this module keeps whether   *)
(* it refuses at once or sends, and with what action its row is written.   *)
(* The voltage fan-out is disabled, as shipped.  The injection bot and the *)
(* correlator are the environment.                                         *)
(***************************************************************************)
EXTENDS Integers, FiniteSets, FiniteSetsExt

CONSTANTS
  None,         \* no name, no cluster, no event
  Event,        \* what lights up the sky: an astrophysical pulse, interference
                \*   or an injected pulse
  Batch,        \* hella batches, with their trials that reach tier B and the
                \*   DM floor
  Gulp,
  Cluster,      \* what DBSCAN makes of each gulp
  Name,         \* event names
  CacheTTL,     \* INJECTION_CACHE_TTL_S
  Lookback,     \* the 15 minutes of ledger that _refresh_injections reads
  MatchWindow,  \* INJECTION_MATCH_WINDOW_S
  BufferDepth,  \* how old the samples are that the correlator adds a pulse to
  FastGap,      \* the 60 s between fast attempts
  FastExpiry,   \* the 120 s after which a fast trigger waits no longer
  OccWindow,    \* occupancy.window_samp
  MaxTime,      \* bound: the clock stops here
  MaxRestarts,  \* bound on process restarts
  MaxMissed     \* bound on the times at which a ledger read fails

(***************************************************************************)
(* A trial or a cluster is `like' the injected events whose beam, or one   *)
(* of its neighbours, and DM, within the tolerance, are its own: a         *)
(* fragment of an injected pulse need not be like it, and another event's  *)
(* may be.                                                                 *)
(***************************************************************************)
Shots == {e \in Event : e.injected}

ASSUME InputAssumption ==
  /\ Event \subseteq [id: Nat, at: Nat, injected: BOOLEAN]
  /\ Batch \subseteq [id: Nat, trials: SUBSET [event: Event, snr: Nat, vetoed: BOOLEAN,
                                              like: SUBSET Shots]]
  /\ IsFiniteSet(Batch)

(***************************************************************************)
(* A cluster is strong when its tier is A or B and its DM above the floor, *)
(* and stored when it has a tier at all; leaky when it is a DM-floor leak; *)
(* vetoed when its beam, extent or occupancy is.  Clusters of one event    *)
(* are its fragments.  The id is the cluster's place in DBSCAN's list.     *)
(***************************************************************************)
ASSUME ClusterAssumption ==
  /\ Cluster \subseteq [id: Nat, gulp: Gulp, event: Event, samp: Nat, snr: Nat,
                        strong: BOOLEAN, tiered: BOOLEAN, leaky: BOOLEAN,
                        vetoed: BOOLEAN, like: SUBSET Shots]
  /\ IsFiniteSet(Cluster)
  /\ \A c \in Cluster : c.strong => c.tiered
  /\ \A c, d \in Cluster : c.id = d.id => c = d
  /\ None \notin Cluster /\ None \notin Event /\ None \notin Name
  /\ "fast" \notin Gulp

ASSUME BoundAssumption ==
  /\ CacheTTL \in Nat /\ Lookback \in Nat /\ FastGap \in Nat
  /\ FastExpiry \in Nat /\ OccWindow \in Nat
  /\ MatchWindow \in Nat /\ BufferDepth \in Nat
  /\ MaxTime \in Nat /\ MaxRestarts \in Nat /\ MaxMissed \in Nat

VARIABLES
  \* the process
  cache,        \* _inj_cache: the injected events it knows of
  cacheAt,      \* _inj_cache_ts, or Never
  pendingFast,  \* pending_fast: per name, the event of a fast trigger, or None
  lastFast,     \* _last_fast_mono, or Never
  calls,        \* calls of _trigger that have sent their dump request
  judged,       \* batches the fast path has seen
  processed,    \* gulps _process has run for
  \* the database
  ledgerAt,     \* when each injected event's row was committed, or Never
  clusterRows,  \* the clusters table
  triggerRows,  \* the triggers table
  statsRows,    \* the gulp_stats table
  \* the world
  fired,        \* injected events whose pulse has reached the stream
  pulseAt,      \* the time of each event by its samples
  now,
  \* history, read by no action of the program
  requests,     \* the dump requests that were sent: for what, and when
  overtaken,    \* names stored while their fast trigger's call was under way, or
                \*   in a gulp that an exception ended
  lost,         \* who had a call that an exception or a restart ended
  missedReads,  \* when a ledger read failed
  restarts

process == <<cache, cacheAt, pendingFast, lastFast, calls>>
progress == <<judged, processed>>
tables == <<clusterRows, triggerRows, statsRows>>
bot == <<ledgerAt, fired, pulseAt>>
history == <<requests, overtaken, lost, missedReads, restarts>>
vars == <<process, progress, tables, bot, now, history>>

Never == -1

Init ==
  /\ cache = {} /\ cacheAt = Never
  /\ pendingFast = [n \in Name |-> None]
  /\ lastFast = Never
  /\ calls = {}
  /\ judged = {} /\ processed = {}
  /\ ledgerAt = [e \in Event |-> Never]
  /\ clusterRows = {} /\ triggerRows = {} /\ statsRows = {}
  /\ fired = {}
  /\ pulseAt = [e \in Event |-> e.at]
  /\ now = 0
  /\ requests = {} /\ overtaken = {} /\ lost = {}
  /\ missedReads = {} /\ restarts = 0

\* An event that hella has had a chance to see.
Seen(e) == now >= pulseAt[e] /\ (e.injected => e \in fired)

-----------------------------------------------------------------------------
(***************************************************************************)
(* The injection ledger                                                    *)
(***************************************************************************)

\* The bot (apps/inject_daemon.py) commits the shot's row ...
CommitRow(e) ==
  /\ e.injected /\ ledgerAt[e] = Never
  /\ ledgerAt' = [ledgerAt EXCEPT ![e] = now]
  /\ UNCHANGED <<process, progress, tables, fired, pulseAt, now, history>>

MayFire(e) == ledgerAt[e] # Never

\* ... and then writes the pulse to the FIFO, at once or much later.  The
\* correlator adds it to samples that are some seconds old already.
Fire(e) ==
  /\ e.injected /\ e \notin fired /\ MayFire(e)
  /\ fired' = fired \union {e}
  /\ \E t \in (now - BufferDepth)..now : pulseAt' = [pulseAt EXCEPT ![e] = t]
  /\ UNCHANGED <<process, progress, tables, ledgerAt, now, history>>

\* What the ledger query returns now.
Ledger == {e \in Event : ledgerAt[e] # Never /\ ledgerAt[e] >= now - Lookback}

\* Mutant: the cache is read once and kept.
FreshForEver == cacheAt # Never

Fresh == cacheAt # Never /\ now - cacheAt < CacheTTL

\* _refresh_injections without force.
Refreshed == IF Fresh THEN cache ELSE Ledger
RefreshedAt == IF Fresh THEN cacheAt ELSE now

\* Mutant: the recheck before a dump goes through the cache.
RecheckedFromCache == Refreshed

\* _recheck_injection reads the ledger again, whatever the cache's age.
Rechecked == Ledger

\* The query raises after the stamp is set: what the cache held passes for fresh.
ReadFails(contents) ==
  /\ cache' = contents /\ cacheAt' = now
  /\ missedReads' = missedReads \union {now}
  /\ Cardinality(missedReads') <= MaxMissed

\* _cand_injection_match and _injection_match: a trial or cluster x and a row.
Matches(x, e) ==
  e \in x.like /\ pulseAt[x.event] - ledgerAt[e] \in -MatchWindow..MatchWindow

Known(x, ledger) == \E e \in ledger : Matches(x, e)

-----------------------------------------------------------------------------
(***************************************************************************)
(* _trigger, seen from its callers: "fast" or the gulp.  The fate of its    *)
(* request and the row it leaves are Trigger.tla's.                         *)
(***************************************************************************)

Row(name, event, by, action, cluster) ==
  [name |-> name, event |-> event, by |-> by, action |-> action,
   cluster |-> cluster]

\* The call is refused or suppressed at once and leaves its row in the table,
\* before those its caller writes after it returns (rest); or it sends its
\* request, and the rows are written when the reply is in.
\* x is the trial or cluster the dump is for.
Triggers(x, table, row, rest) ==
  \/ /\ triggerRows' = table \union {[row EXCEPT !.action = "refused"]} \union rest
     /\ UNCHANGED <<calls, requests>>
  \/ /\ triggerRows' = table
     /\ calls' = calls \union {[row |-> row, rest |-> rest]}
     /\ requests' = requests \union {[event |-> x.event, like |-> x.like, at |-> now]}

\* The rows written when a call's reply is in: its own and its caller's rest.
RowsAfterCall(call, action) ==
  {[call.row EXCEPT !.action = action]} \union call.rest

\* The reply is in: OK, or anything else ("failed" and "refused_daemon").
CallEnds(call) ==
  /\ call \in calls
  /\ calls' = calls \ {call}
  /\ \E action \in {"triggered", "failed"} :
       triggerRows' = triggerRows \union RowsAfterCall(call, action)
  /\ UNCHANGED <<cache, cacheAt, pendingFast, lastFast, progress, clusterRows,
                 statsRows, bot, now, history>>

\* A row cannot be written: what the call still had to write is lost.
CallRaises(call) ==
  /\ call \in calls
  /\ calls' = calls \ {call}
  /\ lost' = lost \union {call.row.by}
  /\ UNCHANGED <<cache, cacheAt, pendingFast, lastFast, progress, tables, bot,
                 now, requests, overtaken, missedReads, restarts>>

-----------------------------------------------------------------------------
(***************************************************************************)
(* new_event_name draws at random and checks the clusters and triggers     *)
(* tables and the names it is told to exclude.                             *)
(***************************************************************************)

NamesInDB == {r.name : r \in clusterRows} \union {r.name : r \in triggerRows}

NamesPending == {n \in Name : pendingFast[n] # None}

-----------------------------------------------------------------------------
(***************************************************************************)
(* _fast_path                                                              *)
(***************************************************************************)

Worthy(b) == {t \in b.trials : ~ t.vetoed /\ ~ Known(t, Refreshed)}

Best(b) == {t \in Worthy(b) : \A u \in Worthy(b) : t.snr >= u.snr}

Judge(b) ==
  /\ b \notin judged
  /\ \A t \in b.trials : Seen(t.event)
  /\ judged' = judged \union {b}
  /\ UNCHANGED <<processed, clusterRows, statsRows, bot, now, overtaken, lost,
                 restarts>>

\* No trial is left, every one being weak, vetoed or a known injection.
FastNothing(b) ==
  /\ Judge(b)
  /\ Best(b) = {}
  /\ cache' = Refreshed /\ cacheAt' = RefreshedAt
  /\ UNCHANGED <<pendingFast, lastFast, calls, triggerRows, requests, missedReads>>

\* The brightest trial is an injection after all, and the batch is dropped, or
\* an attempt less than FastGap ago rules this one out.
FastGivesUp(b) ==
  /\ Judge(b)
  /\ \E t \in Best(b) : \/ Known(t, Rechecked)
                        \/ lastFast # Never /\ now - lastFast < FastGap
  /\ cache' = Ledger /\ cacheAt' = now
  /\ UNCHANGED <<pendingFast, lastFast, calls, triggerRows, requests, missedReads>>

FastTriggers(b) ==
  /\ Judge(b)
  /\ ~ (lastFast # Never /\ now - lastFast < FastGap)
  /\ \E t \in Best(b), n \in Name \ (NamesInDB \union NamesPending) :
       /\ ~ Known(t, Rechecked)
       /\ pendingFast' = [pendingFast EXCEPT ![n] = t.event]
       /\ Triggers(t, triggerRows, Row(n, t.event, "fast", "sent", None), {})
  /\ lastFast' = now
  /\ cache' = Ledger /\ cacheAt' = now
  /\ UNCHANGED missedReads

\* An exception ends the batch's task: a ledger read fails, the first one or the
\* recheck, or no name can be drawn.
FastRaises(b) ==
  /\ Judge(b)
  /\ \/ ~ Fresh /\ ReadFails(cache) /\ UNCHANGED lastFast
     \/ Best(b) # {} /\ ReadFails(Refreshed) /\ UNCHANGED lastFast
     \/ /\ ~ (lastFast # Never /\ now - lastFast < FastGap)
        /\ \E t \in Best(b) : ~ Known(t, Rechecked)
        /\ lastFast' = now
        /\ cache' = Ledger /\ cacheAt' = now
        /\ UNCHANGED missedReads
  /\ UNCHANGED <<pendingFast, calls, triggerRows, requests>>

-----------------------------------------------------------------------------
(***************************************************************************)
(* _process: the verdict on each cluster of gulp g                         *)
(***************************************************************************)

ClustersOf(g) == {c \in Cluster : c.gulp = g}

Within(c, d) == c.samp - d.samp <= OccWindow /\ d.samp - c.samp <= OccWindow

\* A DM-floor leak taints every cluster of the gulp near it in time.
Tainted(c) == \E d \in ClustersOf(c.gulp) : d.leaky /\ Within(c, d)

\* A cluster that only the injection match can keep from triggering.
Clean(c) == c.strong /\ ~ c.vetoed /\ ~ c.leaky /\ ~ Tainted(c)

\* Whether a cluster before c was rechecked, which refreshed the cache.
AfterRecheck(c) ==
  \E d \in ClustersOf(c.gulp) : d.id < c.id /\ Clean(d) /\ ~ Known(d, Refreshed)

\* The cache when c's turn comes.
CacheBefore(c) == IF AfterRecheck(c) THEN Ledger ELSE Refreshed

\* The tag "injection": by the cache of the moment, or by c's own recheck.
TaggedInjection(c) ==
  \/ Known(c, CacheBefore(c))
  \/ Clean(c) /\ Known(c, Rechecked)

\* The fast triggers that wait for a cluster of event e and have not expired.
Waiting(e) == {n \in Name : pendingFast[n] = e /\ now - pulseAt[e] <= FastExpiry}

\* Each takes the next cluster of its event, in the order of the list.
Rank(c) == Cardinality({d \in ClustersOf(c.gulp) : d.event = c.event /\ d.id < c.id})

FastMatched(c) == Rank(c) < Cardinality(Waiting(c.event))

ToStore(g) ==
  {c \in ClustersOf(g) : c.tiered \/ TaggedInjection(c) \/ FastMatched(c)}

ToTrigger(g) ==
  {c \in ClustersOf(g) : Clean(c) /\ ~ TaggedInjection(c) /\ ~ FastMatched(c)}

\* A matched cluster takes its fast trigger's name; the others mint theirs,
\* unlike one another and unlike any name in the database.
NamesGiven(g) ==
  LET matched == {c \in ToStore(g) : FastMatched(c)}
      minted == ToStore(g) \ matched
      inDB == NamesInDB
  IN  {name \in [ToStore(g) -> Name] :
         /\ \A c \in matched : name[c] \in Waiting(c.event)
         /\ \A c \in minted : name[c] \notin inDB
         /\ \A c \in matched : \A d \in matched \ {c} : name[c] # name[d]
         /\ \A c \in minted : \A d \in minted \ {c} : name[c] # name[d]}

\* insert_clusters: a name that is taken drops its row alone.
Inserted(g, name) ==
  {c \in ToStore(g) : /\ \A r \in clusterRows : r.name # name[c]
                      /\ \A d \in ToStore(g) : d.id < c.id => name[d] # name[c]}

ClusterRowsOf(g, name) ==
  {[name |-> name[c], cluster |-> c, injection |-> TaggedInjection(c),
    fast |-> FastMatched(c), at |-> now] : c \in Inserted(g, name)}

\* Mutant: the ids of the stored rows are paired with all rows in order, so a
\* dropped row shifts them.
IdOfShifted(g, name, c) ==
  LET kept == Inserted(g, name)
      place(d, S) == Cardinality({x \in S : x.id < d.id})
      same == {d \in kept : place(d, kept) = place(c, ToStore(g))}
  IN  IF same = {} THEN None ELSE CHOOSE d \in same : TRUE

\* id_by_name: the cluster of this gulp stored under c's name, if there is one.
IdOf(g, name, c) ==
  LET same == {d \in Inserted(g, name) : name[d] = name[c]}
  IN  IF same = {} THEN None ELSE CHOOSE d \in same : TRUE

\* The rows of fast triggers get the cluster that was just stored.
Linked(g, name) ==
  {IF /\ r.cluster = None
      /\ \E c \in Inserted(g, name) : name[c] = r.name
      /\ \E c \in ToStore(g) : FastMatched(c) /\ name[c] = r.name
   THEN [r EXCEPT !.cluster = CHOOSE c \in Inserted(g, name) : name[c] = r.name]
   ELSE r : r \in triggerRows}

\* Expired fast triggers leave the waiting list, and those the clusters S matched.
PendingAfter(S, name) ==
  [n \in Name |->
     IF pendingFast[n] = None \/ n \notin Waiting(pendingFast[n]) THEN None
     ELSE IF \E c \in S : FastMatched(c) /\ name[c] = n THEN None
     ELSE pendingFast[n]]

\* The row of a cluster that deserves a dump, before its action is known.
TriggerRow(g, name, c) == Row(name[c], c.event, g, "sent", IdOf(g, name, c))

\* The brightest triggers; the others are only recorded.
Brightest(S) == {c \in S : \A d \in S : c.snr >= d.snr}

Duplicates(g, name, first) ==
  {[TriggerRow(g, name, c) EXCEPT !.action = "suppressed"] :
     c \in ToTrigger(g) \ {first}}

-----------------------------------------------------------------------------
(***************************************************************************)
(* _process: its writes                                                    *)
(***************************************************************************)

Rechecks(g) == \E c \in ClustersOf(g) : Clean(c) /\ ~ Known(c, Refreshed)

NamesUnderWay == {call.row.name : call \in calls}

\* What every outcome has in common, up to the clusters' insert.
Begin(g, name) ==
  /\ processed' = processed \union {g}
  /\ cache' = IF Rechecks(g) THEN Ledger ELSE Refreshed
  /\ cacheAt' = IF Rechecks(g) THEN now ELSE RefreshedAt
  /\ pendingFast' = PendingAfter(ToStore(g), name)
  /\ UNCHANGED <<lastFast, judged, bot, now, missedReads, restarts>>

Store(g, name) ==
  /\ clusterRows' = clusterRows \union ClusterRowsOf(g, name)
  /\ overtaken' = overtaken
       \union {name[c] : c \in {d \in Inserted(g, name) : name[d] \in NamesUnderWay}}

\* Mutant: the row counts what was to be stored.
StatsOfAll(g, name) ==
  [gulp |-> g, stored |-> Cardinality(ToStore(g)), would |-> Cardinality(ToTrigger(g))]

StatsOf(g, name) ==
  [gulp |-> g, stored |-> Cardinality(Inserted(g, name)),
   would |-> Cardinality(ToTrigger(g))]

WriteStats(g, name) == statsRows' = statsRows \union {StatsOf(g, name)}

\* No cluster of the gulp deserves a dump.
ProcessQuiet(g, name) ==
  /\ Begin(g, name) /\ Store(g, name) /\ WriteStats(g, name)
  /\ ToTrigger(g) = {}
  /\ triggerRows' = Linked(g, name)
  /\ UNCHANGED <<calls, requests, lost>>

ProcessTriggers(g, name) ==
  /\ Begin(g, name) /\ Store(g, name) /\ WriteStats(g, name)
  /\ \E first \in Brightest(ToTrigger(g)) :
       Triggers(first, Linked(g, name), TriggerRow(g, name, first),
                Duplicates(g, name, first))
  /\ UNCHANGED lost

\* An exception (no name is left, the database is locked) ends the gulp with a
\* log line, before its clusters are stored or between two of its later writes.
ProcessRaises(g, name) ==
  /\ Begin(g, name)
  /\ \/ UNCHANGED <<tables, overtaken>>
     \/ /\ clusterRows' = clusterRows \union ClusterRowsOf(g, name)
        /\ overtaken' = overtaken \union {name[c] : c \in ToStore(g)}
        /\ \/ UNCHANGED <<triggerRows, statsRows>>
           \/ triggerRows' = Linked(g, name) /\ UNCHANGED statsRows
           \/ triggerRows' = Linked(g, name) /\ WriteStats(g, name)
  /\ lost' = lost \union {g}
  /\ UNCHANGED <<calls, requests>>

\* A ledger read fails: the one that opens the gulp, or a cluster's recheck, when
\* the clusters before it have taken their fast triggers' names.
ReadRaises(g, name) ==
  /\ processed' = processed \union {g}
  /\ \/ ~ Fresh /\ ReadFails(cache) /\ UNCHANGED pendingFast
     \/ \E c \in ClustersOf(g) :
          /\ Clean(c) /\ ~ Known(c, CacheBefore(c))
          /\ ReadFails(CacheBefore(c))
          /\ pendingFast' = PendingAfter({d \in ToStore(g) : d.id < c.id}, name)
  /\ lost' = lost \union {g}
  /\ UNCHANGED <<lastFast, calls, judged, tables, bot, now, requests, overtaken,
                 restarts>>

Process(g) ==
  /\ g \notin processed
  /\ \A c \in ClustersOf(g) : Seen(c.event)
  /\ \E name \in NamesGiven(g) :
       \/ ProcessQuiet(g, name) \/ ProcessTriggers(g, name)
       \/ ProcessRaises(g, name) \/ ReadRaises(g, name)

-----------------------------------------------------------------------------
Restart ==
  /\ restarts < MaxRestarts
  /\ restarts' = restarts + 1
  /\ cache' = {} /\ cacheAt' = Never
  /\ pendingFast' = [n \in Name |-> None]
  /\ lastFast' = Never
  /\ calls' = {}
  /\ lost' = lost \union {call.row.by : call \in calls}
  /\ UNCHANGED <<progress, tables, bot, now, requests, overtaken, missedReads>>

Tick ==
  /\ now < MaxTime
  /\ now' = now + 1
  /\ UNCHANGED <<process, progress, tables, bot, history>>

Next ==
  \/ \E e \in Event : CommitRow(e) \/ Fire(e)
  \/ \E b \in Batch : FastNothing(b) \/ FastGivesUp(b) \/ FastTriggers(b) \/ FastRaises(b)
  \/ \E g \in Gulp : Process(g)
  \/ \E call \in calls : CallEnds(call) \/ CallRaises(call)
  \/ Restart
  \/ Tick

Spec == Init /\ [][Next]_vars

-----------------------------------------------------------------------------
(***************************************************************************)
(* What the decision chain promises                                        *)
(***************************************************************************)

Action == {"sent", "refused", "triggered", "failed", "suppressed"}

TriggerRowType ==
  [name: Name, event: Event, by: Gulp \union {"fast"}, action: Action,
   cluster: Cluster \union {None}]

\* The type invariant of the tables, the process and the history.
TypeOK ==
  /\ cache \subseteq Event /\ cacheAt \in Nat \union {Never}
  /\ pendingFast \in [Name -> Event \union {None}]
  /\ lastFast \in Nat \union {Never}
  /\ calls \subseteq [row: TriggerRowType, rest: SUBSET TriggerRowType]
  /\ judged \subseteq Batch /\ processed \subseteq Gulp
  /\ ledgerAt \in [Event -> Nat \union {Never}]
  /\ clusterRows \subseteq [name: Name, cluster: Cluster, injection: BOOLEAN,
                             fast: BOOLEAN, at: Nat]
  /\ triggerRows \subseteq [name: Name, event: Event, by: Gulp \union {"fast"},
                             action: Action \ {"sent"}, cluster: Cluster \union {None}]
  /\ statsRows \subseteq [gulp: Gulp, stored: Nat, would: Nat]
  /\ fired \subseteq Event /\ pulseAt \in [Event -> Int] /\ now \in 0..MaxTime
  /\ requests \subseteq [event: Event, like: SUBSET Shots, at: Nat]
  /\ overtaken \subseteq Name /\ lost \subseteq Gulp \union {"fast"}
  /\ missedReads \subseteq 0..MaxTime
  /\ restarts \in 0..MaxRestarts

(***************************************************************************)
(* No dump is asked for an injected pulse, by either path, whatever the    *)
(* age of the cache and whichever reads failed, if its row is among those  *)
(* that are read and what was seen of it agrees with the row in beam, DM   *)
(* and time: a pulse that left the FIFO too late, or a fragment off in     *)
(* beam or DM, is beyond the match.  It takes the bot's order (the row     *)
(* before the pulse) and both rechecks.                                    *)
(***************************************************************************)
InjectionNeverDumped ==
  \A r \in requests :
    r.event.injected =>
      /\ ledgerAt[r.event] # Never
      /\ Matches(r, r.event) => ledgerAt[r.event] < r.at - Lookback

(***************************************************************************)
(* A stored cluster of an injected pulse that agrees with the row is       *)
(* tagged so, dumpable or not, when its row was in the ledger for CacheTTL *)
(* and no read failed in that time (a read that fails leaves the old cache *)
(* stamped as fresh): the injection report and the web pages read the tag. *)
(***************************************************************************)
InjectionTagged ==
  \A r \in clusterRows :
    LET shot == r.cluster.event
    IN  /\ shot.injected /\ ledgerAt[shot] # Never
        /\ ledgerAt[shot] \in (r.at - Lookback)..(r.at - CacheTTL)
        /\ Matches(r.cluster, shot)
        /\ \A t \in missedReads : t <= r.at - CacheTTL \/ t > r.at
        => r.injection

RowsBy(g) == {r \in triggerRows : r.by = g}

OwedBy(g) ==
  UNION {{call.row} \union call.rest : call \in {k \in calls : k.row.by = g}}

(***************************************************************************)
(* The funnel row of a gulp says how many clusters were stored and how     *)
(* many would trigger, and each of the latter has its row in triggers, or  *)
(* is owed one by a call under way, unless an exception or a restart came  *)
(* between: the dump went to one cluster, the record to all.               *)
(***************************************************************************)
FunnelAccounts ==
  \A s \in statsRows :
    /\ s.stored = Cardinality({r \in clusterRows : r.cluster.gulp = s.gulp})
    /\ s.gulp \notin lost =>
         s.would = Cardinality(RowsBy(s.gulp)) + Cardinality(OwedBy(s.gulp))

(***************************************************************************)
(* A trigger's cluster is the one that is stored under the trigger's name, *)
(* whichever rows of its gulp the insert dropped, and only a fast trigger  *)
(* has none: a name can be taken under the insert's feet by a fast trigger *)
(* alone, and then it is the name of a stored cluster.                     *)
(***************************************************************************)
LinkSound ==
  \A r \in triggerRows :
    r.by # "fast" \/ r.cluster # None =>
      \E k \in clusterRows : k.name = r.name /\ k.cluster = r.cluster

(***************************************************************************)
(* A fast trigger and the cluster that took its name are joined in the     *)
(* database, however the reply, the gulp and the restarts interleave; only *)
(* a gulp that overtakes the trigger's own call, or is cut short, leaves   *)
(* them apart.                                                             *)
(***************************************************************************)
FastRowLinked ==
  \A r \in triggerRows, k \in clusterRows :
    r.by = "fast" /\ k.fast /\ k.name = r.name /\ r.name \notin overtaken =>
      r.cluster = k.cluster

(***************************************************************************)
(* What triggers.cluster_id and the event names promise to whoever joins   *)
(* the tables, whose rows are as they should be.                           *)
(***************************************************************************)
RowsJoin == TypeOK /\ LinkSound /\ FastRowLinked

(***************************************************************************)
(* What the comment in _process says of a cluster that takes a fast        *)
(* trigger's name ("The fast path already triggered and named this event") *)
(* and the card's outcome ("dumped by the fast path"): its dump was asked  *)
(* for and is under way or done.                                           *)
(***************************************************************************)
FastTriggeredWasDumped ==
  \A k \in clusterRows :
    k.fast => \/ \E r \in triggerRows : r.name = k.name /\ r.action = "triggered"
              \/ \E call \in calls : call.row.name = k.name
              \/ "fast" \in lost

=============================================================================
