---------------------------- MODULE DecisionProofs ----------------------------
(***************************************************************************)
(* Theorems about the decision chain, for every sky, every set of batches  *)
(* and clusters, every cache age and every length of the ledger's window.  *)
(***************************************************************************)
EXTENDS Decision, FiniteSetTheorems, TLAPS

-----------------------------------------------------------------------------
(***************************************************************************)
(* Types                                                                   *)
(***************************************************************************)

LEMMA InputTypes ==
  /\ \A e \in Event : e.at \in Nat /\ e.injected \in BOOLEAN
  /\ \A b \in Batch : \A t \in b.trials :
       t.event \in Event /\ t.snr \in Nat /\ t.like \subseteq Shots
  /\ \A c \in Cluster : /\ c.id \in Nat /\ c.gulp \in Gulp /\ c.event \in Event
                        /\ c.samp \in Nat /\ c.snr \in Nat /\ c.like \subseteq Shots
BY InputAssumption, ClusterAssumption

LEMMA BoundTypes ==
  /\ CacheTTL \in Nat /\ Lookback \in Nat /\ FastGap \in Nat /\ FastExpiry \in Nat
  /\ OccWindow \in Nat /\ MaxTime \in Nat /\ MaxRestarts \in Nat
  /\ MatchWindow \in Nat /\ BufferDepth \in Nat
BY BoundAssumption

ClusterRowType ==
  [name: Name, cluster: Cluster, injection: BOOLEAN, fast: BOOLEAN, at: Nat]

\* A row in the table, as opposed to one that is owed by a call.
WrittenRowType ==
  [name: Name, event: Event, by: Gulp \union {"fast"},
   action: Action \ {"sent"}, cluster: Cluster \union {None}]

LEMMA RowTypes ==
  ASSUME NEW n \in Name, NEW e \in Event, NEW by \in Gulp \union {"fast"},
         NEW c \in Cluster \union {None}
  PROVE  /\ Row(n, e, by, "sent", c) \in TriggerRowType
         /\ \A a \in Action \ {"sent"} :
              [Row(n, e, by, "sent", c) EXCEPT !.action = a] \in WrittenRowType
BY DEF Row, TriggerRowType, WrittenRowType, Action

LEMMA Answered ==
  ASSUME NEW r \in TriggerRowType, NEW a \in Action
  PROVE  /\ [r EXCEPT !.action = a] \in TriggerRowType
         /\ a # "sent" => [r EXCEPT !.action = a] \in WrittenRowType
         /\ [r EXCEPT !.action = a].name = r.name
         /\ [r EXCEPT !.action = a].event = r.event
         /\ [r EXCEPT !.action = a].by = r.by
         /\ [r EXCEPT !.action = a].cluster = r.cluster
BY DEF TriggerRowType, WrittenRowType, Action

LEMMA CacheTypes ==
  ASSUME TypeOK
  PROVE  /\ Ledger \subseteq Event /\ Refreshed \subseteq Event
         /\ RefreshedAt \in Nat \union {Never} /\ now \in Nat
BY BoundTypes DEF TypeOK, Ledger, Refreshed, RefreshedAt

\* What NamesGiven says of each cluster and of each two.
LEMMA NamesTell ==
  ASSUME NEW g \in Gulp, NEW name \in NamesGiven(g)
  PROVE  /\ name \in [ToStore(g) -> Name]
         /\ \A c \in ToStore(g) :
              /\ FastMatched(c) => name[c] \in Waiting(c.event)
              /\ ~ FastMatched(c) => name[c] \notin NamesInDB
              /\ \A d \in ToStore(g) \ {c} :
                   FastMatched(c) = FastMatched(d) => name[c] # name[d]
<1> DEFINE matched == {c \in ToStore(g) : FastMatched(c)}
           minted == ToStore(g) \ matched
<1>1. /\ name \in [ToStore(g) -> Name]
      /\ \A c \in matched : name[c] \in Waiting(c.event)
      /\ \A c \in minted : name[c] \notin NamesInDB
      /\ \A c \in matched : \A d \in matched \ {c} : name[c] # name[d]
      /\ \A c \in minted : \A d \in minted \ {c} : name[c] # name[d]
  BY Zenon DEF NamesGiven
<1>2. \A c \in ToStore(g) : (FastMatched(c) <=> c \in matched) /\ (~ FastMatched(c) <=> c \in minted)
  OBVIOUS
<1> QED
  BY <1>1, <1>2, Zenon

\* What a gulp stores and triggers are clusters of its own, under names.
LEMMA GulpTypes ==
  ASSUME TypeOK, NEW g \in Gulp, NEW name \in NamesGiven(g)
  PROVE  /\ ToStore(g) \subseteq ClustersOf(g) /\ ToTrigger(g) \subseteq ToStore(g)
         /\ Inserted(g, name) \subseteq ToStore(g)
         /\ ClustersOf(g) \subseteq Cluster /\ \A c \in ClustersOf(g) : c.gulp = g
         /\ \A c \in ToStore(g) : name[c] \in Name
<1>1. ToTrigger(g) \subseteq ToStore(g)
  BY ClusterAssumption DEF ToTrigger, ToStore, Clean, ClustersOf
<1>2. name \in [ToStore(g) -> Name]
  BY NamesTell
<1> QED
  BY <1>1, <1>2 DEF ToStore, Inserted, ClustersOf

LEMMA IdOfType ==
  ASSUME TypeOK, NEW g \in Gulp, NEW name \in NamesGiven(g), NEW c \in ToStore(g)
  PROVE  /\ IdOf(g, name, c) \in Cluster \union {None}
         /\ IdOf(g, name, c) # None =>
              IdOf(g, name, c) \in Inserted(g, name) /\ name[IdOf(g, name, c)] = name[c]
         /\ IdOf(g, name, c) = None => \A d \in Inserted(g, name) : name[d] # name[c]
<1> DEFINE same == {d \in Inserted(g, name) : name[d] = name[c]}
<1>1. CASE same = {}
  BY <1>1 DEF IdOf
<1>2. CASE same # {}
  <2>1. IdOf(g, name, c) \in same
    BY <1>2 DEF IdOf
  <2>2. Inserted(g, name) \subseteq Cluster
    BY GulpTypes
  <2> QED
    BY <2>1, <2>2, ClusterAssumption
<1> QED
  BY <1>1, <1>2

LEMMA TriggerRowTypes ==
  ASSUME TypeOK, NEW g \in Gulp, NEW name \in NamesGiven(g), NEW c \in ToTrigger(g)
  PROVE  /\ TriggerRow(g, name, c) \in TriggerRowType
         /\ TriggerRow(g, name, c).name = name[c] /\ TriggerRow(g, name, c).by = g
         /\ TriggerRow(g, name, c).event = c.event
         /\ TriggerRow(g, name, c).cluster = IdOf(g, name, c)
<1>1. c \in ToStore(g) /\ c \in Cluster /\ name[c] \in Name
  BY GulpTypes
<1>2. IdOf(g, name, c) \in Cluster \union {None} /\ c.event \in Event
  BY <1>1, IdOfType, InputTypes
<1>3. TriggerRow(g, name, c) \in TriggerRowType
  BY <1>1, <1>2, RowTypes DEF TriggerRow
<1> QED
  BY <1>3 DEF TriggerRow, Row

LEMMA DuplicateTypes ==
  ASSUME TypeOK, NEW g \in Gulp, NEW name \in NamesGiven(g), NEW first \in ToTrigger(g)
  PROVE  /\ Duplicates(g, name, first) \subseteq TriggerRowType
         /\ Duplicates(g, name, first) \subseteq WrittenRowType
<1> SUFFICES ASSUME NEW c \in ToTrigger(g) \ {first}
             PROVE  LET r == [TriggerRow(g, name, c) EXCEPT !.action = "suppressed"]
                    IN  r \in TriggerRowType /\ r \in WrittenRowType
  BY DEF Duplicates
<1>1. TriggerRow(g, name, c) \in TriggerRowType
  BY TriggerRowTypes
<1> QED
  BY <1>1, Answered DEF Action

LEMMA ClusterRowTypes ==
  ASSUME TypeOK, NEW g \in Gulp, NEW name \in NamesGiven(g)
  PROVE  ClusterRowsOf(g, name) \subseteq ClusterRowType
<1> SUFFICES ASSUME NEW c \in Inserted(g, name)
             PROVE  [name |-> name[c], cluster |-> c, injection |-> TaggedInjection(c),
                     fast |-> FastMatched(c), at |-> now] \in ClusterRowType
  BY DEF ClusterRowsOf
<1>1. c \in Cluster /\ name[c] \in Name /\ now \in Nat
  BY GulpTypes, CacheTypes
<1>2. TaggedInjection(c) \in BOOLEAN
  BY DEF TaggedInjection
<1>3. FastMatched(c) \in BOOLEAN
  BY DEF FastMatched
<1> QED
  BY <1>1, <1>2, <1>3 DEF ClusterRowType

\* A link changes the cluster of a row and nothing else.
LEMMA LinkedTypes ==
  ASSUME TypeOK, NEW g \in Gulp, NEW name \in NamesGiven(g), NEW s \in Linked(g, name)
  PROVE  /\ s \in WrittenRowType
         /\ \E r \in triggerRows :
              \/ s = r
              \/ /\ r.cluster = None /\ s.cluster \in Inserted(g, name)
                 /\ name[s.cluster] = r.name
                 /\ s.name = r.name /\ s.event = r.event /\ s.by = r.by
                 /\ s.action = r.action
<1> DEFINE Taken(r) == /\ r.cluster = None
                       /\ \E c \in Inserted(g, name) : name[c] = r.name
                       /\ \E c \in ToStore(g) : FastMatched(c) /\ name[c] = r.name
           Pick(r) == CHOOSE c \in Inserted(g, name) : name[c] = r.name
<1>1. PICK r \in triggerRows : s = IF Taken(r) THEN [r EXCEPT !.cluster = Pick(r)] ELSE r
  BY Zenon DEF Linked
<1>2. r \in WrittenRowType
  BY DEF TypeOK, WrittenRowType
<1>3. CASE ~ Taken(r)
  BY <1>1, <1>2, <1>3
<1>4. CASE Taken(r)
  <2>1. Pick(r) \in Inserted(g, name) /\ name[Pick(r)] = r.name
    BY <1>4
  <2>2. Pick(r) \in Cluster
    BY <2>1, GulpTypes
  <2>3. s = [r EXCEPT !.cluster = Pick(r)]
    BY <1>1, <1>4
  <2>4. /\ s \in WrittenRowType /\ s.cluster = Pick(r)
        /\ s.name = r.name /\ s.event = r.event /\ s.by = r.by /\ s.action = r.action
    BY <1>2, <2>2, <2>3 DEF WrittenRowType
  <2> QED
    BY <1>4, <2>1, <2>4
<1> QED
  BY <1>3, <1>4

LEMMA StatsTypes ==
  ASSUME TypeOK, NEW g \in Gulp, NEW name \in NamesGiven(g)
  PROVE  /\ IsFiniteSet(ToStore(g)) /\ IsFiniteSet(ToTrigger(g))
         /\ IsFiniteSet(Inserted(g, name))
         /\ StatsOf(g, name) \in [gulp: Gulp, stored: Nat, would: Nat]
<1>1. /\ ToStore(g) \subseteq Cluster /\ ToTrigger(g) \subseteq Cluster
      /\ Inserted(g, name) \subseteq Cluster
  BY GulpTypes
<1>2. /\ IsFiniteSet(ToStore(g)) /\ IsFiniteSet(ToTrigger(g))
      /\ IsFiniteSet(Inserted(g, name))
  BY <1>1, ClusterAssumption, FS_Subset
<1>3. Cardinality(Inserted(g, name)) \in Nat /\ Cardinality(ToTrigger(g)) \in Nat
  BY <1>2, FS_CardinalityType
<1> QED
  BY <1>2, <1>3 DEF StatsOf

CallType == [row: TriggerRowType, rest: SUBSET TriggerRowType]

RequestType == [event: Event, like: SUBSET Shots, at: Nat]

\* What a failed read of the ledger leaves of a gulp.
LEMMA ReadRaisesMoves ==
  ASSUME NEW g \in Gulp, NEW name \in NamesGiven(g), ReadRaises(g, name)
  PROVE  /\ processed' = processed \union {g} /\ lost' = lost \union {g}
         /\ UNCHANGED <<lastFast, calls, judged, clusterRows, triggerRows, statsRows,
                        ledgerAt, fired, pulseAt, now, requests, overtaken, restarts>>
         /\ cacheAt' = now /\ missedReads' = missedReads \union {now}
         /\ cache' \in {cache, Refreshed, Ledger}
         /\ pendingFast' = pendingFast \/ \E S : pendingFast' = PendingAfter(S, name)
<1>1. /\ processed' = processed \union {g} /\ lost' = lost \union {g}
      /\ UNCHANGED <<lastFast, calls, judged, tables, bot, now, requests, overtaken,
                     restarts>>
  BY DEF ReadRaises
<1>2. CASE ~ Fresh /\ ReadFails(cache) /\ UNCHANGED pendingFast
  BY <1>1, <1>2 DEF ReadFails, tables, bot
<1>3. ASSUME NEW c \in ClustersOf(g), ReadFails(CacheBefore(c)),
             pendingFast' = PendingAfter({d \in ToStore(g) : d.id < c.id}, name)
      PROVE  /\ cacheAt' = now /\ missedReads' = missedReads \union {now}
             /\ cache' \in {cache, Refreshed, Ledger}
             /\ \E S : pendingFast' = PendingAfter(S, name)
  BY <1>3 DEF ReadFails, CacheBefore
<1> QED
  BY <1>1, <1>2, <1>3 DEF ReadRaises, tables, bot

\* Every conjunct that a step of _process can disturb.
LEMMA BeginTypes ==
  ASSUME TypeOK, NEW g \in Gulp, NEW name \in NamesGiven(g), Begin(g, name)
  PROVE  /\ cache' \subseteq Event /\ cacheAt' \in Nat \union {Never}
         /\ pendingFast' \in [Name -> Event \union {None}]
         /\ lastFast' \in Nat \union {Never}
         /\ judged' \subseteq Batch /\ processed' \subseteq Gulp
         /\ ledgerAt' \in [Event -> Nat \union {Never}] /\ fired' \subseteq Event
         /\ pulseAt' \in [Event -> Int] /\ missedReads' \subseteq 0..MaxTime
         /\ now' \in 0..MaxTime /\ restarts' \in 0..MaxRestarts
<1>1. cache' \subseteq Event /\ cacheAt' \in Nat \union {Never}
  BY CacheTypes DEF Begin
<1>2. pendingFast' \in [Name -> Event \union {None}]
  <2>1. \A n \in Name : pendingFast[n] \in Event \union {None}
    BY DEF TypeOK
  <2> QED
    BY <2>1 DEF Begin, PendingAfter
<1> QED
  BY <1>1, <1>2 DEF Begin, TypeOK, bot

LEMMA TriggersTypes ==
  ASSUME calls \subseteq CallType, requests \subseteq RequestType, now \in Nat,
         NEW x, x.event \in Event, x.like \subseteq Shots,
         NEW table, table \subseteq WrittenRowType,
         NEW row \in TriggerRowType,
         NEW rest, rest \subseteq WrittenRowType, rest \subseteq TriggerRowType,
         Triggers(x, table, row, rest)
  PROVE  /\ calls' \subseteq CallType /\ requests' \subseteq RequestType
         /\ triggerRows' \subseteq WrittenRowType
<1>1. CASE /\ triggerRows' = table \union {[row EXCEPT !.action = "refused"]} \union rest
           /\ UNCHANGED <<calls, requests>>
  <2>1. [row EXCEPT !.action = "refused"] \in WrittenRowType
    BY Answered DEF Action
  <2> QED
    BY <1>1, <2>1
<1>2. CASE /\ triggerRows' = table
           /\ calls' = calls \union {[row |-> row, rest |-> rest]}
           /\ requests' = requests \union {[event |-> x.event, like |-> x.like, at |-> now]}
  <2>1. [event |-> x.event, like |-> x.like, at |-> now] \in RequestType
    BY DEF RequestType
  <2>2. [row |-> row, rest |-> rest] \in CallType
    BY DEF CallType
  <2> QED
    BY <1>2, <2>1, <2>2
<1> QED
  BY <1>1, <1>2 DEF Triggers

LEMMA ProcessTypes ==
  ASSUME TypeOK, NEW g \in Gulp, Process(g)
  PROVE  TypeOK'
<1> PICK name \in NamesGiven(g) :
      \/ ProcessQuiet(g, name) \/ ProcessTriggers(g, name)
      \/ ProcessRaises(g, name) \/ ReadRaises(g, name)
  BY DEF Process
<1>1. CASE ReadRaises(g, name)
  <2>1. /\ \A n \in Name : pendingFast[n] \in Event \union {None}
        /\ now \in 0..MaxTime
    BY DEF TypeOK
  <2>2. pendingFast' \in [Name -> Event \union {None}]
    <3>1. \A S : PendingAfter(S, name) \in [Name -> Event \union {None}]
      BY <2>1 DEF PendingAfter
    <3> QED
      BY <1>1, <3>1, ReadRaisesMoves DEF TypeOK
  <2>3. cache' \subseteq Event /\ cacheAt' \in Nat \union {Never}
    BY <1>1, ReadRaisesMoves, CacheTypes DEF TypeOK
  <2> QED
    BY <1>1, <2>1, <2>2, <2>3, ReadRaisesMoves DEF TypeOK
<1>2. CASE ~ ReadRaises(g, name)
  <2>0. Begin(g, name)
    BY <1>2 DEF ProcessQuiet, ProcessTriggers, ProcessRaises
  <2>1. /\ cache' \subseteq Event /\ cacheAt' \in Nat \union {Never}
        /\ pendingFast' \in [Name -> Event \union {None}]
        /\ lastFast' \in Nat \union {Never}
        /\ judged' \subseteq Batch /\ processed' \subseteq Gulp
        /\ ledgerAt' \in [Event -> Nat \union {Never}] /\ fired' \subseteq Event
        /\ pulseAt' \in [Event -> Int] /\ missedReads' \subseteq 0..MaxTime
        /\ now' \in 0..MaxTime /\ restarts' \in 0..MaxRestarts
    BY <2>0, BeginTypes
  <2>2. /\ clusterRows \union ClusterRowsOf(g, name) \subseteq ClusterRowType
        /\ statsRows \union {StatsOf(g, name)} \subseteq [gulp: Gulp, stored: Nat, would: Nat]
        /\ Linked(g, name) \subseteq WrittenRowType /\ triggerRows \subseteq WrittenRowType
    <3>1. /\ clusterRows \subseteq ClusterRowType /\ triggerRows \subseteq WrittenRowType
          /\ statsRows \subseteq [gulp: Gulp, stored: Nat, would: Nat]
      BY DEF TypeOK, ClusterRowType, WrittenRowType
    <3> QED
      BY <3>1, ClusterRowTypes, StatsTypes, LinkedTypes
  <2>3. overtaken \union {name[c] : c \in ToStore(g)} \subseteq Name
    BY GulpTypes DEF TypeOK
  <2>4. calls \subseteq CallType /\ requests \subseteq RequestType /\ now \in Nat
    BY CacheTypes DEF TypeOK, CallType, RequestType
  <2>5. /\ clusterRows' \subseteq ClusterRowType
        /\ statsRows' \subseteq [gulp: Gulp, stored: Nat, would: Nat]
        /\ overtaken' \subseteq Name /\ lost' \subseteq Gulp \union {"fast"}
        /\ triggerRows' \subseteq WrittenRowType
        /\ calls' \subseteq CallType /\ requests' \subseteq RequestType
    <3>0. /\ clusterRows \subseteq ClusterRowType /\ overtaken \subseteq Name
          /\ statsRows \subseteq [gulp: Gulp, stored: Nat, would: Nat]
          /\ lost \subseteq Gulp \union {"fast"}
      BY DEF TypeOK, ClusterRowType
    <3>1. ASSUME Store(g, name)
          PROVE  clusterRows' \subseteq ClusterRowType /\ overtaken' \subseteq Name
      <4>1. overtaken' \subseteq overtaken \union {name[c] : c \in ToStore(g)}
        BY <3>1, GulpTypes DEF Store
      <4> QED
        BY <2>2, <2>3, <3>1, <4>1 DEF Store
    <3>2. CASE ProcessQuiet(g, name)
      BY <2>2, <2>4, <3>0, <3>1, <3>2 DEF ProcessQuiet, WriteStats
    <3>3. CASE ProcessTriggers(g, name)
      <4>1. PICK first \in Brightest(ToTrigger(g)) :
              Triggers(first, Linked(g, name), TriggerRow(g, name, first),
                       Duplicates(g, name, first))
        BY <3>3 DEF ProcessTriggers
      <4>2. first \in ToTrigger(g)
        BY <4>1 DEF Brightest
      <4>3. first.event \in Event /\ first.like \subseteq Shots
        BY <4>2, GulpTypes, InputTypes
      <4>4. /\ TriggerRow(g, name, first) \in TriggerRowType
            /\ Duplicates(g, name, first) \subseteq TriggerRowType
            /\ Duplicates(g, name, first) \subseteq WrittenRowType
        BY <4>2, TriggerRowTypes, DuplicateTypes
      <4>5. /\ triggerRows' \subseteq WrittenRowType
            /\ calls' \subseteq CallType /\ requests' \subseteq RequestType
        BY <2>2, <2>4, <4>1, <4>3, <4>4, TriggersTypes
      <4> QED
        BY <2>2, <3>0, <3>1, <3>3, <4>5 DEF ProcessTriggers, WriteStats
    <3>4. CASE ProcessRaises(g, name)
      <4>1. \/ UNCHANGED <<clusterRows, triggerRows, statsRows, overtaken>>
            \/ /\ clusterRows' = clusterRows \union ClusterRowsOf(g, name)
               /\ overtaken' = overtaken \union {name[c] : c \in ToStore(g)}
               /\ triggerRows' \in {triggerRows, Linked(g, name)}
               /\ statsRows' \in {statsRows, statsRows \union {StatsOf(g, name)}}
        BY <3>4 DEF ProcessRaises, WriteStats, tables
      <4>2. lost' = lost \union {g} /\ UNCHANGED <<calls, requests>>
        BY <3>4 DEF ProcessRaises
      <4> QED
        BY <2>2, <2>3, <2>4, <3>0, <4>1, <4>2
    <3> QED
      BY <1>2, <3>2, <3>3, <3>4
  <2> QED
    BY <2>1, <2>5 DEF TypeOK, ClusterRowType, WrittenRowType, CallType, RequestType
<1> QED
  BY <1>1, <1>2

FastStep(b) == FastNothing(b) \/ FastGivesUp(b) \/ FastTriggers(b) \/ FastRaises(b)

\* What the fast path does to the cache and leaves alone.
LEMMA FastMoves ==
  ASSUME NEW b \in Batch, FastStep(b)
  PROVE  /\ b \notin judged /\ judged' = judged \union {b}
         /\ \A t \in b.trials : Seen(t.event)
         /\ UNCHANGED <<processed, clusterRows, statsRows, ledgerAt, fired, pulseAt, now,
                        overtaken, lost, restarts>>
         /\ \/ cache' = Refreshed /\ cacheAt' = RefreshedAt /\ UNCHANGED missedReads
            \/ cache' = Ledger /\ cacheAt' = now /\ UNCHANGED missedReads
            \/ /\ cache' \in {cache, Refreshed} /\ cacheAt' = now
               /\ missedReads' = missedReads \union {now}
BY DEF FastStep, FastNothing, FastGivesUp, FastTriggers, FastRaises, ReadFails, Judge, bot

LEMMA FastTypes ==
  ASSUME TypeOK, NEW b \in Batch, FastStep(b)
  PROVE  TypeOK'
<1>0. /\ judged' = judged \union {b} /\ now \in 0..MaxTime
      /\ UNCHANGED <<processed, clusterRows, statsRows, ledgerAt, fired, pulseAt, now,
                     overtaken, lost, restarts>>
  BY FastMoves DEF TypeOK
<1>1. /\ cache' \subseteq Event /\ cacheAt' \in Nat \union {Never} /\ now \in Nat
      /\ missedReads' \subseteq 0..MaxTime
  BY FastMoves, CacheTypes DEF TypeOK
<1>2. CASE FastNothing(b) \/ FastGivesUp(b) \/ FastRaises(b)
  <2>1. /\ UNCHANGED <<pendingFast, calls, triggerRows, requests>>
        /\ lastFast' \in {lastFast, now}
    BY <1>2 DEF FastNothing, FastGivesUp, FastRaises
  <2> QED
    BY <1>0, <1>1, <2>1 DEF TypeOK
<1>3. CASE FastTriggers(b)
  <2>1. PICK t \in Best(b), n \in Name \ (NamesInDB \union NamesPending) :
          /\ pendingFast' = [pendingFast EXCEPT ![n] = t.event]
          /\ Triggers(t, triggerRows, Row(n, t.event, "fast", "sent", None), {})
    BY <1>3 DEF FastTriggers
  <2>2. t.event \in Event /\ t.like \subseteq Shots
    BY InputTypes DEF Best, Worthy
  <2>3. Row(n, t.event, "fast", "sent", None) \in TriggerRowType
    BY <2>2, RowTypes
  <2>4. /\ calls \subseteq CallType /\ requests \subseteq RequestType
        /\ triggerRows \subseteq WrittenRowType
    BY DEF TypeOK, CallType, WrittenRowType, RequestType
  <2>5. /\ calls' \subseteq CallType /\ requests' \subseteq RequestType
        /\ triggerRows' \subseteq WrittenRowType
    BY <1>1, <2>1, <2>2, <2>3, <2>4, TriggersTypes
  <2>6. pendingFast' \in [Name -> Event \union {None}]
    BY <2>1, <2>2 DEF TypeOK
  <2>7. lastFast' = now
    BY <1>3 DEF FastTriggers
  <2> QED
    BY <1>0, <1>1, <2>5, <2>6, <2>7 DEF TypeOK, CallType, WrittenRowType, RequestType
<1> QED
  BY <1>2, <1>3 DEF FastStep

\* The rows that a call's end writes.
LEMMA RowsAfterCallTypes ==
  ASSUME TypeOK, NEW call \in calls, NEW action \in {"triggered", "failed"}
  PROVE  /\ call.row \in TriggerRowType /\ call.rest \subseteq TriggerRowType
         /\ [call.row EXCEPT !.action = action] \in WrittenRowType
<1>1. call.row \in TriggerRowType /\ call.rest \subseteq TriggerRowType
  BY DEF TypeOK
<1> QED
  BY <1>1, Answered DEF Action

\* The rows a call owes are ready to be written, but for its own.
OwedPart == \A call \in calls : call.rest \subseteq WrittenRowType

TypeInv == TypeOK /\ OwedPart

\* A call that starts does so in one of two places.
LEMMA CallStarts ==
  ASSUME TypeOK, [Next]_vars, NEW call \in calls', call \notin calls
  PROVE  /\ UNCHANGED <<ledgerAt, fired, now>>
         /\ call.row.event \in Event
         /\ calls' = calls \union {call}
         /\ \/ \E b \in Batch : \E t \in Best(b), n \in Name \ (NamesInDB \union NamesPending) :
                 /\ FastTriggers(b) /\ ~ Known(t, Ledger)
                 /\ pendingFast' = [pendingFast EXCEPT ![n] = t.event]
                 /\ call = [row |-> Row(n, t.event, "fast", "sent", None), rest |-> {}]
                 /\ triggerRows' = triggerRows
            \/ \E g \in Gulp : \E name \in NamesGiven(g), first \in Brightest(ToTrigger(g)) :
                 /\ g \notin processed /\ ProcessTriggers(g, name)
                 /\ \A c \in ClustersOf(g) : Seen(c.event)
                 /\ call = [row |-> TriggerRow(g, name, first),
                            rest |-> Duplicates(g, name, first)]
                 /\ triggerRows' = Linked(g, name)
<1>1. CASE \E b \in Batch : FastTriggers(b)
  <2>1. PICK b \in Batch : FastTriggers(b)
    BY <1>1
  <2>2. PICK t \in Best(b), n \in Name \ (NamesInDB \union NamesPending) :
          /\ ~ Known(t, Rechecked)
          /\ pendingFast' = [pendingFast EXCEPT ![n] = t.event]
          /\ Triggers(t, triggerRows, Row(n, t.event, "fast", "sent", None), {})
    BY <2>1 DEF FastTriggers
  <2>3. /\ triggerRows' = triggerRows
        /\ calls' = calls \union {[row |-> Row(n, t.event, "fast", "sent", None), rest |-> {}]}
    BY <2>2 DEF Triggers
  <2>4. call = [row |-> Row(n, t.event, "fast", "sent", None), rest |-> {}]
    BY <2>3
  <2>5. UNCHANGED <<ledgerAt, fired, now>>
    BY <2>1 DEF FastTriggers, Judge, bot
  <2>6. call.row.event \in Event
    BY <2>4, InputTypes DEF Best, Worthy, Row
  <2> QED
    BY <2>1, <2>2, <2>3, <2>4, <2>5, <2>6 DEF Rechecked
<1>2. CASE \E g \in Gulp : Process(g)
  <2>1. PICK g \in Gulp : Process(g)
    BY <1>2
  <2>2. PICK name \in NamesGiven(g) : ProcessTriggers(g, name)
    BY <2>1, ReadRaisesMoves DEF Process, ProcessQuiet, ProcessRaises
  <2>3. PICK first \in Brightest(ToTrigger(g)) :
          Triggers(first, Linked(g, name), TriggerRow(g, name, first), Duplicates(g, name, first))
    BY <2>2 DEF ProcessTriggers
  <2>4. /\ triggerRows' = Linked(g, name)
        /\ calls' = calls \union {[row |-> TriggerRow(g, name, first),
                                   rest |-> Duplicates(g, name, first)]}
    BY <2>3 DEF Triggers
  <2>5. UNCHANGED <<ledgerAt, fired, now>>
    BY <2>2 DEF ProcessTriggers, Begin, bot
  <2>6. call.row.event \in Event
    <3>1. first \in ToTrigger(g)
      BY DEF Brightest
    <3>2. TriggerRow(g, name, first) \in TriggerRowType
      BY <3>1, TriggerRowTypes
    <3> QED
      BY <2>4, <3>2 DEF TriggerRowType
  <2> QED
    BY <2>1, <2>2, <2>4, <2>5, <2>6 DEF Process
<1>3. CASE ~ (\E b \in Batch : FastTriggers(b)) /\ ~ (\E g \in Gulp : Process(g))
  <2>1. calls' \subseteq calls
    BY <1>3 DEF Next, vars, process, CommitRow, Fire, FastNothing, FastGivesUp, FastRaises,
       CallEnds, CallRaises, Restart, Tick
  <2> QED
    BY <2>1
<1> QED
  BY <1>1, <1>2, <1>3

LEMMA TypeStep ==
  ASSUME TypeInv, [Next]_vars
  PROVE  TypeInv'
<1>1. TypeOK
  BY DEF TypeInv
<1>2. TypeOK'
  <2>1. ASSUME NEW e \in Event, CommitRow(e) \/ Fire(e)
        PROVE  TypeOK'
    <3>1. CASE CommitRow(e)
      BY <1>1, <3>1, CacheTypes DEF CommitRow, TypeOK, process, progress, tables, history
    <3>2. CASE Fire(e)
      <4>1. PICK t \in (now - BufferDepth)..now : pulseAt' = [pulseAt EXCEPT ![e] = t]
        BY <3>2 DEF Fire
      <4>2. t \in Int
        BY <1>1, BoundTypes, CacheTypes
      <4> QED
        BY <1>1, <3>2, <4>1, <4>2 DEF Fire, TypeOK, process, progress, tables, history
    <3> QED
      BY <2>1, <3>1, <3>2
  <2>2. ASSUME NEW b \in Batch, FastStep(b)
        PROVE  TypeOK'
    BY <1>1, <2>2, FastTypes
  <2>3. ASSUME NEW g \in Gulp, Process(g)
        PROVE  TypeOK'
    BY <1>1, <2>3, ProcessTypes
  <2>4. ASSUME NEW call \in calls, CallEnds(call)
        PROVE  TypeOK'
    <3>1. PICK action \in {"triggered", "failed"} :
            triggerRows' = triggerRows \union RowsAfterCall(call, action)
      BY <2>4 DEF CallEnds
    <3>2. RowsAfterCall(call, action) \subseteq WrittenRowType
      BY <1>1, RowsAfterCallTypes DEF RowsAfterCall, TypeInv, OwedPart
    <3>3. triggerRows' \subseteq WrittenRowType
      BY <1>1, <3>1, <3>2 DEF TypeOK, WrittenRowType
    <3> QED
      BY <1>1, <2>4, <3>3 DEF CallEnds, TypeOK, WrittenRowType, progress, bot, history
  <2>5. ASSUME NEW call \in calls, CallRaises(call)
        PROVE  TypeOK'
    <3>1. call.row.by \in Gulp \union {"fast"}
      BY <1>1 DEF TypeOK, TriggerRowType
    <3> QED
      BY <1>1, <2>5, <3>1 DEF CallRaises, TypeOK, progress, tables, bot
  <2>6. ASSUME Restart
        PROVE  TypeOK'
    <3>1. \A call \in calls : call.row.by \in Gulp \union {"fast"}
      BY <1>1 DEF TypeOK, TriggerRowType
    <3>2. lost' \subseteq Gulp \union {"fast"}
      BY <1>1, <2>6, <3>1 DEF Restart, TypeOK
    <3>3. restarts' \in 0..MaxRestarts
      BY <1>1, <2>6, BoundTypes DEF Restart, TypeOK
    <3>4. pendingFast' \in [Name -> Event \union {None}]
      BY <2>6 DEF Restart
    <3> QED
      BY <1>1, <2>6, <3>2, <3>3, <3>4 DEF Restart, TypeOK, progress, tables, bot
  <2>7. ASSUME Tick
        PROVE  TypeOK'
    BY <1>1, <2>7, BoundTypes DEF Tick, TypeOK, process, progress, tables, bot, history
  <2>8. ASSUME UNCHANGED vars
        PROVE  TypeOK'
    BY <1>1, <2>8 DEF vars, TypeOK, process, progress, tables, bot, history
  <2> QED
    BY <2>1, <2>2, <2>3, <2>4, <2>5, <2>6, <2>7, <2>8 DEF Next, FastStep
<1>3. OwedPart'
  <2> SUFFICES ASSUME NEW call \in calls', call \notin calls
               PROVE  call.rest \subseteq WrittenRowType
    BY DEF OwedPart, TypeInv, WrittenRowType
  <2>1. CASE call.rest = {}
    BY <2>1
  <2>2. CASE call.rest # {}
    <3>0. PICK g \in Gulp :
            \E name \in NamesGiven(g), first \in Brightest(ToTrigger(g)) :
              call.rest = Duplicates(g, name, first)
      BY <1>1, <2>2, CallStarts
    <3>1. PICK name \in NamesGiven(g), first \in Brightest(ToTrigger(g)) :
            call.rest = Duplicates(g, name, first)
      BY <3>0
    <3>2. first \in ToTrigger(g)
      BY DEF Brightest
    <3> QED
      BY <1>1, <3>1, <3>2, DuplicateTypes
  <2> QED
    BY <2>1, <2>2
<1> QED
  BY <1>2, <1>3 DEF TypeInv

LEMMA TypeInit ==
  ASSUME Init
  PROVE  TypeInv
BY BoundTypes, InputTypes DEF Init, TypeInv, TypeOK, OwedPart

(***************************************************************************)
(* The type invariant of the tables, the process and the calls under way.  *)
(* A row with the action "sent" is only ever owed by a call, never in the  *)
(* table: the code writes a trigger's row when its reply is known.         *)
(***************************************************************************)
THEOREM TypeCorrect == Spec => []TypeOK
<1>1. Spec => []TypeInv
  BY TypeInit, TypeStep, PTL DEF Spec
<1> QED
  BY <1>1, PTL DEF TypeInv

-----------------------------------------------------------------------------
(***************************************************************************)
(* The injected pulses                                                     *)
(***************************************************************************)

\* The bot's order: a pulse that reached the stream has its row.
LedgerInv ==
  \A e \in Event : /\ e \in fired => ledgerAt[e] # Never
                   /\ ledgerAt[e] # Never => e.injected
                   /\ ledgerAt[e] <= now

LEMMA LedgerStep ==
  ASSUME TypeOK, LedgerInv, [Next]_vars
  PROVE  /\ LedgerInv' /\ now <= now' /\ fired \subseteq fired'
         /\ \A e \in Event : ledgerAt[e] # Never => ledgerAt'[e] = ledgerAt[e]
         /\ \A e \in Event : ledgerAt[e] = Never => ledgerAt'[e] \in {Never, now}
         /\ \A e \in fired : pulseAt'[e] = pulseAt[e]
         /\ missedReads \subseteq missedReads'
<1>0. /\ now \in Nat /\ \A e \in Event : ledgerAt[e] \in Nat \union {Never}
      /\ ledgerAt \in [Event -> Nat \union {Never}] /\ pulseAt \in [Event -> Int]
      /\ fired \subseteq Event
  BY CacheTypes DEF TypeOK
<1>1. ASSUME NEW e \in Event, CommitRow(e)
      PROVE  /\ now' = now /\ fired' = fired /\ e.injected /\ ledgerAt[e] = Never
             /\ ledgerAt' = [ledgerAt EXCEPT ![e] = now] /\ UNCHANGED <<pulseAt, missedReads>>
  BY <1>1 DEF CommitRow, history
<1>2. ASSUME NEW e \in Event, Fire(e)
      PROVE  /\ now' = now /\ ledgerAt' = ledgerAt /\ fired' = fired \union {e}
             /\ ledgerAt[e] # Never /\ UNCHANGED missedReads
             /\ e \notin fired /\ \E t : pulseAt' = [pulseAt EXCEPT ![e] = t]
  BY <1>2 DEF Fire, MayFire, history
<1>3. ASSUME ~ \E e \in Event : CommitRow(e) \/ Fire(e)
      PROVE  /\ ledgerAt' = ledgerAt /\ fired' = fired /\ now' \in {now, now + 1}
             /\ pulseAt' = pulseAt /\ missedReads \subseteq missedReads'
  <2>1. ASSUME NEW g \in Gulp, Process(g)
        PROVE  /\ UNCHANGED <<ledgerAt, fired, pulseAt, now>>
               /\ missedReads \subseteq missedReads'
    <3>1. PICK name \in NamesGiven(g) :
            \/ ProcessQuiet(g, name) \/ ProcessTriggers(g, name)
            \/ ProcessRaises(g, name) \/ ReadRaises(g, name)
      BY <2>1 DEF Process
    <3>2. CASE ReadRaises(g, name)
      BY <3>2, ReadRaisesMoves
    <3> QED
      BY <3>1, <3>2 DEF ProcessQuiet, ProcessTriggers, ProcessRaises, Begin, bot
  <2>2. ASSUME NEW b \in Batch, FastStep(b)
        PROVE  /\ UNCHANGED <<ledgerAt, fired, pulseAt, now>>
               /\ missedReads \subseteq missedReads'
    BY <2>2, FastMoves
  <2> QED
    BY <1>3, <2>1, <2>2 DEF Next, FastStep, CallEnds, CallRaises, Restart, Tick, vars, bot,
       history
<1>4. CASE \E e \in Event : CommitRow(e)
  <2>1. PICK e \in Event : CommitRow(e)
    BY <1>4
  <2> QED
    BY <1>0, <1>1, <2>1 DEF LedgerInv, Never
<1>5. CASE \E e \in Event : Fire(e)
  <2>1. PICK e \in Event : Fire(e)
    BY <1>5
  <2> QED
    BY <1>0, <1>2, <2>1 DEF LedgerInv, Never
<1>6. CASE ~ \E e \in Event : CommitRow(e) \/ Fire(e)
  BY <1>0, <1>3, <1>6 DEF LedgerInv, Never
<1> QED
  BY <1>4, <1>5, <1>6

\* Whether what was seen of a shot agrees with its row is settled once both are
\* there: neither time changes.
LEMMA MatchKept ==
  ASSUME TypeOK, LedgerInv, [Next]_vars,
         NEW x, x.event \in fired, ledgerAt[x.event] # Never
  PROVE  Matches(x, x.event)' <=> Matches(x, x.event)
<1>1. x.event \in Event
  BY DEF TypeOK
<1>2. ledgerAt'[x.event] = ledgerAt[x.event] /\ pulseAt'[x.event] = pulseAt[x.event]
  BY <1>1, LedgerStep
<1> QED
  BY <1>2 DEF Matches

\* A dump is asked for only of what was seen and matched no row of the ledger when
\* it was read again just before, whichever path asks.
LEMMA RequestsStep ==
  ASSUME TypeOK, [Next]_vars, NEW r \in requests', r \notin requests
  PROVE  /\ UNCHANGED <<ledgerAt, fired, pulseAt, now>>
         /\ r.at = now /\ r.event \in Event
         /\ Seen(r.event) /\ ~ Known(r, Ledger)
<1>0. ASSUME NEW x, r = [event |-> x.event, like |-> x.like, at |-> now], ~ Known(x, Ledger)
      PROVE  r.event = x.event /\ r.at = now /\ ~ Known(r, Ledger)
  BY <1>0 DEF Known, Matches
<1>1. CASE \E b \in Batch : FastTriggers(b)
  <2>1. PICK b \in Batch : FastTriggers(b)
    BY <1>1
  <2>2. PICK t \in Best(b), n \in Name \ (NamesInDB \union NamesPending) :
          /\ ~ Known(t, Rechecked)
          /\ Triggers(t, triggerRows, Row(n, t.event, "fast", "sent", None), {})
    BY <2>1 DEF FastTriggers
  <2>3. t \in b.trials
    BY DEF Best, Worthy
  <2>4. r = [event |-> t.event, like |-> t.like, at |-> now]
    BY <2>2 DEF Triggers
  <2>5. r.event = t.event /\ r.at = now /\ ~ Known(r, Ledger)
    BY <1>0, <2>2, <2>4 DEF Rechecked
  <2> QED
    BY <2>1, <2>3, <2>5, InputTypes DEF FastTriggers, Judge, bot
<1>2. CASE \E g \in Gulp : Process(g)
  <2>1. PICK g \in Gulp : Process(g)
    BY <1>2
  <2>2. PICK name \in NamesGiven(g) : ProcessTriggers(g, name)
    BY <2>1, ReadRaisesMoves DEF Process, ProcessQuiet, ProcessRaises
  <2>3. PICK first \in Brightest(ToTrigger(g)) :
          Triggers(first, Linked(g, name), TriggerRow(g, name, first), Duplicates(g, name, first))
    BY <2>2 DEF ProcessTriggers
  <2>4. r = [event |-> first.event, like |-> first.like, at |-> now]
    BY <2>3 DEF Triggers
  <2>5. first \in ToTrigger(g)
    BY DEF Brightest
  <2>6. first \in ClustersOf(g) /\ first.event \in Event
    BY <2>5, GulpTypes, InputTypes
  <2>7. ~ Known(first, Ledger)
    BY <2>5 DEF ToTrigger, TaggedInjection, Rechecked
  <2>8. r.event = first.event /\ r.at = now /\ ~ Known(r, Ledger)
    BY <1>0, <2>4, <2>7
  <2> QED
    BY <2>1, <2>2, <2>6, <2>8 DEF Process, ProcessTriggers, Begin, bot
<1>3. CASE ~ (\E b \in Batch : FastTriggers(b)) /\ ~ (\E g \in Gulp : Process(g))
  <2>1. requests' = requests
    BY <1>3 DEF Next, vars, history, CommitRow, Fire, FastNothing, FastGivesUp, FastRaises,
       CallEnds, CallRaises, Restart, Tick
  <2> QED
    BY <2>1
<1> QED
  BY <1>1, <1>2, <1>3

\* What was dumped had reached the stream.
DumpInv ==
  /\ \A r \in requests : r.event.injected => r.event \in fired
  /\ InjectionNeverDumped

LEMMA DumpStep ==
  ASSUME TypeOK, LedgerInv, DumpInv, [Next]_vars
  PROVE  DumpInv'
<1> SUFFICES ASSUME NEW r \in requests', r.event.injected
             PROVE  /\ r.event \in fired' /\ ledgerAt'[r.event] # Never
                    /\ Matches(r, r.event)' => ledgerAt'[r.event] < r.at - Lookback
  BY DEF DumpInv, InjectionNeverDumped
<1>1. CASE r \in requests
  <2>1. /\ r.event \in fired /\ r.event \in Event /\ ledgerAt[r.event] # Never
        /\ Matches(r, r.event) => ledgerAt[r.event] < r.at - Lookback
    BY <1>1 DEF DumpInv, InjectionNeverDumped, TypeOK
  <2>2. Matches(r, r.event)' <=> Matches(r, r.event)
    BY <2>1, MatchKept
  <2> QED
    BY <2>1, <2>2, LedgerStep
<1>2. CASE r \notin requests
  <2>1. /\ UNCHANGED <<ledgerAt, fired, pulseAt>> /\ r.at = now /\ r.event \in Event
        /\ Seen(r.event) /\ ~ Known(r, Ledger)
    BY <1>2, RequestsStep
  <2>2. r.event \in fired /\ ledgerAt[r.event] # Never
    BY <2>1 DEF Seen, LedgerInv
  <2>3. ledgerAt[r.event] \in Nat /\ now \in Nat /\ Lookback \in Nat
    BY <2>1, <2>2, BoundTypes, CacheTypes DEF TypeOK
  <2>4. Matches(r, r.event)' <=> Matches(r, r.event)
    BY <2>1 DEF Matches
  <2>5. Matches(r, r.event) => ~ (ledgerAt[r.event] >= now - Lookback)
    BY <2>1, <2>2 DEF Known, Ledger
  <2> QED
    BY <2>1, <2>2, <2>3, <2>4, <2>5
<1> QED
  BY <1>1, <1>2

(***************************************************************************)
(* No path asks for a dump of what agrees with a shot in beam, DM and time *)
(* while the shot's row is among those that are read: the row is there     *)
(* before the pulse is (LedgerInv), and both paths read the ledger again   *)
(* before they call _trigger, whatever the cache knew and whichever read   *)
(* failed.                                                                 *)
(***************************************************************************)
THEOREM NeverDumped == Spec => []InjectionNeverDumped
<1> DEFINE I == TypeInv /\ LedgerInv /\ DumpInv
<1>1. Init => I
  <2>1. Init => LedgerInv
    BY DEF Init, LedgerInv, Never
  <2>2. Init => DumpInv
    BY DEF Init, DumpInv, InjectionNeverDumped
  <2> QED
    BY <2>1, <2>2, TypeInit
<1>2. I /\ [Next]_vars => I'
  BY TypeStep, LedgerStep, DumpStep DEF TypeInv
<1>3. I => InjectionNeverDumped
  BY DEF DumpInv
<1> QED
  BY <1>1, <1>2, <1>3, PTL DEF Spec

\* A cache whose read did not fail holds what the ledger held, up to the tick it
\* was read in.
CacheInv ==
  cacheAt # Never =>
    /\ cacheAt <= now
    /\ cacheAt \notin missedReads =>
         \A e \in Event :
           /\ ledgerAt[e] # Never
           /\ ledgerAt[e] < cacheAt /\ ledgerAt[e] >= cacheAt - Lookback
           => e \in cache

\* What the cache becomes in every step that touches it.
LEMMA CacheMoves ==
  ASSUME TypeOK, [Next]_vars
  PROVE  \/ UNCHANGED <<cache, cacheAt>>
         \/ cacheAt' = Never
         \/ cache' = Ledger /\ cacheAt' = now /\ UNCHANGED <<ledgerAt, now>>
         \/ cacheAt' = now /\ now \in missedReads' /\ UNCHANGED now
<1>1. ASSUME NEW g \in Gulp, Process(g)
      PROVE  \/ UNCHANGED <<cache, cacheAt>>
             \/ cache' = Ledger /\ cacheAt' = now /\ UNCHANGED <<ledgerAt, now>>
             \/ cacheAt' = now /\ now \in missedReads' /\ UNCHANGED now
  <2>1. PICK name \in NamesGiven(g) : Begin(g, name) \/ ReadRaises(g, name)
    BY <1>1 DEF Process, ProcessQuiet, ProcessTriggers, ProcessRaises
  <2>2. CASE Begin(g, name)
    BY <2>2 DEF Begin, Refreshed, RefreshedAt, bot
  <2>3. CASE ReadRaises(g, name)
    BY <2>3, ReadRaisesMoves
  <2> QED
    BY <2>1, <2>2, <2>3
<1>2. ASSUME NEW b \in Batch, FastStep(b)
      PROVE  \/ UNCHANGED <<cache, cacheAt>>
             \/ cache' = Ledger /\ cacheAt' = now /\ UNCHANGED <<ledgerAt, now>>
             \/ cacheAt' = now /\ now \in missedReads' /\ UNCHANGED now
  BY <1>2, FastMoves DEF Refreshed, RefreshedAt
<1>3. ASSUME NEW e \in Event, CommitRow(e) \/ Fire(e)
      PROVE  UNCHANGED <<cache, cacheAt>>
  BY <1>3 DEF CommitRow, Fire, process
<1>4. ASSUME NEW call \in calls, CallEnds(call) \/ CallRaises(call)
      PROVE  UNCHANGED <<cache, cacheAt>>
  BY <1>4 DEF CallEnds, CallRaises
<1>5. ASSUME Restart
      PROVE  cacheAt' = Never
  BY <1>5 DEF Restart
<1>6. ASSUME Tick \/ UNCHANGED vars
      PROVE  UNCHANGED <<cache, cacheAt>>
  BY <1>6 DEF Tick, vars, process
<1> QED
  BY <1>1, <1>2, <1>3, <1>4, <1>5, <1>6 DEF Next, FastStep

LEMMA CacheStep ==
  ASSUME TypeInv, LedgerInv, CacheInv, [Next]_vars
  PROVE  CacheInv'
<1>0. /\ now \in Nat /\ cacheAt \in Nat \union {Never} /\ Lookback \in Nat /\ TypeOK
      /\ \A e \in Event : ledgerAt[e] \in Nat \union {Never}
  BY CacheTypes, BoundTypes DEF TypeOK, TypeInv
<1>1. /\ now' \in Nat /\ now <= now' /\ missedReads \subseteq missedReads'
      /\ \A e \in Event : ledgerAt'[e] = ledgerAt[e] \/ ledgerAt'[e] \in {Never, now}
  <2>1. now' \in Nat
    BY TypeStep, BoundTypes DEF TypeInv, TypeOK
  <2> QED
    BY <1>0, <2>1, LedgerStep
<1>2. CASE UNCHANGED <<cache, cacheAt>>
  BY <1>0, <1>1, <1>2 DEF CacheInv, Never
<1>3. CASE cacheAt' = Never
  BY <1>3 DEF CacheInv
<1>4. CASE cache' = Ledger /\ cacheAt' = now /\ UNCHANGED <<ledgerAt, now>>
  BY <1>0, <1>4 DEF CacheInv, Ledger
<1>5. CASE cacheAt' = now /\ now \in missedReads' /\ UNCHANGED now
  BY <1>0, <1>5 DEF CacheInv
<1> QED
  BY <1>0, <1>2, <1>3, <1>4, <1>5, CacheMoves

\* A tag follows the ledger, unless the row is younger than a cache may be old or
\* the cache may come from before a read that failed.
LEMMA TagIsTrue ==
  ASSUME TypeOK, CacheInv, NEW c \in Cluster,
         ledgerAt[c.event] # Never,
         ledgerAt[c.event] \in (now - Lookback)..(now - CacheTTL),
         Matches(c, c.event),
         \A t \in missedReads : t <= now - CacheTTL \/ t > now
  PROVE  TaggedInjection(c)
<1>1. /\ c.event \in Event /\ ledgerAt[c.event] \in Nat /\ now \in Nat
      /\ CacheTTL \in Nat /\ Lookback \in Nat /\ cacheAt \in Nat \union {Never}
      /\ missedReads \subseteq Nat
  BY InputTypes, BoundTypes, CacheTypes DEF TypeOK
<1>2. c.event \in Ledger
  BY <1>1 DEF Ledger
<1>3. c.event \in Refreshed
  <2>1. CASE Fresh
    <3>1. cacheAt # Never /\ now - cacheAt < CacheTTL /\ cacheAt <= now
      BY <2>1 DEF Fresh, CacheInv
    <3>2. ledgerAt[c.event] < cacheAt /\ ledgerAt[c.event] >= cacheAt - Lookback
      BY <1>1, <3>1
    <3>3. cacheAt \notin missedReads
      BY <1>1, <3>1
    <3>4. c.event \in cache
      BY <1>1, <3>1, <3>2, <3>3 DEF CacheInv
    <3> QED
      BY <2>1, <3>4 DEF Refreshed
  <2>2. CASE ~ Fresh
    BY <1>2, <2>2 DEF Refreshed
  <2> QED
    BY <2>1, <2>2
<1>4. Known(c, CacheBefore(c))
  BY <1>2, <1>3 DEF Known, CacheBefore
<1> QED
  BY <1>4 DEF TaggedInjection

\* A row of the clusters table was written by its gulp, whose clusters were all
\* seen.
LEMMA ClusterRowsStep ==
  ASSUME TypeOK, [Next]_vars
  PROVE  \/ UNCHANGED clusterRows
         \/ \E g \in Gulp : \E name \in NamesGiven(g) :
              /\ Begin(g, name) /\ g \notin processed
              /\ \A c \in ClustersOf(g) : Seen(c.event)
              /\ clusterRows' = clusterRows \union ClusterRowsOf(g, name)
<1>1. ASSUME NEW g \in Gulp, Process(g)
      PROVE  \/ UNCHANGED clusterRows
             \/ \E name \in NamesGiven(g) :
                  /\ Begin(g, name) /\ g \notin processed
                  /\ \A c \in ClustersOf(g) : Seen(c.event)
                  /\ clusterRows' = clusterRows \union ClusterRowsOf(g, name)
  <2>1. PICK name \in NamesGiven(g) :
          \/ ProcessQuiet(g, name) \/ ProcessTriggers(g, name)
          \/ ProcessRaises(g, name) \/ ReadRaises(g, name)
    BY <1>1 DEF Process
  <2>2. CASE ReadRaises(g, name)
    BY <2>2, ReadRaisesMoves
  <2>3. CASE ~ ReadRaises(g, name)
    <3>1. /\ Begin(g, name)
          /\ \/ UNCHANGED clusterRows
             \/ clusterRows' = clusterRows \union ClusterRowsOf(g, name)
      BY <2>1, <2>3 DEF ProcessQuiet, ProcessTriggers, ProcessRaises, Store, tables
    <3> QED
      BY <1>1, <3>1 DEF Process
  <2> QED
    BY <2>2, <2>3
<1>2. ASSUME NEW b \in Batch, FastStep(b)
      PROVE  UNCHANGED clusterRows
  BY <1>2, FastMoves
<1> QED
  BY <1>1, <1>2 DEF Next, FastStep, CommitRow, Fire, CallEnds, CallRaises, Restart, Tick, vars, tables

\* What was stored had reached the stream.
TagInv ==
  /\ \A r \in clusterRows :
       r.cluster.event.injected => /\ r.cluster.event \in fired
                                   /\ ledgerAt[r.cluster.event] # Never
  /\ InjectionTagged

\* Row r is as it should be, with its cluster's shot in the ledger at ledger time
\* at, in agreement or not, and reads missed.
Proper(r, at, agrees, missed) ==
  /\ at # Never
  /\ at \in (r.at - Lookback)..(r.at - CacheTTL)
  /\ agrees
  /\ \A t \in missed : t <= r.at - CacheTTL \/ t > r.at
  => r.injection

LEMMA TagStep ==
  ASSUME TypeOK, LedgerInv, CacheInv, TagInv, [Next]_vars
  PROVE  TagInv'
<1> DEFINE shot(r) == r.cluster.event
           Good(r) == /\ shot(r) \in fired' /\ ledgerAt'[shot(r)] # Never
                      /\ Proper(r, ledgerAt'[shot(r)], Matches(r.cluster, shot(r))',
                                missedReads')
<1>1. ASSUME NEW r \in clusterRows, shot(r).injected
      PROVE  Good(r)
  <2>1. /\ shot(r) \in fired /\ shot(r) \in Event /\ ledgerAt[shot(r)] # Never
        /\ Proper(r, ledgerAt[shot(r)], Matches(r.cluster, shot(r)), missedReads)
    BY <1>1, InputTypes DEF TagInv, InjectionTagged, TypeOK, Proper
  <2>2. /\ shot(r) \in fired' /\ ledgerAt'[shot(r)] = ledgerAt[shot(r)]
        /\ missedReads \subseteq missedReads'
    BY <2>1, LedgerStep
  <2>3. Matches(r.cluster, shot(r))' <=> Matches(r.cluster, shot(r))
    BY <2>1, MatchKept
  <2> QED
    BY <2>1, <2>2, <2>3 DEF Proper
<1>2. ASSUME NEW g \in Gulp, NEW name \in NamesGiven(g), Begin(g, name),
             \A c \in ClustersOf(g) : Seen(c.event),
             NEW r \in ClusterRowsOf(g, name), shot(r).injected
      PROVE  Good(r)
  <2>1. PICK c \in Inserted(g, name) :
          r = [name |-> name[c], cluster |-> c, injection |-> TaggedInjection(c),
               fast |-> FastMatched(c), at |-> now]
    BY <1>2 DEF ClusterRowsOf
  <2>2. c \in ClustersOf(g) /\ c \in Cluster /\ c.event \in Event
    BY GulpTypes, InputTypes
  <2>3. r.cluster = c /\ r.at = now /\ r.injection = TaggedInjection(c)
    BY <2>1
  <2>4. c.event \in fired /\ ledgerAt[c.event] # Never
    BY <1>2, <2>2, <2>3 DEF Seen, LedgerInv
  <2>5. UNCHANGED <<ledgerAt, fired, pulseAt, missedReads>>
    BY <1>2 DEF Begin, bot
  <2>6. Matches(c, c.event)' <=> Matches(c, c.event)
    BY <2>5 DEF Matches
  <2>7. Proper(r, ledgerAt[c.event], Matches(c, c.event), missedReads)
    BY <2>2, <2>3, <2>4, TagIsTrue DEF Proper
  <2> QED
    BY <2>3, <2>4, <2>5, <2>6, <2>7 DEF Proper
<1>3. \A r \in clusterRows' : shot(r).injected => Good(r)
  BY <1>1, <1>2, ClusterRowsStep
<1> QED
  BY <1>3 DEF TagInv, InjectionTagged, Proper

(***************************************************************************)
(* The cluster of an injected pulse that agrees with the pulse's row is    *)
(* stored with the tag, whichever of the cache, the refreshed cache and    *)
(* the recheck judged it, once the row is older than a cache may be and    *)
(* the last read that failed is as old.                                    *)
(***************************************************************************)
THEOREM Tagged == Spec => []InjectionTagged
<1> DEFINE I == TypeInv /\ LedgerInv /\ CacheInv /\ TagInv
<1>1. Init => I
  <2>1. Init => LedgerInv
    BY DEF Init, LedgerInv, Never
  <2>2. Init => CacheInv /\ TagInv
    BY DEF Init, CacheInv, TagInv, InjectionTagged
  <2> QED
    BY <2>1, <2>2, TypeInit
<1>2. I /\ [Next]_vars => I'
  BY TypeStep, LedgerStep, CacheStep, TagStep DEF TypeInv
<1>3. I => InjectionTagged
  BY DEF TagInv
<1> QED
  BY <1>1, <1>2, <1>3, PTL DEF Spec

-----------------------------------------------------------------------------
(***************************************************************************)
(* The rows of triggers and clusters                                       *)
(***************************************************************************)

Joined(r, stored) == \E k \in stored : k.name = r.name /\ k.cluster = r.cluster

\* The names of the rows that insert_clusters keeps differ.
LEMMA InsertedNames ==
  ASSUME TypeOK, NEW g \in Gulp, NEW name \in NamesGiven(g),
         NEW c \in Inserted(g, name), NEW d \in Inserted(g, name), name[c] = name[d]
  PROVE  c = d
<1>1. c \in ToStore(g) /\ d \in ToStore(g) /\ c \in Cluster /\ d \in Cluster
  BY GulpTypes
<1>2. c.id \in Nat /\ d.id \in Nat
  BY <1>1, InputTypes
<1>3. ~ (c.id < d.id) /\ ~ (d.id < c.id)
  BY <1>1 DEF Inserted
<1>4. c.id = d.id
  BY <1>2, <1>3
<1> QED
  BY <1>1, <1>4, ClusterAssumption

\* A name that was minted is stored: the insert can drop its row only in favour
\* of a cluster that took the name from a fast trigger, and then keeps that one.
LEMMA MintedIsStored ==
  ASSUME TypeOK, NEW g \in Gulp, NEW name \in NamesGiven(g),
         NEW c \in ToStore(g), ~ FastMatched(c)
  PROVE  \E d \in Inserted(g, name) : name[d] = name[c]
<1>0. \A d, e \in ToStore(g) : d # e /\ FastMatched(d) = FastMatched(e) => name[d] # name[e]
  <2> SUFFICES ASSUME NEW d \in ToStore(g), NEW e \in ToStore(g), d # e,
                      FastMatched(d) = FastMatched(e)
               PROVE  name[d] # name[e]
    OBVIOUS
  <2>1. e \in ToStore(g) \ {d}
    OBVIOUS
  <2> QED
    BY <2>1, NamesTell, Zenon
<1>1. /\ name[c] \notin NamesInDB
      /\ \A d \in ToStore(g) \ {c} : ~ FastMatched(d) => name[c] # name[d]
      /\ \A d, e \in ToStore(g) : d # e /\ FastMatched(d) /\ FastMatched(e) =>
           name[d] # name[e]
  <2>1. name[c] \notin NamesInDB
    BY NamesTell, Zenon
  <2>2. \A d \in ToStore(g) : FastMatched(d) \in BOOLEAN
    BY DEF FastMatched
  <2>3. \A d, e \in ToStore(g) :
          (FastMatched(d) <=> FastMatched(e)) => FastMatched(d) = FastMatched(e)
    BY <2>2
  <2> QED
    BY <1>0, <2>1, <2>3, Zenon
<1>2. \A r \in clusterRows : r.name # name[c]
  BY <1>1 DEF NamesInDB
<1>3. CASE \A d \in ToStore(g) : d.id < c.id => name[d] # name[c]
  BY <1>2, <1>3 DEF Inserted
<1>4. CASE \E d \in ToStore(g) : d.id < c.id /\ name[d] = name[c]
  <2>1. PICK d \in ToStore(g) : d.id < c.id /\ name[d] = name[c]
    BY <1>4
  <2>2. c.id \in Nat /\ d.id \in Nat
    BY GulpTypes, InputTypes
  <2>3. d # c /\ FastMatched(d)
    BY <1>1, <2>1, <2>2
  <2>4. ASSUME NEW e \in ToStore(g), e.id < d.id, name[e] = name[d]
        PROVE  FALSE
    <3>1. e.id \in Nat
      BY GulpTypes, InputTypes
    <3>2. e # d /\ e # c
      BY <2>1, <2>2, <2>4, <3>1
    <3> QED
      BY <1>1, <2>1, <2>3, <2>4, <3>2
  <2>5. d \in Inserted(g, name)
    BY <1>2, <2>1, <2>4 DEF Inserted
  <2> QED
    BY <2>1, <2>5
<1> QED
  BY <1>3, <1>4

LEMMA StoredRow ==
  ASSUME NEW g \in Gulp, NEW name \in NamesGiven(g), NEW c \in Inserted(g, name)
  PROVE  \E k \in ClusterRowsOf(g, name) :
           k.name = name[c] /\ k.cluster = c /\ k.fast = FastMatched(c)
<1> DEFINE k == [name |-> name[c], cluster |-> c, injection |-> TaggedInjection(c),
                 fast |-> FastMatched(c), at |-> now]
<1>1. k \in ClusterRowsOf(g, name)
  BY Zenon DEF ClusterRowsOf
<1>2. k.name = name[c] /\ k.cluster = c /\ k.fast = FastMatched(c)
  BY Zenon
<1> QED
  BY <1>1, <1>2, Zenon

LEMMA NewClusterRow ==
  ASSUME TypeOK, NEW g \in Gulp, NEW name \in NamesGiven(g), NEW k \in ClusterRowsOf(g, name)
  PROVE  /\ k.cluster \in Inserted(g, name) /\ k.name = name[k.cluster]
         /\ k.fast = FastMatched(k.cluster)
BY DEF ClusterRowsOf

\* The rows of the gulp's triggers name a cluster that has just been stored.
LEMMA TriggerRowJoined ==
  ASSUME TypeOK, NEW g \in Gulp, NEW name \in NamesGiven(g), NEW c \in ToTrigger(g)
  PROVE  Joined(TriggerRow(g, name, c), ClusterRowsOf(g, name))
<1>1. c \in ToStore(g) /\ ~ FastMatched(c)
  BY GulpTypes DEF ToTrigger
<1>2. IdOf(g, name, c) # None
  BY <1>1, IdOfType, MintedIsStored
<1>3. IdOf(g, name, c) \in Inserted(g, name) /\ name[IdOf(g, name, c)] = name[c]
  BY <1>1, <1>2, IdOfType
<1> QED
  BY <1>3, StoredRow, TriggerRowTypes DEF Joined

\* The rows that gulp g adds, at once or through its call.
GulpRow(r, g, name) == r.by = g /\ Joined(r, ClusterRowsOf(g, name))

LEMMA DuplicatesJoined ==
  ASSUME TypeOK, NEW g \in Gulp, NEW name \in NamesGiven(g), NEW first \in ToTrigger(g),
         NEW r \in Duplicates(g, name, first)
  PROVE  GulpRow(r, g, name)
<1>1. PICK c \in ToTrigger(g) : r = [TriggerRow(g, name, c) EXCEPT !.action = "suppressed"]
  BY DEF Duplicates
<1>2. TriggerRow(g, name, c) \in TriggerRowType /\ TriggerRow(g, name, c).by = g
  BY TriggerRowTypes
<1>3. /\ r.by = g /\ r.name = TriggerRow(g, name, c).name
      /\ r.cluster = TriggerRow(g, name, c).cluster
  BY <1>1, <1>2, Answered DEF Action
<1> QED
  BY <1>3, TriggerRowJoined DEF GulpRow, Joined

\* What a gulp does to the tables.
LEMMA ProcessTables ==
  ASSUME TypeOK, NEW g \in Gulp, Process(g)
  PROVE  \E name \in NamesGiven(g) :
           \/ UNCHANGED <<clusterRows, triggerRows, calls, overtaken>>
           \/ /\ clusterRows' = clusterRows \union ClusterRowsOf(g, name)
              /\ overtaken' = overtaken \union {name[c] : c \in ToStore(g)}
              /\ UNCHANGED <<triggerRows, calls>>
           \/ /\ clusterRows' = clusterRows \union ClusterRowsOf(g, name)
              /\ \A c \in Inserted(g, name) : name[c] \in NamesUnderWay => name[c] \in overtaken'
              /\ overtaken \subseteq overtaken'
              /\ \A r \in triggerRows' : r \in Linked(g, name) \/ GulpRow(r, g, name)
              /\ \A call \in calls' :
                   \/ call \in calls
                   \/ /\ GulpRow(call.row, g, name)
                      /\ \A r \in call.rest : GulpRow(r, g, name)
<1> PICK name \in NamesGiven(g) :
      \/ ProcessQuiet(g, name) \/ ProcessTriggers(g, name)
      \/ ProcessRaises(g, name) \/ ReadRaises(g, name)
  BY DEF Process
<1>5. CASE ReadRaises(g, name)
  BY <1>5, ReadRaisesMoves
<1>1. ASSUME Store(g, name)
      PROVE  /\ clusterRows' = clusterRows \union ClusterRowsOf(g, name)
             /\ \A c \in Inserted(g, name) : name[c] \in NamesUnderWay => name[c] \in overtaken'
             /\ overtaken \subseteq overtaken'
  BY <1>1 DEF Store
<1>2. CASE ProcessQuiet(g, name)
  BY <1>1, <1>2 DEF ProcessQuiet
<1>3. CASE ProcessTriggers(g, name)
  <2>1. PICK first \in Brightest(ToTrigger(g)) :
          Triggers(first, Linked(g, name), TriggerRow(g, name, first), Duplicates(g, name, first))
    BY <1>3 DEF ProcessTriggers
  <2>2. first \in ToTrigger(g)
    BY DEF Brightest
  <2>3. GulpRow(TriggerRow(g, name, first), g, name)
    BY <2>2, TriggerRowTypes, TriggerRowJoined DEF GulpRow
  <2>4. \A r \in Duplicates(g, name, first) : GulpRow(r, g, name)
    BY <2>2, DuplicatesJoined
  <2>5. GulpRow([TriggerRow(g, name, first) EXCEPT !.action = "refused"], g, name)
    <3>1. TriggerRow(g, name, first) \in TriggerRowType
      BY <2>2, TriggerRowTypes
    <3> QED
      BY <2>3, <3>1, Answered DEF Action, GulpRow, Joined
  <2>6. /\ \A r \in triggerRows' : r \in Linked(g, name) \/ GulpRow(r, g, name)
        /\ \A call \in calls' :
             \/ call \in calls
             \/ /\ GulpRow(call.row, g, name)
                /\ \A r \in call.rest : GulpRow(r, g, name)
    <3>1. CASE /\ triggerRows' = Linked(g, name)
                    \union {[TriggerRow(g, name, first) EXCEPT !.action = "refused"]}
                    \union Duplicates(g, name, first)
               /\ UNCHANGED <<calls, requests>>
      BY <2>4, <2>5, <3>1
    <3>2. CASE /\ triggerRows' = Linked(g, name)
               /\ calls' = calls \union {[row |-> TriggerRow(g, name, first),
                                          rest |-> Duplicates(g, name, first)]}
      BY <2>3, <2>4, <3>2
    <3> QED
      BY <2>1, <3>1, <3>2 DEF Triggers
  <2> QED
    BY <1>1, <1>3, <2>6 DEF ProcessTriggers
<1>4. CASE ProcessRaises(g, name)
  <2>1. calls' = calls
    BY <1>4 DEF ProcessRaises
  <2>2. \/ UNCHANGED <<clusterRows, triggerRows, overtaken>>
        \/ /\ clusterRows' = clusterRows \union ClusterRowsOf(g, name)
           /\ overtaken' = overtaken \union {name[c] : c \in ToStore(g)}
           /\ triggerRows' = triggerRows \/ triggerRows' = Linked(g, name)
    BY <1>4 DEF ProcessRaises, tables
  <2>3. Inserted(g, name) \subseteq ToStore(g)
    BY GulpTypes
  <2> QED
    BY <2>1, <2>2, <2>3
<1> QED
  BY <1>2, <1>3, <1>4, <1>5

\* A row joins the clusters table, unless it is a fast trigger's without one.
Sound(r, stored) == r.by # "fast" \/ r.cluster # None => Joined(r, stored)

\* A fast trigger's row has no cluster yet, and a cluster that already took its
\* name overtook it.
Awaits(r, stored, over) ==
  /\ r.cluster = None
  /\ \A k \in stored : k.fast /\ k.name = r.name => r.name \in over

Linkage(r, stored, over) ==
  r.by = "fast" =>
    \A k \in stored : k.fast /\ k.name = r.name /\ r.name \notin over => r.cluster = k.cluster

JoinInv ==
  /\ \A r \in triggerRows : Sound(r, clusterRows) /\ Linkage(r, clusterRows, overtaken)
  /\ \A call \in calls :
       /\ \A r \in {call.row} \union call.rest : Sound(r, clusterRows)
       /\ call.row.by = "fast" => Awaits(call.row, clusterRows, overtaken)
       /\ \A r \in call.rest : r.by # "fast"

LEMMA SoundGrows ==
  ASSUME NEW r, NEW S, NEW T, S \subseteq T, Sound(r, S)
  PROVE  Sound(r, T)
BY DEF Sound, Joined

\* A linked row, after its gulp's clusters are stored.
LEMMA LinkedJoins ==
  ASSUME TypeOK, JoinInv, NEW g \in Gulp, NEW name \in NamesGiven(g),
         NEW s \in Linked(g, name), NEW over, overtaken \subseteq over
  PROVE  LET stored == clusterRows \union ClusterRowsOf(g, name)
         IN  Sound(s, stored) /\ Linkage(s, stored, over)
<1> DEFINE stored == clusterRows \union ClusterRowsOf(g, name)
           Taken(r) == /\ r.cluster = None
                       /\ \E c \in Inserted(g, name) : name[c] = r.name
                       /\ \E c \in ToStore(g) : FastMatched(c) /\ name[c] = r.name
           Pick(r) == CHOOSE c \in Inserted(g, name) : name[c] = r.name
<1>1. PICK r \in triggerRows : s = IF Taken(r) THEN [r EXCEPT !.cluster = Pick(r)] ELSE r
  BY Zenon DEF Linked
<1>2. /\ r \in WrittenRowType /\ Sound(r, clusterRows) /\ Linkage(r, clusterRows, overtaken)
  BY DEF JoinInv, TypeOK, WrittenRowType
<1>3. \A c \in Inserted(g, name) : c \in ToStore(g) /\ \A k \in clusterRows : k.name # name[c]
  BY DEF Inserted
<1>4. \A k \in ClusterRowsOf(g, name) :
        /\ k.cluster \in Inserted(g, name) /\ k.name = name[k.cluster]
        /\ k.fast = FastMatched(k.cluster)
  BY NewClusterRow
<1>5. CASE Taken(r)
  <2>1. Pick(r) \in Inserted(g, name) /\ name[Pick(r)] = r.name
    BY <1>5
  <2>2. s.cluster = Pick(r) /\ s.name = r.name /\ s.by = r.by
    BY <1>1, <1>2, <1>5 DEF WrittenRowType
  <2>3. Joined(s, stored)
    BY <2>1, <2>2, StoredRow DEF Joined
  <2>4. ASSUME NEW k \in stored, k.name = s.name
        PROVE  s.cluster = k.cluster
    <3>1. k \in ClusterRowsOf(g, name)
      BY <1>3, <2>1, <2>2, <2>4
    <3>2. k.cluster \in Inserted(g, name) /\ name[k.cluster] = name[Pick(r)]
      BY <1>4, <2>1, <2>2, <2>4, <3>1
    <3> QED
      BY <2>1, <2>2, <3>2, InsertedNames
  <2> QED
    BY <2>3, <2>4 DEF Sound, Linkage
<1>6. CASE ~ Taken(r)
  <2>1. s = r
    BY <1>1, <1>6
  <2>2. Sound(r, stored)
    BY <1>2, SoundGrows
  <2>3. ASSUME r.by = "fast", NEW k \in stored, k.fast, k.name = r.name, r.name \notin over
        PROVE  r.cluster = k.cluster
    <3>1. CASE k \in clusterRows
      BY <1>2, <2>3, <3>1 DEF Linkage
    <3>2. CASE k \in ClusterRowsOf(g, name)
      <4>1. /\ k.cluster \in Inserted(g, name) /\ r.name = name[k.cluster]
            /\ FastMatched(k.cluster) /\ k.cluster \in ToStore(g)
        BY <1>3, <1>4, <2>3, <3>2
      <4>2. r.cluster # None
        BY <1>6, <4>1
      <4>3. Joined(r, clusterRows)
        BY <1>2, <4>2 DEF Sound
      <4> QED
        BY <1>3, <4>1, <4>3 DEF Joined
    <3> QED
      BY <3>1, <3>2
  <2> QED
    BY <2>1, <2>2, <2>3 DEF Linkage
<1> QED
  BY <1>5, <1>6

\* A call under way, after the gulp's clusters are stored.
LEMMA CallsJoin ==
  ASSUME TypeOK, JoinInv, NEW g \in Gulp, NEW name \in NamesGiven(g),
         NEW call \in calls, NEW over, overtaken \subseteq over,
         \A c \in Inserted(g, name) : name[c] \in NamesUnderWay => name[c] \in over
  PROVE  LET stored == clusterRows \union ClusterRowsOf(g, name)
         IN  /\ \A r \in {call.row} \union call.rest : Sound(r, stored)
             /\ call.row.by = "fast" => Awaits(call.row, stored, over)
<1> DEFINE stored == clusterRows \union ClusterRowsOf(g, name)
<1>1. \A r \in {call.row} \union call.rest : Sound(r, stored)
  BY SoundGrows DEF JoinInv
<1>2. ASSUME call.row.by = "fast"
      PROVE  Awaits(call.row, stored, over)
  <2>1. Awaits(call.row, clusterRows, overtaken)
    BY <1>2 DEF JoinInv
  <2>2. call.row.name \in NamesUnderWay
    BY DEF NamesUnderWay
  <2>3. ASSUME NEW k \in ClusterRowsOf(g, name), k.name = call.row.name
        PROVE  k.name \in over
    <3>1. k.cluster \in Inserted(g, name) /\ k.name = name[k.cluster]
      BY NewClusterRow
    <3> QED
      BY <2>2, <2>3, <3>1
  <2> QED
    BY <2>1, <2>3 DEF Awaits
<1> QED
  BY <1>1, <1>2

LEMMA ProcessJoins ==
  ASSUME TypeOK, JoinInv, NEW g \in Gulp, Process(g)
  PROVE  JoinInv'
<1>0. "fast" \notin Gulp
  BY ClusterAssumption
<1> PICK name \in NamesGiven(g) :
           \/ UNCHANGED <<clusterRows, triggerRows, calls, overtaken>>
           \/ /\ clusterRows' = clusterRows \union ClusterRowsOf(g, name)
              /\ overtaken' = overtaken \union {name[c] : c \in ToStore(g)}
              /\ UNCHANGED <<triggerRows, calls>>
           \/ /\ clusterRows' = clusterRows \union ClusterRowsOf(g, name)
              /\ \A c \in Inserted(g, name) : name[c] \in NamesUnderWay => name[c] \in overtaken'
              /\ overtaken \subseteq overtaken'
              /\ \A r \in triggerRows' : r \in Linked(g, name) \/ GulpRow(r, g, name)
              /\ \A call \in calls' :
                   \/ call \in calls
                   \/ /\ GulpRow(call.row, g, name)
                      /\ \A r \in call.rest : GulpRow(r, g, name)
  BY ProcessTables
<1>1. CASE UNCHANGED <<clusterRows, triggerRows, calls, overtaken>>
  BY <1>1 DEF JoinInv
<1>2. CASE /\ clusterRows' = clusterRows \union ClusterRowsOf(g, name)
           /\ overtaken' = overtaken \union {name[c] : c \in ToStore(g)}
           /\ UNCHANGED <<triggerRows, calls>>
  <2>1. /\ overtaken \subseteq overtaken'
        /\ \A c \in Inserted(g, name) : name[c] \in overtaken'
    BY <1>2, GulpTypes
  <2>2. \A r \in triggerRows : Sound(r, clusterRows')
    BY <1>2, SoundGrows DEF JoinInv
  <2>3. ASSUME NEW r \in triggerRows
        PROVE  Linkage(r, clusterRows', overtaken')
    <3>1. Linkage(r, clusterRows, overtaken)
      BY DEF JoinInv
    <3>2. \A k \in ClusterRowsOf(g, name) : k.name \in overtaken'
      BY <2>1, NewClusterRow
    <3> QED
      BY <1>2, <2>1, <3>1, <3>2 DEF Linkage
  <2>4. ASSUME NEW call \in calls
        PROVE  /\ \A r \in {call.row} \union call.rest : Sound(r, clusterRows')
               /\ call.row.by = "fast" => Awaits(call.row, clusterRows', overtaken')
               /\ \A r \in call.rest : r.by # "fast"
    BY <1>2, <2>1, CallsJoin DEF JoinInv
  <2> QED
    BY <1>2, <2>2, <2>3, <2>4 DEF JoinInv
<1>3. CASE /\ clusterRows' = clusterRows \union ClusterRowsOf(g, name)
           /\ \A c \in Inserted(g, name) : name[c] \in NamesUnderWay => name[c] \in overtaken'
           /\ overtaken \subseteq overtaken'
           /\ \A r \in triggerRows' : r \in Linked(g, name) \/ GulpRow(r, g, name)
           /\ \A call \in calls' :
                \/ call \in calls
                \/ /\ GulpRow(call.row, g, name)
                   /\ \A r \in call.rest : GulpRow(r, g, name)
  <2>1. ASSUME NEW r, GulpRow(r, g, name)
        PROVE  Sound(r, clusterRows') /\ r.by # "fast"
    BY <1>0, <1>3, <2>1 DEF GulpRow, Sound, Joined
  <2>2. ASSUME NEW r \in triggerRows'
        PROVE  Sound(r, clusterRows') /\ Linkage(r, clusterRows', overtaken')
    <3>1. CASE r \in Linked(g, name)
      BY <1>3, <3>1, LinkedJoins
    <3>2. CASE GulpRow(r, g, name)
      BY <2>1, <3>2 DEF Linkage
    <3> QED
      BY <1>3, <3>1, <3>2
  <2>3. ASSUME NEW call \in calls'
        PROVE  /\ \A r \in {call.row} \union call.rest : Sound(r, clusterRows')
               /\ call.row.by = "fast" => Awaits(call.row, clusterRows', overtaken')
               /\ \A r \in call.rest : r.by # "fast"
    <3>1. CASE call \in calls
      BY <1>3, <3>1, CallsJoin DEF JoinInv
    <3>2. CASE GulpRow(call.row, g, name) /\ \A r \in call.rest : GulpRow(r, g, name)
      BY <2>1, <3>2
    <3> QED
      BY <1>3, <3>1, <3>2
  <2> QED
    BY <2>2, <2>3 DEF JoinInv
<1> QED
  BY <1>1, <1>2, <1>3

LEMMA FastJoins ==
  ASSUME TypeOK, JoinInv, NEW b \in Batch, FastTriggers(b)
  PROVE  JoinInv'
<1>1. PICK t \in Best(b), n \in Name \ (NamesInDB \union NamesPending) :
        Triggers(t, triggerRows, Row(n, t.event, "fast", "sent", None), {})
  BY DEF FastTriggers
<1> DEFINE row == Row(n, t.event, "fast", "sent", None)
<1>2. UNCHANGED <<clusterRows, overtaken>>
  BY DEF FastTriggers, Judge
<1>3. \A k \in clusterRows : k.name # n
  BY <1>1 DEF NamesInDB
<1>4. row \in TriggerRowType /\ row.name = n /\ row.by = "fast" /\ row.cluster = None
  <2>1. t.event \in Event
    BY InputTypes DEF Best, Worthy
  <2> QED
    BY <1>1, <2>1, RowTypes DEF Row
<1>5. \A r : r.name = n /\ r.by = "fast" /\ r.cluster = None =>
        /\ Sound(r, clusterRows) /\ Linkage(r, clusterRows, overtaken)
        /\ Awaits(r, clusterRows, overtaken)
  BY <1>3 DEF Sound, Linkage, Awaits
<1>6. CASE /\ triggerRows' = triggerRows \union {[row EXCEPT !.action = "refused"]} \union {}
           /\ UNCHANGED <<calls, requests>>
  <2> DEFINE r == [row EXCEPT !.action = "refused"]
  <2>1. r.name = n /\ r.by = "fast" /\ r.cluster = None
    BY <1>4, Answered DEF Action
  <2>2. Sound(r, clusterRows) /\ Linkage(r, clusterRows, overtaken)
    BY <1>5, <2>1
  <2> QED
    BY <1>2, <1>6, <2>2 DEF JoinInv
<1>7. CASE triggerRows' = triggerRows /\ calls' = calls \union {[row |-> row, rest |-> {}]}
  <2>1. Sound(row, clusterRows) /\ Awaits(row, clusterRows, overtaken)
    BY <1>4, <1>5
  <2> QED
    BY <1>2, <1>7, <2>1 DEF JoinInv
<1> QED
  BY <1>1, <1>6, <1>7 DEF Triggers

LEMMA CallEndJoins ==
  ASSUME TypeInv, JoinInv, NEW call \in calls, CallEnds(call)
  PROVE  JoinInv'
<1>0. TypeOK
  BY DEF TypeInv
<1>1. PICK action \in {"triggered", "failed"} :
        triggerRows' = triggerRows \union RowsAfterCall(call, action)
  BY DEF CallEnds
<1>2. UNCHANGED <<clusterRows, overtaken>> /\ calls' \subseteq calls
  BY DEF CallEnds, history
<1> DEFINE row == [call.row EXCEPT !.action = action]
<1>3. row.name = call.row.name /\ row.by = call.row.by /\ row.cluster = call.row.cluster
  BY <1>0, RowsAfterCallTypes, Answered DEF Action
<1>4. /\ \A r \in {call.row} \union call.rest : Sound(r, clusterRows)
      /\ call.row.by = "fast" => Awaits(call.row, clusterRows, overtaken)
      /\ \A r \in call.rest : r.by # "fast"
  BY DEF JoinInv
<1>5. Sound(row, clusterRows) /\ Linkage(row, clusterRows, overtaken)
  BY <1>3, <1>4 DEF Sound, Joined, Linkage, Awaits
<1>6. \A r \in call.rest : Sound(r, clusterRows) /\ Linkage(r, clusterRows, overtaken)
  BY <1>4 DEF Linkage
<1>7. \A r \in triggerRows' : Sound(r, clusterRows) /\ Linkage(r, clusterRows, overtaken)
  BY <1>1, <1>5, <1>6 DEF JoinInv, RowsAfterCall
<1> QED
  BY <1>2, <1>7 DEF JoinInv

LEMMA JoinStep ==
  ASSUME TypeInv, JoinInv, [Next]_vars
  PROVE  JoinInv'
<1>0. TypeOK
  BY DEF TypeInv
<1>1. ASSUME NEW g \in Gulp, Process(g)
      PROVE  JoinInv'
  BY <1>0, <1>1, ProcessJoins
<1>2. ASSUME NEW b \in Batch, FastTriggers(b)
      PROVE  JoinInv'
  BY <1>0, <1>2, FastJoins
<1>3. ASSUME NEW call \in calls, CallEnds(call)
      PROVE  JoinInv'
  BY <1>3, CallEndJoins
<1>4. ASSUME UNCHANGED <<clusterRows, triggerRows, overtaken>>, calls' \subseteq calls
      PROVE  JoinInv'
  BY <1>4 DEF JoinInv
<1>5. ASSUME NEW b \in Batch, FastNothing(b) \/ FastGivesUp(b) \/ FastRaises(b)
      PROVE  JoinInv'
  BY <1>4, <1>5, FastMoves DEF FastStep, FastNothing, FastGivesUp, FastRaises
<1>6. ASSUME NEW e \in Event, CommitRow(e) \/ Fire(e)
      PROVE  JoinInv'
  BY <1>4, <1>6 DEF CommitRow, Fire, process, tables, history
<1>7. ASSUME NEW call \in calls, CallRaises(call)
      PROVE  JoinInv'
  BY <1>4, <1>7 DEF CallRaises, tables
<1>8. ASSUME Restart \/ Tick \/ UNCHANGED vars
      PROVE  JoinInv'
  BY <1>4, <1>8 DEF Restart, Tick, vars, process, tables, history
<1> QED
  BY <1>1, <1>2, <1>3, <1>5, <1>6, <1>7, <1>8 DEF Next

(***************************************************************************)
(* What joins triggers to clusters: a row's cluster is the one stored      *)
(* under the row's name, whichever rows the insert dropped, and a fast     *)
(* trigger is joined to the cluster that took its name, unless that one    *)
(* was stored before the trigger's own row or its gulp was cut short.      *)
(***************************************************************************)
THEOREM RowsJoinCorrect == Spec => []RowsJoin
<1> DEFINE I == TypeInv /\ JoinInv
<1>1. Init => I
  <2>1. Init => JoinInv
    BY DEF Init, JoinInv
  <2> QED
    BY <2>1, TypeInit
<1>2. I /\ [Next]_vars => I'
  BY TypeStep, JoinStep
<1>3. I => RowsJoin
  <2>1. JoinInv => LinkSound
    BY DEF JoinInv, LinkSound, Sound, Joined
  <2>2. JoinInv => FastRowLinked
    BY DEF JoinInv, FastRowLinked, Linkage
  <2> QED
    BY <2>1, <2>2 DEF RowsJoin, TypeInv
<1> QED
  BY <1>1, <1>2, <1>3, PTL DEF Spec

-----------------------------------------------------------------------------
(***************************************************************************)
(* The counts of the funnel row                                            *)
(***************************************************************************)

LEMMA SameCount ==
  ASSUME NEW S, NEW T, IsFiniteSet(S), NEW f \in [S -> T],
         \A x, y \in S : f[x] = f[y] => x = y,
         \A t \in T : \E x \in S : f[x] = t
  PROVE  IsFiniteSet(T) /\ Cardinality(T) = Cardinality(S)
<1>1. f \in Bijection(S, T)
  BY DEF Bijection, Injection, Surjection, IsInjective
<1>2. ExistsBijection(S, T)
  BY <1>1 DEF ExistsBijection
<1> QED
  BY <1>2, FS_Bijection

LEMMA MintedDiffer ==
  ASSUME TypeOK, NEW g \in Gulp, NEW name \in NamesGiven(g),
         NEW c \in ToTrigger(g), NEW d \in ToTrigger(g), c # d
  PROVE  name[c] # name[d]
<1>1. c \in ToStore(g) /\ d \in ToStore(g) \ {c}
  BY GulpTypes
<1>2. FastMatched(c) = FastMatched(d)
  <2>1. FastMatched(c) \in BOOLEAN /\ FastMatched(d) \in BOOLEAN
    BY DEF FastMatched
  <2>2. ~ FastMatched(c) /\ ~ FastMatched(d)
    BY DEF ToTrigger
  <2> QED
    BY <2>1, <2>2
<1> QED
  BY <1>1, <1>2, NamesTell, Zenon

\* The record goes to all that would trigger, the dump to the first.
LEMMA DuplicateCount ==
  ASSUME TypeOK, NEW g \in Gulp, NEW name \in NamesGiven(g), NEW first \in ToTrigger(g)
  PROVE  LET dup == Duplicates(g, name, first)
         IN  /\ IsFiniteSet(dup) /\ Cardinality(dup) \in Nat
             /\ Cardinality(ToTrigger(g)) = Cardinality(dup) + 1
             /\ \A r \in dup : r.by = g /\ r.name # TriggerRow(g, name, first).name
<1> DEFINE others == ToTrigger(g) \ {first}
           RowFor(c) == [TriggerRow(g, name, c) EXCEPT !.action = "suppressed"]
           dup == Duplicates(g, name, first)
           f == [c \in others |-> RowFor(c)]
<1>1. dup = {RowFor(c) : c \in others}
  BY Zenon DEF Duplicates
<1>2. \A c \in others : RowFor(c).name = name[c] /\ RowFor(c).by = g
  <2> SUFFICES ASSUME NEW c \in others
               PROVE  RowFor(c).name = name[c] /\ RowFor(c).by = g
    OBVIOUS
  <2>1. /\ TriggerRow(g, name, c) \in TriggerRowType
        /\ TriggerRow(g, name, c).name = name[c] /\ TriggerRow(g, name, c).by = g
    BY TriggerRowTypes
  <2> QED
    BY <2>1, Answered DEF Action
<1>3. IsFiniteSet(others) /\ Cardinality(ToTrigger(g)) = Cardinality(others) + 1
  <2>1. IsFiniteSet(ToTrigger(g))
    BY StatsTypes
  <2>2. /\ IsFiniteSet(others) /\ Cardinality(others) = Cardinality(ToTrigger(g)) - 1
        /\ Cardinality(ToTrigger(g)) \in Nat
    BY <2>1, FS_RemoveElement, FS_CardinalityType
  <2> QED
    BY <2>2
<1>4. IsFiniteSet(dup) /\ Cardinality(dup) = Cardinality(others)
  <2>1. f \in [others -> dup]
    BY <1>1
  <2>2. \A c, d \in others : f[c] = f[d] => c = d
    <3> SUFFICES ASSUME NEW c \in others, NEW d \in others, RowFor(c) = RowFor(d), c # d
                 PROVE  FALSE
      OBVIOUS
    <3>1. RowFor(c).name = name[c] /\ RowFor(d).name = name[d]
      BY <1>2
    <3>2. name[c] = name[d]
      BY <3>1
    <3>3. c \in ToTrigger(g) /\ d \in ToTrigger(g) /\ c # d
      OBVIOUS
    <3> HIDE DEF RowFor
    <3> QED
      BY <3>2, <3>3, MintedDiffer
  <2>3. \A r \in dup : \E c \in others : f[c] = r
    BY <1>1
  <2> HIDE DEF f, dup, others
  <2> QED
    BY <1>3, <2>1, <2>2, <2>3, SameCount
<1>5. \A r \in dup : r.by = g /\ r.name # TriggerRow(g, name, first).name
  <2> SUFFICES ASSUME NEW c \in others
               PROVE  /\ RowFor(c).by = g
                      /\ RowFor(c).name # TriggerRow(g, name, first).name
    BY <1>1
  <2>1. name[c] # name[first]
    BY MintedDiffer
  <2> QED
    BY <1>2, <2>1, TriggerRowTypes
<1> QED
  BY <1>3, <1>4, <1>5, FS_CardinalityType

StoredOf(g, stored) == {r \in stored : r.cluster.gulp = g}
RowsOf(g, rows) == {r \in rows : r.by = g}

\* What the gulp stored is counted, and no other gulp's rows are.
LEMMA StoredCount ==
  ASSUME TypeOK, NEW g \in Gulp, NEW name \in NamesGiven(g), StoredOf(g, clusterRows) = {}
  PROVE  LET stored == clusterRows \union ClusterRowsOf(g, name)
         IN  /\ Cardinality(StoredOf(g, stored)) = Cardinality(Inserted(g, name))
             /\ \A h \in Gulp \ {g} : StoredOf(h, stored) = StoredOf(h, clusterRows)
<1> DEFINE new == ClusterRowsOf(g, name)
           stored == clusterRows \union new
           RowFor(c) == [name |-> name[c], cluster |-> c, injection |-> TaggedInjection(c),
                         fast |-> FastMatched(c), at |-> now]
           f == [c \in Inserted(g, name) |-> RowFor(c)]
<1>1. new = {RowFor(c) : c \in Inserted(g, name)}
  BY Zenon DEF ClusterRowsOf
<1>2. \A r \in new : r.cluster.gulp = g
  BY NewClusterRow, GulpTypes
<1>3. StoredOf(g, stored) = new
  BY <1>2 DEF StoredOf
<1>4. \A h \in Gulp \ {g} : StoredOf(h, stored) = StoredOf(h, clusterRows)
  BY <1>2 DEF StoredOf
<1>5. Cardinality(new) = Cardinality(Inserted(g, name))
  <2>1. f \in [Inserted(g, name) -> new]
    BY <1>1
  <2>2. \A c, d \in Inserted(g, name) : f[c] = f[d] => c = d
    <3>1. \A c \in Inserted(g, name) : f[c].cluster = c
      BY Zenon
    <3> QED
      BY <3>1, Zenon
  <2>3. \A r \in new : \E c \in Inserted(g, name) : f[c] = r
    BY <1>1
  <2>4. IsFiniteSet(Inserted(g, name))
    BY StatsTypes
  <2> HIDE DEF f, new
  <2> QED
    BY <2>1, <2>2, <2>3, <2>4, SameCount
<1> QED
  BY <1>3, <1>4, <1>5

\* Links are made in rows of fast triggers only.
LEMMA LinkedKeeps ==
  ASSUME TypeOK, JoinInv, NEW g \in Gulp, NEW name \in NamesGiven(g), NEW h \in Gulp
  PROVE  RowsOf(h, Linked(g, name)) = RowsOf(h, triggerRows)
<1>0. "fast" \notin Gulp /\ None \notin Cluster
  BY ClusterAssumption
<1>1. ASSUME NEW r \in triggerRows, r.by = h
      PROVE  r.cluster # None
  <2>1. Joined(r, clusterRows)
    BY <1>0, <1>1 DEF JoinInv, Sound
  <2> QED
    BY <1>0, <2>1 DEF Joined, TypeOK
<1>2. ASSUME NEW s \in Linked(g, name), s.by = h
      PROVE  s \in triggerRows
  BY <1>1, <1>2, LinkedTypes
<1>3. ASSUME NEW r \in triggerRows, r.by = h
      PROVE  r \in Linked(g, name)
  <2>1. r.cluster # None
    BY <1>1, <1>3
  <2> DEFINE Link(s) ==
        IF /\ s.cluster = None
           /\ \E c \in Inserted(g, name) : name[c] = s.name
           /\ \E c \in ToStore(g) : FastMatched(c) /\ name[c] = s.name
        THEN [s EXCEPT !.cluster = CHOOSE c \in Inserted(g, name) : name[c] = s.name]
        ELSE s
  <2>2. Linked(g, name) = {Link(s) : s \in triggerRows}
    BY Zenon DEF Linked
  <2>3. Link(r) = r
    BY <2>1
  <2> QED
    BY <2>2, <2>3, Zenon
<1> QED
  BY <1>2, <1>3 DEF RowsOf

\* A gulp's funnel row: its call still owes all its rows, or they are written.
Reckoned(s, rows, under) ==
  \/ \E call \in under : call.row.by = s.gulp /\ s.would = Cardinality(call.rest) + 1
  \/ /\ \A call \in under : call.row.by # s.gulp
     /\ s.would = Cardinality(RowsOf(s.gulp, rows))

\* A gulp's call owes rows of that gulp, under other names than its own.
Owing(call) ==
  /\ IsFiniteSet(call.rest)
  /\ \A r \in call.rest : r.by = call.row.by /\ r.name # call.row.name

Untouched(g, stored, rows, stats, under) ==
  /\ StoredOf(g, stored) = {} /\ RowsOf(g, rows) = {}
  /\ \A s \in stats : s.gulp # g
  /\ \A call \in under : call.row.by # g

CountInv ==
  /\ \A g \in Gulp \ processed : Untouched(g, clusterRows, triggerRows, statsRows, calls)
  /\ \A call \in calls : /\ Owing(call)
                         /\ call.row.by \in Gulp => RowsOf(call.row.by, triggerRows) = {}
  /\ \A c, d \in calls : c.row.by = d.row.by /\ c.row.by \in Gulp => c = d
  /\ \A s \in statsRows :
       /\ s.stored = Cardinality(StoredOf(s.gulp, clusterRows))
       /\ s.gulp \notin lost => Reckoned(s, triggerRows, calls)

\* What a gulp adds to the three tables and to the calls.
LEMMA ProcessCounts ==
  ASSUME TypeOK, JoinInv, CountInv, NEW g \in Gulp, Process(g)
  PROVE  /\ g \notin processed /\ processed' = processed \union {g}
         /\ \A h \in Gulp \ {g} : /\ StoredOf(h, clusterRows') = StoredOf(h, clusterRows)
                                  /\ RowsOf(h, triggerRows') = RowsOf(h, triggerRows)
         /\ lost' \in {lost, lost \union {g}}
         /\ \/ calls' = calls
            \/ \E call : /\ calls' = calls \union {call} /\ call.row.by = g /\ Owing(call)
                         /\ RowsOf(g, triggerRows') = {}
         /\ \A s \in statsRows' :
              \/ s \in statsRows
              \/ /\ s.gulp = g /\ s.stored = Cardinality(StoredOf(g, clusterRows'))
                 /\ g \notin lost' => Reckoned(s, triggerRows', calls')
<1>0. PICK name \in NamesGiven(g) :
        \/ ProcessQuiet(g, name) \/ ProcessTriggers(g, name)
        \/ ProcessRaises(g, name) \/ ReadRaises(g, name)
  BY DEF Process
<1>1. g \notin processed /\ processed' = processed \union {g}
  BY <1>0, ReadRaisesMoves DEF Process, ProcessQuiet, ProcessTriggers, ProcessRaises, Begin
<1>2. Untouched(g, clusterRows, triggerRows, statsRows, calls)
  BY <1>1 DEF CountInv
<1> DEFINE new == clusterRows \union ClusterRowsOf(g, name)
           stat == StatsOf(g, name)
<1>3. /\ Cardinality(StoredOf(g, new)) = Cardinality(Inserted(g, name))
      /\ \A h \in Gulp \ {g} : StoredOf(h, new) = StoredOf(h, clusterRows)
  BY <1>2, StoredCount DEF Untouched
<1>4. \A h \in Gulp : RowsOf(h, Linked(g, name)) = RowsOf(h, triggerRows)
  BY LinkedKeeps
<1>5. /\ stat.gulp = g /\ stat.stored = Cardinality(Inserted(g, name))
      /\ stat.would = Cardinality(ToTrigger(g))
  BY DEF StatsOf
<1>6. CASE ProcessQuiet(g, name)
  <2>1. /\ clusterRows' = new /\ statsRows' = statsRows \union {stat}
        /\ triggerRows' = Linked(g, name) /\ ToTrigger(g) = {}
        /\ UNCHANGED <<calls, lost>>
    BY <1>6 DEF ProcessQuiet, Store, WriteStats
  <2>2. RowsOf(g, triggerRows') = {}
    BY <1>2, <1>4, <2>1 DEF Untouched
  <2>3. Reckoned(stat, triggerRows', calls')
    BY <1>2, <1>5, <2>1, <2>2, FS_EmptySet DEF Reckoned, Untouched
  <2> QED
    BY <1>1, <1>3, <1>4, <1>5, <2>1, <2>3
<1>7. CASE ProcessTriggers(g, name)
  <2>1. /\ clusterRows' = new /\ statsRows' = statsRows \union {stat} /\ lost' = lost
    BY <1>7 DEF ProcessTriggers, Store, WriteStats
  <2>2. PICK first \in Brightest(ToTrigger(g)) :
          Triggers(first, Linked(g, name), TriggerRow(g, name, first), Duplicates(g, name, first))
    BY <1>7 DEF ProcessTriggers
  <2> DEFINE row == TriggerRow(g, name, first)
             dup == Duplicates(g, name, first)
  <2>3. first \in ToTrigger(g)
    BY DEF Brightest
  <2>4. row \in TriggerRowType /\ row.by = g
    BY <2>3, TriggerRowTypes
  <2>5. /\ IsFiniteSet(dup) /\ Cardinality(dup) \in Nat
        /\ Cardinality(ToTrigger(g)) = Cardinality(dup) + 1
        /\ \A r \in dup : r.by = g /\ r.name # row.name
    BY <2>3, DuplicateCount
  <2>6. CASE /\ triggerRows' = Linked(g, name) \union {[row EXCEPT !.action = "refused"]}
                                 \union dup
             /\ UNCHANGED <<calls, requests>>
    <3> DEFINE mine == [row EXCEPT !.action = "refused"]
    <3>1. mine.by = g /\ mine.name = row.name
      BY <2>4, Answered DEF Action
    <3>2. mine \notin dup
      BY <2>5, <3>1
    <3>0. triggerRows' = Linked(g, name) \union {mine} \union dup
      BY <2>6
    <3>3. RowsOf(g, triggerRows') = dup \union {mine}
      <4>1. RowsOf(g, Linked(g, name)) = {}
        BY <1>2, <1>4 DEF Untouched
      <4> HIDE DEF mine, dup
      <4> QED
        BY <2>5, <3>0, <3>1, <4>1 DEF RowsOf
    <3>4. Cardinality(RowsOf(g, triggerRows')) = Cardinality(ToTrigger(g))
      <4> HIDE DEF mine, dup
      <4> QED
        BY <2>5, <3>2, <3>3, FS_AddElement
    <3>5. \A h \in Gulp \ {g} : RowsOf(h, triggerRows') = RowsOf(h, Linked(g, name))
      <4> HIDE DEF mine, dup
      <4> QED
        BY <2>5, <3>0, <3>1 DEF RowsOf
    <3>6. Reckoned(stat, triggerRows', calls')
      BY <1>2, <1>5, <2>6, <3>4 DEF Reckoned, Untouched
    <3> QED
      BY <1>1, <1>3, <1>4, <1>5, <2>1, <2>6, <3>5, <3>6
  <2>7. CASE /\ triggerRows' = Linked(g, name)
             /\ calls' = calls \union {[row |-> row, rest |-> dup]}
    <3> DEFINE call == [row |-> row, rest |-> dup]
    <3>1. call.row.by = g /\ Owing(call) /\ call \in calls'
      BY <2>4, <2>5, <2>7 DEF Owing
    <3>2. Reckoned(stat, triggerRows', calls')
      BY <1>5, <2>5, <3>1 DEF Reckoned
    <3>3. RowsOf(g, triggerRows') = {}
      BY <1>2, <1>4, <2>7 DEF Untouched
    <3>4. \E k : /\ calls' = calls \union {k} /\ k.row.by = g /\ Owing(k)
                 /\ RowsOf(g, triggerRows') = {}
      BY <2>7, <3>1, <3>3
    <3> QED
      BY <1>1, <1>3, <1>4, <1>5, <2>1, <2>7, <3>2, <3>4
  <2> QED
    BY <2>2, <2>6, <2>7 DEF Triggers
<1>8. CASE ProcessRaises(g, name)
  <2>1. lost' = lost \union {g} /\ calls' = calls
    BY <1>8 DEF ProcessRaises
  <2>2. \/ UNCHANGED <<clusterRows, triggerRows, statsRows>>
        \/ /\ clusterRows' = new
           /\ triggerRows' \in {triggerRows, Linked(g, name)}
           /\ statsRows' \in {statsRows, statsRows \union {stat}}
    BY <1>8 DEF ProcessRaises, WriteStats, tables
  <2> QED
    BY <1>1, <1>3, <1>4, <1>5, <2>1, <2>2
<1>9. CASE ReadRaises(g, name)
  BY <1>1, <1>9, ReadRaisesMoves
<1> QED
  BY <1>0, <1>6, <1>7, <1>8, <1>9

LEMMA ProcessKeepsCount ==
  ASSUME TypeOK, JoinInv, CountInv, NEW g \in Gulp, Process(g)
  PROVE  CountInv'
<1>1. /\ g \notin processed /\ processed' = processed \union {g}
      /\ \A h \in Gulp \ {g} : /\ StoredOf(h, clusterRows') = StoredOf(h, clusterRows)
                               /\ RowsOf(h, triggerRows') = RowsOf(h, triggerRows)
      /\ lost' \in {lost, lost \union {g}}
      /\ \/ calls' = calls
         \/ \E call : /\ calls' = calls \union {call} /\ call.row.by = g /\ Owing(call)
                      /\ RowsOf(g, triggerRows') = {}
      /\ \A s \in statsRows' :
           \/ s \in statsRows
           \/ /\ s.gulp = g /\ s.stored = Cardinality(StoredOf(g, clusterRows'))
              /\ g \notin lost' => Reckoned(s, triggerRows', calls')
  BY ProcessCounts
<1>2. Untouched(g, clusterRows, triggerRows, statsRows, calls)
  BY <1>1 DEF CountInv
<1>3. \A h \in Gulp \ processed' :
        Untouched(h, clusterRows', triggerRows', statsRows', calls')
  BY <1>1 DEF CountInv, Untouched
<1>4. \A call \in calls' : /\ Owing(call)
                           /\ call.row.by \in Gulp => RowsOf(call.row.by, triggerRows') = {}
  <2> SUFFICES ASSUME NEW call \in calls'
               PROVE  /\ Owing(call)
                      /\ call.row.by \in Gulp => RowsOf(call.row.by, triggerRows') = {}
    OBVIOUS
  <2>1. CASE call \in calls
    BY <1>1, <1>2, <2>1 DEF CountInv, Untouched
  <2>2. CASE call \notin calls
    BY <1>1, <2>2
  <2> QED
    BY <2>1, <2>2
<1>5. \A c, d \in calls' : c.row.by = d.row.by /\ c.row.by \in Gulp => c = d
  BY <1>1, <1>2 DEF CountInv, Untouched
<1>6. ASSUME NEW s \in statsRows'
      PROVE  /\ s.stored = Cardinality(StoredOf(s.gulp, clusterRows'))
             /\ s.gulp \notin lost' => Reckoned(s, triggerRows', calls')
  <2>1. CASE s \in statsRows
    <3>1. s.gulp \in Gulp \ {g}
      BY <1>2, <2>1 DEF Untouched, TypeOK
    <3>2. /\ s.stored = Cardinality(StoredOf(s.gulp, clusterRows))
          /\ s.gulp \notin lost => Reckoned(s, triggerRows, calls)
      BY <2>1 DEF CountInv
    <3>3. ASSUME Reckoned(s, triggerRows, calls)
          PROVE  Reckoned(s, triggerRows', calls')
      <4>1. RowsOf(s.gulp, triggerRows') = RowsOf(s.gulp, triggerRows)
        BY <1>1, <3>1
      <4>2. \A call \in calls' : call \in calls \/ call.row.by = g
        BY <1>1
      <4>3. calls \subseteq calls'
        BY <1>1
      <4> QED
        BY <3>1, <3>3, <4>1, <4>2, <4>3 DEF Reckoned
    <3> QED
      BY <1>1, <3>1, <3>2, <3>3
  <2>2. CASE s \notin statsRows
    BY <1>1, <2>2
  <2> QED
    BY <2>1, <2>2
<1> QED
  BY <1>3, <1>4, <1>5, <1>6 DEF CountInv

\* The rows of the fast path are of no gulp.
LEMMA FastKeepsCount ==
  ASSUME TypeOK, CountInv, NEW b \in Batch, FastTriggers(b)
  PROVE  CountInv'
<1>0. "fast" \notin Gulp
  BY ClusterAssumption
<1>1. PICK t \in Best(b), n \in Name \ (NamesInDB \union NamesPending) :
        Triggers(t, triggerRows, Row(n, t.event, "fast", "sent", None), {})
  BY DEF FastTriggers
<1> DEFINE row == Row(n, t.event, "fast", "sent", None)
           call == [row |-> row, rest |-> {}]
<1>2. UNCHANGED <<clusterRows, statsRows, lost, processed>>
  BY DEF FastTriggers, Judge
<1>3. row \in TriggerRowType /\ row.by = "fast"
  <2>1. t.event \in Event
    BY InputTypes DEF Best, Worthy
  <2> QED
    BY <2>1, RowTypes DEF Row
<1>4. \A k \in calls' : k \in calls \/ (k.row.by = "fast" /\ Owing(k))
  <2>1. call.row.by = "fast" /\ Owing(call)
    BY <1>3, FS_EmptySet DEF Owing
  <2>2. calls' = calls \/ calls' = calls \union {call}
    BY <1>1 DEF Triggers
  <2> SUFFICES ASSUME NEW k \in calls', k \notin calls
               PROVE  k.row.by = "fast" /\ Owing(k)
    OBVIOUS
  <2>3. k = call
    BY <2>2
  <2> QED
    BY <2>1, <2>3
<1>5. calls \subseteq calls'
  BY <1>1 DEF Triggers
<1>6. \A h \in Gulp : RowsOf(h, triggerRows') = RowsOf(h, triggerRows)
  <2> DEFINE mine == [row EXCEPT !.action = "refused"]
  <2>1. mine.by = "fast"
    BY <1>3, Answered DEF Action
  <2>2. triggerRows' = triggerRows \/ triggerRows' = triggerRows \union {mine}
    BY <1>1 DEF Triggers
  <2> HIDE DEF mine
  <2> QED
    BY <1>0, <2>1, <2>2 DEF RowsOf
<1>7. \A h \in Gulp \ processed' :
        Untouched(h, clusterRows', triggerRows', statsRows', calls')
  BY <1>0, <1>2, <1>4, <1>6 DEF CountInv, Untouched
<1>8. \A k \in calls' : /\ Owing(k)
                        /\ k.row.by \in Gulp => RowsOf(k.row.by, triggerRows') = {}
  BY <1>0, <1>4, <1>6 DEF CountInv
<1>9. \A c, d \in calls' : c.row.by = d.row.by /\ c.row.by \in Gulp => c = d
  BY <1>0, <1>4 DEF CountInv
<1>10. ASSUME NEW s \in statsRows'
       PROVE  /\ s.stored = Cardinality(StoredOf(s.gulp, clusterRows'))
              /\ s.gulp \notin lost' => Reckoned(s, triggerRows', calls')
  <2>1. /\ s.gulp \in Gulp /\ s.stored = Cardinality(StoredOf(s.gulp, clusterRows))
        /\ s.gulp \notin lost => Reckoned(s, triggerRows, calls)
    BY <1>2 DEF CountInv, TypeOK
  <2> QED
    BY <1>0, <1>2, <1>4, <1>5, <1>6, <2>1 DEF Reckoned
<1> QED
  BY <1>7, <1>8, <1>9, <1>10 DEF CountInv

\* The rows that a call owed, written, are as many.
LEMMA CallEndKeepsCount ==
  ASSUME TypeInv, CountInv, NEW call \in calls, CallEnds(call)
  PROVE  CountInv'
<1>0. TypeOK
  BY DEF TypeInv
<1>1. PICK action \in {"triggered", "failed"} :
        triggerRows' = triggerRows \union RowsAfterCall(call, action)
  BY DEF CallEnds
<1>2. UNCHANGED <<clusterRows, statsRows, lost, processed>> /\ calls' = calls \ {call}
  BY DEF CallEnds, history, progress
<1> DEFINE mine == [call.row EXCEPT !.action = action]
           g == call.row.by
<1>3. mine.by = g /\ mine.name = call.row.name
  BY <1>0, RowsAfterCallTypes, Answered DEF Action
<1>4. Owing(call)
  BY DEF CountInv
<1>5. triggerRows' = triggerRows \union {mine} \union call.rest
  BY <1>1 DEF RowsAfterCall
<1>6. \A h : h # g => RowsOf(h, triggerRows') = RowsOf(h, triggerRows)
  <2> HIDE DEF mine
  <2> QED
    BY <1>3, <1>4, <1>5 DEF RowsOf, Owing
<1>7. g \in Gulp => Cardinality(RowsOf(g, triggerRows')) = Cardinality(call.rest) + 1
  <2> SUFFICES ASSUME g \in Gulp
               PROVE  Cardinality(RowsOf(g, triggerRows')) = Cardinality(call.rest) + 1
    OBVIOUS
  <2>1. RowsOf(g, triggerRows) = {}
    BY DEF CountInv
  <2> HIDE DEF mine
  <2>2. RowsOf(g, triggerRows') = call.rest \union {mine}
    BY <1>3, <1>4, <1>5, <2>1 DEF RowsOf, Owing
  <2>3. mine \notin call.rest
    BY <1>3, <1>4 DEF Owing
  <2> QED
    BY <1>4, <2>2, <2>3, FS_AddElement DEF Owing
<1>8. \A h \in Gulp \ processed' :
        Untouched(h, clusterRows', triggerRows', statsRows', calls')
  <2> SUFFICES ASSUME NEW h \in Gulp \ processed
               PROVE  Untouched(h, clusterRows, triggerRows', statsRows, calls')
    BY <1>2
  <2>1. Untouched(h, clusterRows, triggerRows, statsRows, calls)
    BY DEF CountInv
  <2>2. h # g
    BY <2>1 DEF Untouched
  <2> QED
    BY <1>2, <1>6, <2>1, <2>2 DEF Untouched
<1>9. \A k \in calls' : /\ Owing(k)
                        /\ k.row.by \in Gulp => RowsOf(k.row.by, triggerRows') = {}
  <2> SUFFICES ASSUME NEW k \in calls'
               PROVE  /\ Owing(k)
                      /\ k.row.by \in Gulp => RowsOf(k.row.by, triggerRows') = {}
    OBVIOUS
  <2>1. k \in calls /\ k # call
    BY <1>2
  <2>2. k.row.by \in Gulp => k.row.by # g
    BY <2>1 DEF CountInv
  <2> QED
    BY <1>6, <2>1, <2>2 DEF CountInv
<1>10. \A c, d \in calls' : c.row.by = d.row.by /\ c.row.by \in Gulp => c = d
  BY <1>2 DEF CountInv
<1>11. ASSUME NEW s \in statsRows'
       PROVE  /\ s.stored = Cardinality(StoredOf(s.gulp, clusterRows'))
              /\ s.gulp \notin lost' => Reckoned(s, triggerRows', calls')
  <2>1. /\ s.gulp \in Gulp /\ s.stored = Cardinality(StoredOf(s.gulp, clusterRows))
        /\ s.gulp \notin lost => Reckoned(s, triggerRows, calls)
    BY <1>0, <1>2 DEF CountInv, TypeOK
  <2>2. CASE s.gulp # g
    BY <1>2, <1>6, <2>1, <2>2 DEF Reckoned
  <2>3. CASE s.gulp = g /\ s.gulp \notin lost
    <3>1. s.would = Cardinality(call.rest) + 1
      <4>1. PICK k \in calls : k.row.by = g /\ s.would = Cardinality(k.rest) + 1
        BY <2>1, <2>3 DEF Reckoned
      <4>2. k = call
        BY <2>1, <2>3, <4>1 DEF CountInv
      <4> QED
        BY <4>1, <4>2
    <3>2. \A k \in calls' : k.row.by # g
      BY <1>2, <2>1, <2>3 DEF CountInv
    <3> QED
      BY <1>2, <1>7, <2>1, <2>3, <3>1, <3>2 DEF Reckoned
  <2> QED
    BY <1>2, <2>1, <2>2, <2>3
<1> QED
  BY <1>8, <1>9, <1>10, <1>11 DEF CountInv

\* Calls that go under, with those who had them.
LEMMA LossKeepsCount ==
  ASSUME TypeOK, CountInv, calls' \subseteq calls, lost \subseteq lost',
         \A call \in calls : call \in calls' \/ call.row.by \in lost',
         UNCHANGED <<clusterRows, triggerRows, statsRows, processed>>
  PROVE  CountInv'
<1>1. ASSUME NEW s \in statsRows, s.gulp \notin lost'
      PROVE  Reckoned(s, triggerRows, calls')
  <2>1. Reckoned(s, triggerRows, calls)
    BY <1>1 DEF CountInv
  <2>2. \A call \in calls : call.row.by = s.gulp => call \in calls'
    BY <1>1
  <2> QED
    BY <2>1, <2>2 DEF Reckoned
<1> QED
  BY <1>1 DEF CountInv, Untouched

LEMMA CountStep ==
  ASSUME TypeInv, JoinInv, CountInv, [Next]_vars
  PROVE  CountInv'
<1>0. TypeOK
  BY DEF TypeInv
<1>1. ASSUME NEW g \in Gulp, Process(g)
      PROVE  CountInv'
  BY <1>0, <1>1, ProcessKeepsCount
<1>2. ASSUME NEW b \in Batch, FastTriggers(b)
      PROVE  CountInv'
  BY <1>0, <1>2, FastKeepsCount
<1>3. ASSUME NEW call \in calls, CallEnds(call)
      PROVE  CountInv'
  BY <1>3, CallEndKeepsCount
<1>4. ASSUME UNCHANGED <<clusterRows, triggerRows, statsRows, processed, calls, lost>>
      PROVE  CountInv'
  BY <1>0, <1>4, LossKeepsCount
<1>5. ASSUME NEW b \in Batch, FastNothing(b) \/ FastGivesUp(b) \/ FastRaises(b)
      PROVE  CountInv'
  BY <1>4, <1>5, FastMoves DEF FastStep, FastNothing, FastGivesUp, FastRaises
<1>6. ASSUME NEW e \in Event, CommitRow(e) \/ Fire(e)
      PROVE  CountInv'
  BY <1>4, <1>6 DEF CommitRow, Fire, process, progress, tables, history
<1>7. ASSUME NEW call \in calls, CallRaises(call)
      PROVE  CountInv'
  BY <1>0, <1>7, LossKeepsCount DEF CallRaises, progress, tables
<1>8. ASSUME Restart
      PROVE  CountInv'
  BY <1>0, <1>8, LossKeepsCount DEF Restart, progress, tables
<1>9. ASSUME Tick \/ UNCHANGED vars
      PROVE  CountInv'
  BY <1>4, <1>9 DEF Tick, vars, process, progress, tables, history
<1> QED
  BY <1>1, <1>2, <1>3, <1>5, <1>6, <1>7, <1>8, <1>9 DEF Next

LEMMA CountsGive ==
  ASSUME TypeOK, CountInv
  PROVE  FunnelAccounts
<1> SUFFICES ASSUME NEW s \in statsRows
             PROVE  /\ s.stored = Cardinality({r \in clusterRows : r.cluster.gulp = s.gulp})
                    /\ s.gulp \notin lost =>
                         s.would = Cardinality(RowsBy(s.gulp)) + Cardinality(OwedBy(s.gulp))
  BY DEF FunnelAccounts
<1>1. s.gulp \in Gulp /\ s.would \in Nat
  BY DEF TypeOK
<1>2. s.stored = Cardinality({r \in clusterRows : r.cluster.gulp = s.gulp})
  BY DEF CountInv, StoredOf
<1>3. RowsBy(s.gulp) = RowsOf(s.gulp, triggerRows)
  BY DEF RowsBy, RowsOf
<1>4. ASSUME NEW call \in calls, call.row.by = s.gulp,
             s.would = Cardinality(call.rest) + 1
      PROVE  s.would = Cardinality(RowsBy(s.gulp)) + Cardinality(OwedBy(s.gulp))
  <2>1. {k \in calls : k.row.by = s.gulp} = {call}
    BY <1>1, <1>4 DEF CountInv
  <2>2. OwedBy(s.gulp) = call.rest \union {call.row}
    BY <2>1 DEF OwedBy
  <2>3. Owing(call) /\ RowsOf(s.gulp, triggerRows) = {}
    BY <1>1, <1>4 DEF CountInv
  <2>4. call.row \notin call.rest
    BY <2>3 DEF Owing
  <2>5. Cardinality(OwedBy(s.gulp)) = Cardinality(call.rest) + 1
    BY <2>2, <2>3, <2>4, FS_AddElement DEF Owing
  <2>6. Cardinality(RowsBy(s.gulp)) = 0
    BY <1>3, <2>3, FS_EmptySet
  <2> QED
    BY <1>1, <1>4, <2>5, <2>6
<1>5. ASSUME \A call \in calls : call.row.by # s.gulp,
             s.would = Cardinality(RowsOf(s.gulp, triggerRows))
      PROVE  s.would = Cardinality(RowsBy(s.gulp)) + Cardinality(OwedBy(s.gulp))
  <2>1. OwedBy(s.gulp) = {}
    BY <1>5 DEF OwedBy
  <2>2. Cardinality(OwedBy(s.gulp)) = 0
    BY <2>1, FS_EmptySet
  <2> QED
    BY <1>1, <1>3, <1>5, <2>2
<1>6. s.gulp \notin lost => Reckoned(s, triggerRows, calls)
  BY DEF CountInv
<1> QED
  BY <1>2, <1>4, <1>5, <1>6 DEF Reckoned

(***************************************************************************)
(* The funnel row counts the clusters that are stored, whatever the insert *)
(* dropped, and the clusters that would trigger, each of which has its row *)
(* in triggers or is owed one by the gulp's one call.                      *)
(***************************************************************************)
THEOREM FunnelCorrect == Spec => []FunnelAccounts
<1> DEFINE I == TypeInv /\ JoinInv /\ CountInv
<1>1. Init => I
  <2>1. Init => JoinInv
    BY DEF Init, JoinInv
  <2>2. Init => CountInv
    BY DEF Init, CountInv, Untouched, StoredOf, RowsOf
  <2> QED
    BY <2>1, <2>2, TypeInit
<1>2. I /\ [Next]_vars => I'
  BY TypeStep, JoinStep, CountStep
<1>3. I => FunnelAccounts
  BY CountsGive DEF TypeInv
<1> QED
  BY <1>1, <1>2, <1>3, PTL DEF Spec

=============================================================================
