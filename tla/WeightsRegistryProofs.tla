------------------------- MODULE WeightsRegistryProofs -------------------------
(***************************************************************************)
(* Theorems about the weights registry, for every set of products, streams *)
(* and uploaders, every order of their steps and any number of faults.     *)
(***************************************************************************)
EXTENDS WeightsRegistry, FiniteSetTheorems, SequenceTheorems, TLAPS

-----------------------------------------------------------------------------
(***************************************************************************)
(* Types                                                                   *)
(***************************************************************************)

LoadType == [stream : Stream, at : Nat, payload : Payload]

LineType ==
  [stream : Stream, utc : Nat, tick : Nat, product : Product \union {None},
   upload : Product \union {None}]

IndexType == [Payload -> Product \union {None}]

WriterType ==
  [pc : {"idle", "fill", "index", "store", "push", "record"},
   product : Product \union {None}, width : Width \union {None},
   index : IndexType, load : Nat \union {None}, streams : SUBSET Stream]

ReaderType ==
  [pc : {"idle", "read", "product"}, utc : Nat, stat : Nat,
   product : Product \union {None}]

\* What a writer's place says of what it holds.
PlacePart ==
  \A w \in Writer :
    /\ writer[w].pc \in {"fill", "index", "store", "push"} => writer[w].product \in Product
    /\ writer[w].pc \in {"index", "store", "push"} => w \in Uploader
    /\ writer[w].pc = "record" => writer[w].load \in 1 .. Len(loads)
    /\ w = Watcher /\ writer[w].pc = "record" => writer[w].product = None /\ writer[w].streams = {}
    /\ w \in Uploader /\ writer[w].pc = "record" => writer[w].product \in Product

TypeInv ==
  /\ file \in [Product -> Versioned] /\ productCache \in [Product -> Versioned]
  /\ index \in IndexType
  /\ events \in Seq(LineType) /\ loads \in Seq(LoadType)
  /\ unseen \subseteq 1 .. Len(loads)
  /\ writer \in [Writer -> WriterType]
  /\ reader \in ReaderType
  /\ reader.pc = "product" => reader.product \in Product
  /\ eventCache \in [tick : Nat \union {-1}, known : Nat]
  /\ eventCache.known <= Len(events)
  /\ width \in [Product -> Width \union {None}]
  /\ now \in Nat
  /\ PlacePart

\* Times are in the past.
PastPart ==
  /\ \A i \in 1 .. Len(events) : events[i].utc <= now /\ events[i].tick <= now
  /\ \A i \in 1 .. Len(loads) : loads[i].at <= now
  /\ reader.utc <= now

LEMMA ConstantTypes ==
  /\ \A p \in Product, s \in Stream : PayloadOf[p][s] \in Payload
  /\ \A s \in Stream : Default[s] \in Payload
  /\ \A p \in Product : GivenWidth[p] \subseteq Width \union {None}
  /\ Stream # {} /\ Stream \subseteq Nat
  /\ Watcher \notin Uploader /\ None \notin Product
BY RegistryAssumption

LEMMA IdleType == Idle \in WriterType
BY DEF Idle, WriterType, IndexType

\* A writer's next place and what it holds.
LEMMA Moved ==
  ASSUME writer \in [Writer -> WriterType], NEW w \in Writer,
         NEW label \in {"idle", "fill", "index", "store", "push", "record"},
         NEW held \in WriterType, Moves(w, label, held)
  PROVE  /\ writer' \in [Writer -> WriterType]
         /\ \A v \in Writer \ {w} : writer'[v] = writer[v]
         /\ writer'[w].pc = label /\ writer'[w].product = held.product
         /\ writer'[w].index = held.index /\ writer'[w].load = held.load
         /\ writer'[w].width = held.width /\ writer'[w].streams = held.streams
<1> DEFINE new == [held EXCEPT !.pc = label]
<1>1. /\ new \in WriterType
      /\ new.pc = label /\ new.product = held.product
      /\ new.index = held.index /\ new.load = held.load
      /\ new.width = held.width /\ new.streams = held.streams
  BY DEF WriterType
<1>2. writer' = [writer EXCEPT ![w] = new]
  BY DEF Moves
<1> HIDE DEF new
<1> QED
  BY <1>1, <1>2

LEMMA LoadAdds ==
  ASSUME loads \in Seq(LoadType), NEW s \in Stream, NEW payload \in Payload, now \in Nat,
         Loads(s, payload)
  PROVE  /\ loads' \in Seq(LoadType) /\ Len(loads') = Len(loads) + 1
         /\ \A i \in 1 .. Len(loads) : loads'[i] = loads[i]
         /\ loads'[Len(loads) + 1] = [stream |-> s, at |-> now, payload |-> payload]
         /\ \A i \in 1 .. Len(loads) : loads[i].stream = s => loads[i].at < now
<1> DEFINE new == [stream |-> s, at |-> now, payload |-> payload]
<1>1. new \in LoadType
  BY DEF LoadType
<1>2. loads' = Append(loads, new) /\ DOMAIN loads = 1 .. Len(loads)
  BY DEF Loads
<1>3. \A i \in 1 .. Len(loads) : loads[i].stream = s => loads[i].at < now
  BY <1>2 DEF Loads
<1> HIDE DEF new
<1>4. /\ loads' \in Seq(LoadType) /\ Len(loads') = Len(loads) + 1
      /\ \A i \in 1 .. Len(loads) : loads'[i] = loads[i]
      /\ loads'[Len(loads) + 1] = new
  BY <1>1, <1>2, AppendProperties
<1> QED
  BY <1>3, <1>4 DEF new

\* The line that a writer adds.
LEMMA LineAdds ==
  ASSUME TypeInv, NEW w \in Writer, RecordEvent(w)
  PROVE  LET l == loads[writer[w].load]
             e == events'[Len(events) + 1]
         IN  /\ writer[w].load \in 1 .. Len(loads) /\ l \in LoadType
             /\ events' \in Seq(LineType) /\ Len(events') = Len(events) + 1
             /\ \A i \in 1 .. Len(events) : events'[i] = events[i]
             /\ e.stream = l.stream /\ e.utc = l.at /\ e.tick = now
             /\ e.product = index[l.payload] /\ e.upload = writer[w].product
<1> DEFINE l == loads[writer[w].load]
           new == Line(writer[w])
<1>1. writer[w].load \in 1 .. Len(loads) /\ writer[w] \in WriterType
  BY DEF TypeInv, PlacePart, RecordEvent
<1>2. l \in LoadType
  BY <1>1, ElementOfSeq DEF TypeInv
<1>3. new = [stream |-> l.stream, utc |-> l.at, tick |-> now,
             product |-> index[l.payload], upload |-> writer[w].product]
  BY DEF Line
<1>4. new \in LineType
  BY <1>1, <1>2, <1>3 DEF LineType, LoadType, TypeInv, IndexType, WriterType
<1>5. events' = Append(events, new) /\ events \in Seq(LineType)
  BY DEF RecordEvent, TypeInv
<1>6. /\ events' \in Seq(LineType) /\ Len(events') = Len(events) + 1
      /\ \A i \in 1 .. Len(events) : events'[i] = events[i]
      /\ events'[Len(events) + 1] = new
  <2> HIDE DEF new
  <2> QED
    BY <1>4, <1>5, AppendProperties
<1> QED
  BY <1>1, <1>2, <1>3, <1>6

\* Nothing but a writer, and what it writes, changes.
LEMMA WriterStepTypes ==
  ASSUME TypeInv, NEW w \in Writer, NEW label \in {"idle", "fill", "index", "store", "push", "record"},
         NEW held \in WriterType, Moves(w, label, held),
         file' \in [Product -> Versioned], index' \in IndexType,
         UNCHANGED <<readerVars, now>>,
         \/ UNCHANGED events
         \/ events' \in Seq(LineType) /\ Len(events') = Len(events) + 1,
         \/ UNCHANGED loads
         \/ loads' \in Seq(LoadType) /\ Len(loads') = Len(loads) + 1,
         unseen' \subseteq unseen,
         label \in {"fill", "index", "store", "push"} => held.product \in Product,
         label \in {"index", "store", "push"} => w \in Uploader,
         label = "record" =>
           /\ held.load \in 1 .. Len(loads')
           /\ w = Watcher => held.product = None /\ held.streams = {}
           /\ w \in Uploader => held.product \in Product
  PROVE  TypeInv'
<1>1. /\ writer' \in [Writer -> WriterType]
      /\ \A v \in Writer \ {w} : writer'[v] = writer[v]
      /\ writer'[w].pc = label /\ writer'[w].product = held.product
      /\ writer'[w].load = held.load /\ writer'[w].streams = held.streams
  BY Moved DEF TypeInv
<1>2. /\ events' \in Seq(LineType) /\ loads' \in Seq(LoadType)
      /\ Len(events) <= Len(events') /\ Len(loads) <= Len(loads')
      /\ Len(events) \in Nat /\ Len(loads) \in Nat /\ Len(events') \in Nat /\ Len(loads') \in Nat
  BY LenProperties DEF TypeInv
<1>3. PlacePart'
  <2> SUFFICES ASSUME NEW v \in Writer
               PROVE
    /\ writer'[v].pc \in {"fill", "index", "store", "push"} => writer'[v].product \in Product
    /\ writer'[v].pc \in {"index", "store", "push"} => v \in Uploader
    /\ writer'[v].pc = "record" => writer'[v].load \in 1 .. Len(loads')
    /\ v = Watcher /\ writer'[v].pc = "record" =>
         writer'[v].product = None /\ writer'[v].streams = {}
    /\ v \in Uploader /\ writer'[v].pc = "record" => writer'[v].product \in Product
    BY DEF PlacePart
  <2>1. CASE v = w
    BY <1>1, <2>1
  <2>2. CASE v # w
    BY <1>1, <1>2, <2>2 DEF TypeInv, PlacePart
  <2> QED
    BY <2>1, <2>2
<1>4. eventCache' = eventCache /\ eventCache.known \in Nat /\ eventCache.known <= Len(events')
  BY <1>2 DEF TypeInv, readerVars
<1>5. unseen' \subseteq 1 .. Len(loads')
  BY <1>2 DEF TypeInv
<1> QED
  BY <1>1, <1>2, <1>3, <1>4, <1>5 DEF TypeInv, readerVars

LEMMA ReplacedType ==
  ASSUME file \in [Product -> Versioned], NEW p \in Product,
         NEW x \in Width \union {None}, ReplaceFile(p, x)
  PROVE  /\ file' \in [Product -> Versioned]
         /\ file'[p].version = file[p].version + 1 /\ file'[p].width = x
         /\ \A q \in Product \ {p} : file'[q] = file[q]
<1> DEFINE new == [version |-> file[p].version + 1, width |-> x]
<1>1. file' = [file EXCEPT ![p] = new]
  BY DEF ReplaceFile
<1>2. file[p] \in Versioned
  OBVIOUS
<1>3. new \in Versioned
  BY <1>2 DEF Versioned
<1>4. new.version = file[p].version + 1 /\ new.width = x
  OBVIOUS
<1> HIDE DEF new
<1> QED
  BY <1>1, <1>3, <1>4

LEMMA UploadTypes ==
  ASSUME TypeInv, NEW w \in Uploader, Upload(w)
  PROVE  TypeInv'
<1>0. w \in Writer /\ w # Watcher /\ writer[w] \in WriterType
  BY ConstantTypes DEF Writer, TypeInv
<1>1. CASE StartUpload(w)
  <2>1. PICK p \in Product, x \in Width \union {None} :
          /\ IF Exists(p) THEN UNCHANGED file ELSE ReplaceFile(p, x)
          /\ Moves(w, IF LacksWidth(p) /\ x # None THEN "fill" ELSE "index",
                   [Idle EXCEPT !.product = p, !.width = x, !.streams = Stream])
    BY <1>1, ConstantTypes DEF StartUpload
  <2> DEFINE held == [Idle EXCEPT !.product = p, !.width = x, !.streams = Stream]
             label == IF LacksWidth(p) /\ x # None THEN "fill" ELSE "index"
  <2>2. held \in WriterType /\ held.product = p
    BY <2>1, IdleType DEF WriterType
  <2>3. label \in {"fill", "index"}
    OBVIOUS
  <2>4. file' \in [Product -> Versioned]
    BY <2>1, ReplacedType DEF TypeInv
  <2>5. UNCHANGED <<index, events, loads, unseen, readerVars, now>>
    BY <1>1 DEF StartUpload
  <2>6. Moves(w, label, held)
    BY <2>1
  <2>7. index' \in IndexType
    BY <2>5 DEF TypeInv
  <2> HIDE DEF held, label
  <2> QED
    BY <1>0, <2>2, <2>3, <2>4, <2>5, <2>6, <2>7, WriterStepTypes
<1>2. CASE LoadIndex(w)
  <2> DEFINE held == [writer[w] EXCEPT !.index = index]
  <2>1. held \in WriterType /\ held.product = writer[w].product
    BY <1>0 DEF WriterType, TypeInv
  <2>2. Moves(w, "store", held) /\ UNCHANGED <<file, index, events, loads, unseen, readerVars, now>>
    BY <1>2 DEF LoadIndex
  <2>3. writer[w].product \in Product
    BY <1>0, <1>2 DEF LoadIndex, TypeInv, PlacePart
  <2>4. index' \in IndexType /\ file' \in [Product -> Versioned]
    BY <2>2 DEF TypeInv
  <2> HIDE DEF held
  <2> QED
    BY <1>0, <2>1, <2>2, <2>3, <2>4, WriterStepTypes
<1>3. CASE StoreIndex(w)
  <2> DEFINE held == [writer[w] EXCEPT !.index = Idle.index]
  <2>1. held \in WriterType /\ held.product = writer[w].product
    BY <1>0, IdleType DEF WriterType
  <2>2. /\ Moves(w, "push", held) /\ UNCHANGED <<file, events, loads, unseen, readerVars, now>>
        /\ index' = Indexed(writer[w].index, writer[w].product)
    BY <1>3 DEF StoreIndex
  <2>3. writer[w].product \in Product
    BY <1>0, <1>3 DEF StoreIndex, TypeInv, PlacePart
  <2>4. writer[w].index \in IndexType
    BY <1>0 DEF WriterType
  <2>5. index' \in IndexType /\ file' \in [Product -> Versioned]
    BY <2>2, <2>3, <2>4 DEF TypeInv, Indexed, IndexType
  <2> HIDE DEF held
  <2> QED
    BY <1>0, <2>1, <2>2, <2>3, <2>5, WriterStepTypes
<1>4. CASE Push(w)
  <2>1. PICK s \in writer[w].streams :
          /\ Loads(s, PayloadOf[writer[w].product][s])
          /\ Moves(w, "record", [writer[w] EXCEPT !.streams = @ \ {s}, !.load = Len(loads) + 1])
    BY <1>4 DEF Push
  <2> DEFINE held == [writer[w] EXCEPT !.streams = @ \ {s}, !.load = Len(loads) + 1]
  <2>2. writer[w].product \in Product /\ s \in Stream /\ now \in Nat
    BY <1>0, <1>4 DEF Push, TypeInv, PlacePart, WriterType
  <2>3. loads' \in Seq(LoadType) /\ Len(loads') = Len(loads) + 1
    BY <2>1, <2>2, LoadAdds, ConstantTypes DEF TypeInv
  <2>4. Len(loads) \in Nat
    BY LenProperties DEF TypeInv
  <2>5. /\ held \in WriterType /\ held.product = writer[w].product
        /\ held.load = Len(loads) + 1
    <3>1. PICK r \in WriterType : writer[w] = r
      BY <1>0
    <3>2. r.streams \ {s} \in SUBSET Stream /\ Len(loads) + 1 \in Nat
      BY <2>4, <3>1 DEF WriterType
    <3>3. held = [r EXCEPT !.streams = r.streams \ {s}, !.load = Len(loads) + 1]
      BY <3>1
    <3> QED
      BY <3>1, <3>2, <3>3 DEF WriterType
  <2>6. UNCHANGED <<file, index, events, unseen, readerVars, now>>
    BY <1>4 DEF Push
  <2>7. index' \in IndexType /\ file' \in [Product -> Versioned]
    BY <2>6 DEF TypeInv
  <2>8. held.load \in 1 .. Len(loads')
    BY <2>3, <2>4, <2>5
  <2>9. Moves(w, "record", held)
    BY <2>1
  <2> HIDE DEF held
  <2> QED
    BY <1>0, <2>2, <2>3, <2>5, <2>6, <2>7, <2>8, <2>9, WriterStepTypes
<1> QED
  BY <1>1, <1>2, <1>3, <1>4 DEF Upload

LEMMA OtherWriterTypes ==
  ASSUME TypeInv, NEW w \in Writer, Fill(w) \/ RecordEvent(w) \/ WriterDies(w)
  PROVE  TypeInv'
<1>0. writer[w] \in WriterType /\ (w \in Uploader \/ w = Watcher) /\ Watcher \notin Uploader
  BY ConstantTypes DEF Writer, TypeInv
<1>1. CASE Fill(w)
  <2>1. writer[w].product \in Product /\ writer[w].width \in Width \union {None}
    BY <1>0, <1>1 DEF Fill, TypeInv, PlacePart, WriterType
  <2>2. /\ ReplaceFile(writer[w].product, writer[w].width)
        /\ IF w = Watcher THEN Moves(w, "idle", Idle) ELSE Moves(w, "index", writer[w])
        /\ UNCHANGED <<index, events, loads, unseen, readerVars, now>>
    BY <1>1 DEF Fill
  <2>3. file' \in [Product -> Versioned] /\ index' \in IndexType
    BY <2>1, <2>2, ReplacedType DEF TypeInv
  <2> QED
    BY <1>0, <2>1, <2>2, <2>3, IdleType, WriterStepTypes
<1>2. CASE RecordEvent(w)
  <2>1. /\ events' \in Seq(LineType) /\ Len(events') = Len(events) + 1
    BY <1>2, LineAdds
  <2> DEFINE held == [writer[w] EXCEPT !.load = None]
  <2>2. held \in WriterType /\ held.product = writer[w].product
    BY <1>0 DEF WriterType
  <2>3. /\ IF writer[w].streams = {} THEN Moves(w, "idle", Idle) ELSE Moves(w, "push", held)
        /\ UNCHANGED <<file, index, loads, unseen, readerVars, now>>
    BY <1>2 DEF RecordEvent
  <2>4. file' \in [Product -> Versioned] /\ index' \in IndexType
    BY <2>3 DEF TypeInv
  <2>5. /\ w = Watcher => writer[w].streams = {}
        /\ w \in Uploader => writer[w].product \in Product
    BY <1>2 DEF RecordEvent, TypeInv, PlacePart
  <2> HIDE DEF held
  <2>6. CASE writer[w].streams = {}
    BY <2>1, <2>3, <2>4, <2>6, IdleType, WriterStepTypes
  <2>7. CASE writer[w].streams # {}
    BY <1>0, <2>1, <2>2, <2>3, <2>4, <2>5, <2>7, WriterStepTypes
  <2> QED
    BY <2>6, <2>7
<1>3. CASE WriterDies(w)
  <2>1. Moves(w, "idle", Idle) /\ UNCHANGED <<file, index, events, loads, unseen, readerVars, now>>
    BY <1>3 DEF WriterDies
  <2>2. file' \in [Product -> Versioned] /\ index' \in IndexType
    BY <2>1 DEF TypeInv
  <2> QED
    BY <2>1, <2>2, IdleType, WriterStepTypes
<1> QED
  BY <1>1, <1>2, <1>3

LEMMA WatcherTypes ==
  ASSUME TypeInv, Notice \/ \E p \in Product : Backfill(p)
  PROVE  TypeInv'
<1>0. Watcher \in Writer /\ Watcher \notin Uploader
  BY ConstantTypes DEF Writer
<1>1. ASSUME NEW p \in Product, Backfill(p)
      PROVE  TypeInv'
  <2>1. PICK x \in Width : Moves(Watcher, "fill", [Idle EXCEPT !.product = p, !.width = x])
    BY <1>1 DEF Backfill
  <2> DEFINE held == [Idle EXCEPT !.product = p, !.width = x]
  <2>2. held \in WriterType /\ held.product = p
    BY <2>1, IdleType DEF WriterType
  <2>3. UNCHANGED <<file, index, events, loads, unseen, readerVars, now>>
    BY <1>1 DEF Backfill
  <2>4. file' \in [Product -> Versioned] /\ index' \in IndexType /\ Moves(Watcher, "fill", held)
    BY <2>1, <2>3 DEF TypeInv
  <2> HIDE DEF held
  <2> QED
    BY <1>0, <2>2, <2>3, <2>4, WriterStepTypes
<1>2. ASSUME Notice
      PROVE  TypeInv'
  <2>1. PICK i \in unseen : /\ Moves(Watcher, "record", [Idle EXCEPT !.load = i])
                            /\ unseen' = unseen \ {i}
    BY <1>2 DEF Notice
  <2> DEFINE held == [Idle EXCEPT !.load = i]
  <2>2. i \in 1 .. Len(loads) /\ i \in Nat
    BY LenProperties DEF TypeInv
  <2>3. held \in WriterType /\ held.load = i /\ held.product = None /\ held.streams = {}
    BY <2>2, IdleType DEF WriterType, Idle
  <2>4. UNCHANGED <<file, index, events, loads, readerVars, now>>
    BY <1>2 DEF Notice
  <2>5. file' \in [Product -> Versioned] /\ index' \in IndexType /\ Moves(Watcher, "record", held)
    BY <2>1, <2>4 DEF TypeInv
  <2>6. loads' = loads
    BY <2>4
  <2> HIDE DEF held
  <2> QED
    BY <1>0, <2>1, <2>2, <2>3, <2>4, <2>5, <2>6, WriterStepTypes
<1> QED
  BY <1>1, <1>2

-----------------------------------------------------------------------------
(***************************************************************************)
(* The lines that hold                                                     *)
(***************************************************************************)

\* Line i holds for its stream among those of the set.
Holds(i, lines) ==
  \A j \in lines : \/ events[j].utc < events[i].utc
                   \/ events[j].utc = events[i].utc /\ j <= i

\* There always is one, which makes LiveLine's choice mean something.
LinesInv ==
  \A s \in Stream, u \in Nat, n \in 0 .. Len(events) :
    UpTo(s, u, n) # {} => \E i \in UpTo(s, u, n) : Holds(i, UpTo(s, u, n))

LEMMA LineTypes ==
  ASSUME TypeInv, NEW i \in 1 .. Len(events)
  PROVE  /\ events[i] \in LineType
         /\ events[i].stream \in Stream /\ events[i].utc \in Nat /\ events[i].tick \in Nat
         /\ events[i].product \in Product \union {None}
<1>1. events[i] \in LineType
  BY ElementOfSeq DEF TypeInv
<1> QED
  BY <1>1 DEF LineType

LEMMA LinesStep ==
  ASSUME TypeInv, LinesInv, NEW w \in Writer, RecordEvent(w)
  PROVE  LinesInv'
<1>0. Len(events) \in Nat
  BY LenProperties DEF TypeInv
<1>1. /\ events' \in Seq(LineType) /\ Len(events') = Len(events) + 1
      /\ \A i \in 1 .. Len(events) : events'[i] = events[i]
  BY LineAdds
<1>2. \A i \in 1 .. Len(events') : events'[i].utc \in Nat
  <2> SUFFICES ASSUME NEW i \in 1 .. Len(events')
               PROVE  events'[i].utc \in Nat
    OBVIOUS
  <2>1. events'[i] \in LineType
    BY <1>1, ElementOfSeq
  <2> QED
    BY <2>1 DEF LineType
<1> DEFINE HoldsNow(i, lines) ==
      \A j \in lines : \/ events'[j].utc < events'[i].utc
                       \/ events'[j].utc = events'[i].utc /\ j <= i
           UpToNow(s, u, n) == {i \in 1 .. n : events'[i].stream = s /\ events'[i].utc <= u}
<1> SUFFICES ASSUME NEW s \in Stream, NEW u \in Nat, NEW n \in 0 .. Len(events'),
                    UpToNow(s, u, n) # {}
             PROVE  \E i \in UpToNow(s, u, n) : HoldsNow(i, UpToNow(s, u, n))
  BY DEF LinesInv, UpTo, Holds
<1>3. ASSUME NEW m \in 0 .. Len(events)
      PROVE  /\ UpToNow(s, u, m) \subseteq 1 .. Len(events)
             /\ UpToNow(s, u, m) # {} =>
                  \E i \in UpToNow(s, u, m) : HoldsNow(i, UpToNow(s, u, m))
  <2>1. UpToNow(s, u, m) = UpTo(s, u, m) /\ UpTo(s, u, m) \subseteq 1 .. Len(events)
    BY <1>0, <1>1 DEF UpTo
  <2>2. ASSUME UpTo(s, u, m) # {}
        PROVE  \E i \in UpTo(s, u, m) : HoldsNow(i, UpTo(s, u, m))
    <3>1. PICK i \in UpTo(s, u, m) : Holds(i, UpTo(s, u, m))
      BY <2>2 DEF LinesInv
    <3>2. HoldsNow(i, UpTo(s, u, m))
      BY <1>1, <2>1, <3>1 DEF Holds
    <3> QED
      BY <3>2
  <2> QED
    BY <2>1, <2>2
<1>4. CASE n <= Len(events)
  <2>1. n \in 0 .. Len(events)
    BY <1>0, <1>1, <1>4
  <2> HIDE DEF UpToNow, HoldsNow
  <2> QED
    BY <1>3, <2>1
<1>5. CASE n = Len(events) + 1
  <2> DEFINE old == UpToNow(s, u, Len(events))
             last == Len(events) + 1
  <2>1. UpToNow(s, u, n) = IF events'[last].stream = s /\ events'[last].utc <= u
                           THEN old \union {last} ELSE old
    <3>1. 1 .. n = (1 .. Len(events)) \union {last}
      BY <1>0, <1>5
    <3>2. UpToNow(s, u, n) =
            {i \in (1 .. Len(events)) \union {last} : events'[i].stream = s /\ events'[i].utc <= u}
      BY <3>1
    <3>3. CASE events'[last].stream = s /\ events'[last].utc <= u
      <4> HIDE DEF last
      <4>1. UpToNow(s, u, n) \subseteq old \union {last}
        BY <3>2
      <4>2. old \union {last} \subseteq UpToNow(s, u, n)
        BY <3>2, <3>3
      <4>3. UpToNow(s, u, n) = old \union {last}
        BY <4>1, <4>2, Zenon
      <4> HIDE DEF old, UpToNow
      <4> QED
        BY <3>3, <4>3
    <3>4. CASE ~ (events'[last].stream = s /\ events'[last].utc <= u)
      <4> HIDE DEF last
      <4>1. UpToNow(s, u, n) = old
        BY <3>2, <3>4
      <4> HIDE DEF old, UpToNow
      <4> QED
        BY <3>4, <4>1
    <3> QED
      BY <3>3, <3>4
  <2>2. old \subseteq 1 .. Len(events) /\ (old # {} => \E i \in old : HoldsNow(i, old))
    <3>1. Len(events) \in 0 .. Len(events)
      BY <1>0
    <3> HIDE DEF UpToNow, HoldsNow
    <3> QED
      BY <1>3, <3>1
  <2>3. CASE UpToNow(s, u, n) = old
    BY <2>2, <2>3
  <2>4. CASE UpToNow(s, u, n) = old \union {last}
    <3>1. CASE old = {}
      <4>1. HoldsNow(last, {last})
        BY <1>0
      <4> QED
        BY <2>4, <3>1, <4>1
    <3>2. CASE old # {}
      <4>1. PICK i \in old : HoldsNow(i, old)
        BY <2>2, <3>2
      <4>2. /\ i \in 1 .. Len(events) /\ i <= last /\ last \in 1 .. Len(events')
            /\ events'[i].utc \in Nat /\ events'[last].utc \in Nat
            /\ \A j \in old : j \in 1 .. Len(events) /\ j <= last /\ events'[j].utc \in Nat
        BY <1>0, <1>1, <1>2, <2>2
      <4> HIDE DEF old, last
      <4>3. CASE events'[i].utc <= events'[last].utc
        <5>1. HoldsNow(last, old \union {last})
          <6> SUFFICES ASSUME NEW j \in old \union {last}
                       PROVE  \/ events'[j].utc < events'[last].utc
                              \/ events'[j].utc = events'[last].utc /\ j <= last
            OBVIOUS
          <6>1. CASE j = last
            BY <4>2, <6>1
          <6>2. CASE j \in old
            <7>1. events'[j].utc <= events'[i].utc /\ j <= last /\ events'[j].utc \in Nat
              BY <4>1, <4>2, <6>2
            <7> QED
              BY <4>2, <4>3, <7>1
          <6> QED
            BY <6>1, <6>2
        <5> QED
          BY <2>4, <5>1
      <4>4. CASE events'[last].utc < events'[i].utc
        <5>1. HoldsNow(i, old \union {last})
          BY <4>1, <4>2, <4>4
        <5>2. i \in old \union {last}
          BY <4>1
        <5> HIDE DEF HoldsNow, UpToNow
        <5> QED
          BY <2>4, <5>1, <5>2
      <4>5. events'[i].utc <= events'[last].utc \/ events'[last].utc < events'[i].utc
        BY <4>2
      <4> HIDE DEF HoldsNow, UpToNow
      <4> QED
        BY <4>3, <4>4, <4>5
    <3> QED
      BY <3>1, <3>2
  <2> QED
    BY <2>1, <2>3, <2>4
<1> QED
  BY <1>0, <1>1, <1>4, <1>5

LEMMA LiveLineHolds ==
  ASSUME TypeInv, LinesInv, NEW s \in Stream, NEW u \in Nat, NEW n \in 0 .. Len(events),
         UpTo(s, u, n) # {}
  PROVE  /\ LiveLine(s, u, n) \in UpTo(s, u, n) /\ LiveLine(s, u, n) \in 1 .. Len(events)
         /\ Holds(LiveLine(s, u, n), UpTo(s, u, n))
<1>1. \E i \in UpTo(s, u, n) : Holds(i, UpTo(s, u, n))
  BY DEF LinesInv
<1>2. LiveLine(s, u, n) \in UpTo(s, u, n) /\ Holds(LiveLine(s, u, n), UpTo(s, u, n))
  BY <1>1 DEF LiveLine, Holds
<1>3. Len(events) \in Nat
  BY LenProperties DEF TypeInv
<1> QED
  BY <1>2, <1>3 DEF UpTo

\* What the status "ok" says of the first n lines.
LEMMA OkSays ==
  ASSUME TypeInv, LinesInv, NEW u \in Nat, NEW n \in 0 .. Len(events),
         StatusOf(u, n) = "ok", NEW p \in ProductsAt(u, n)
  PROVE  /\ p \in Product
         /\ \A s \in Stream : UpTo(s, u, n) # {} /\ events[LiveLine(s, u, n)].product = p
<1>1. /\ Reporting(u, n) = Stream /\ None \notin ProductsAt(u, n)
      /\ Cardinality(ProductsAt(u, n)) = 1
  BY DEF StatusOf
<1>2. IsFiniteSet(ProductsAt(u, n))
  <2> DEFINE P == ProductsAt(u, n)
             f == [s \in Stream |-> events[LiveLine(s, u, n)].product]
  <2>1. f \in Surjection(Stream, P)
    BY <1>1 DEF Surjection, ProductsAt
  <2>2. IsFiniteSet(Stream)
    BY RegistryAssumption
  <2> HIDE DEF f, P
  <2>3. IsFiniteSet(P)
    BY <2>1, <2>2, FS_Surjection
  <2> QED
    BY <2>3 DEF P
<1>3. \A q \in ProductsAt(u, n) : q = p
  BY <1>1, <1>2, FS_Singleton
<1>4. ASSUME NEW s \in Stream
      PROVE  /\ UpTo(s, u, n) # {} /\ LiveLine(s, u, n) \in 1 .. Len(events)
             /\ events[LiveLine(s, u, n)].product = p
  <2>1. UpTo(s, u, n) # {}
    BY <1>1 DEF Reporting
  <2>2. LiveLine(s, u, n) \in 1 .. Len(events)
    BY <2>1, LiveLineHolds
  <2>3. events[LiveLine(s, u, n)].product \in ProductsAt(u, n)
    BY <1>1 DEF ProductsAt
  <2> QED
    BY <1>3, <2>1, <2>2, <2>3
<1>5. p \in Product
  <2>1. PICK s \in Stream : TRUE
    BY ConstantTypes
  <2> QED
    BY <1>1, <1>4, <2>1, LineTypes
<1> QED
  BY <1>4, <1>5

\* The reader's next place, after it has lines to conclude from.
LEMMA Concluded ==
  ASSUME TypeInv, LinesInv, NEW u \in Nat, NEW n \in 0 .. Len(events), Concludes(u, n)
  PROVE  /\ reader' \in ReaderType
         /\ reader'.pc \in {"idle", "product"} /\ reader'.utc \in {0, u}
         /\ reader'.pc = "product" =>
              /\ reader'.utc = u /\ reader'.product \in Product
              /\ \A s \in Stream : /\ UpTo(s, u, n) # {}
                                   /\ events[LiveLine(s, u, n)].product = reader'.product
<1>1. AtRest \in ReaderType /\ AtRest.pc = "idle" /\ AtRest.utc = 0
  BY DEF AtRest, ReaderType
<1>2. CASE StatusOf(u, n) = "ok"
  <2>1. PICK p \in ProductsAt(u, n) :
          reader' = [AtRest EXCEPT !.pc = "product", !.utc = u, !.product = p]
    BY <1>2 DEF Concludes
  <2>2. /\ p \in Product
        /\ \A s \in Stream : UpTo(s, u, n) # {} /\ events[LiveLine(s, u, n)].product = p
    BY <1>2, OkSays
  <2>3. /\ reader' \in ReaderType /\ reader'.pc = "product" /\ reader'.utc = u
        /\ reader'.product = p
    BY <2>1, <2>2 DEF AtRest, ReaderType
  <2> QED
    BY <2>2, <2>3
<1>3. CASE StatusOf(u, n) # "ok"
  BY <1>1, <1>3 DEF Concludes
<1> QED
  BY <1>2, <1>3

LEMMA LookupTypes ==
  ASSUME TypeInv, LinesInv, PastPart, Lookup
  PROVE  TypeInv' /\ PastPart'
<1>0. /\ Len(events) \in Nat /\ now \in Nat
      /\ eventCache.known \in 0 .. Len(events)
      /\ eventCache \in [tick : Nat \union {-1}, known : Nat]
  BY LenProperties DEF TypeInv
<1>1. CASE BeginLookup
  <2>1. PICK u \in 0 .. now :
          IF eventCache.tick = ModifiedAt THEN Concludes(u, eventCache.known)
          ELSE reader' = [AtRest EXCEPT !.pc = "read", !.utc = u, !.stat = ModifiedAt]
    BY <1>1 DEF BeginLookup
  <2>2. u \in Nat /\ u <= now
    BY <1>0
  <2>3. ModifiedAt \in Nat
    <3>1. events # <<>>
      BY <1>1 DEF BeginLookup
    <3>2. Len(events) \in 1 .. Len(events)
      BY <1>0, <3>1, EmptySeq DEF TypeInv
    <3> QED
      BY <3>2, LineTypes DEF ModifiedAt
  <2>4. /\ reader' \in ReaderType /\ reader'.utc <= now
        /\ reader'.pc = "product" => reader'.product \in Product
    <3>1. CASE Concludes(u, eventCache.known)
      <4>1. eventCache.known \in 0 .. Len(events)
        BY <1>0
      <4>2. /\ reader' \in ReaderType /\ reader'.utc \in {0, u}
            /\ reader'.pc = "product" => reader'.product \in Product
        BY <2>2, <3>1, <4>1, Concluded
      <4>3. 0 <= now
        BY <1>0
      <4> QED
        BY <2>2, <4>2, <4>3
    <3>2. CASE reader' = [AtRest EXCEPT !.pc = "read", !.utc = u, !.stat = ModifiedAt]
      BY <2>2, <2>3, <3>2 DEF AtRest, ReaderType
    <3> QED
      BY <2>1, <3>1, <3>2
  <2>5. UNCHANGED <<file, index, events, loads, unseen, writer, eventCache, productCache,
                    width, now>>
    BY <1>1 DEF BeginLookup
  <2> QED
    BY <2>4, <2>5 DEF TypeInv, PlacePart, PastPart
<1>2. CASE ReadEvents
  <2>1. /\ eventCache' = [tick |-> reader.stat, known |-> Len(events)]
        /\ Concludes(reader.utc, Len(events))
        /\ UNCHANGED <<file, index, events, loads, unseen, writer, productCache, width, now>>
    BY <1>2 DEF ReadEvents, CachedEvents
  <2>2. reader \in ReaderType /\ reader.utc \in Nat /\ reader.stat \in Nat /\ reader.utc <= now
    BY DEF TypeInv, ReaderType, PastPart
  <2>3. /\ reader' \in ReaderType /\ reader'.utc <= now
        /\ reader'.pc = "product" => reader'.product \in Product
    BY <1>0, <2>1, <2>2, Concluded
  <2>4. eventCache' \in [tick : Nat \union {-1}, known : Nat] /\ eventCache'.known <= Len(events)
    BY <1>0, <2>1, <2>2
  <2> QED
    BY <2>1, <2>3, <2>4 DEF TypeInv, PlacePart, PastPart
<1>3. CASE ReadProduct
  <2> DEFINE p == reader.product
             rec == ProductRead(p)
  <2>1. /\ reader.pc = "product" /\ reader' = AtRest
        /\ productCache' = [productCache EXCEPT ![p] = rec]
        /\ width' = [width EXCEPT ![p] = rec.width]
        /\ UNCHANGED <<file, index, events, loads, unseen, writer, eventCache, now>>
    BY <1>3 DEF ReadProduct
  <2>2. p \in Product /\ rec \in Versioned
    BY <2>1 DEF TypeInv, ProductRead
  <2>3. rec.width \in Width \union {None}
    BY <2>2 DEF Versioned
  <2> HIDE DEF rec
  <2>4. /\ productCache' \in [Product -> Versioned]
        /\ width' \in [Product -> Width \union {None}]
    BY <2>1, <2>2, <2>3 DEF TypeInv
  <2>5. /\ reader' \in ReaderType /\ reader'.utc <= now /\ reader'.pc = "idle"
    BY <1>0, <2>1 DEF AtRest, ReaderType
  <2> QED
    BY <2>1, <2>4, <2>5 DEF TypeInv, PlacePart, PastPart
<1> QED
  BY <1>1, <1>2, <1>3 DEF Lookup

\* What a step adds to the two logs.
LEMMA LogsStep ==
  ASSUME TypeInv, [Next]_vars
  PROVE  /\ \/ UNCHANGED events
            \/ \E w \in Writer : RecordEvent(w) /\ UNCHANGED <<loads, readerVars, now, index, file>>
         /\ \/ UNCHANGED loads
            \/ \E s \in Stream, d \in Payload :
                 /\ Loads(s, d) /\ UNCHANGED <<events, readerVars, now, index, file>>
                 /\ \/ d = Default[s]
                    \/ \E p \in Product : d = PayloadOf[p][s]
         /\ now' \in {now, now + 1}
         /\ Lookup \/ UNCHANGED readerVars
<1>1. ASSUME NEW w \in Uploader, Push(w)
      PROVE  \E s \in Stream, d \in Payload :
               /\ Loads(s, d) /\ UNCHANGED <<events, readerVars, now, index, file>>
               /\ \E p \in Product : d = PayloadOf[p][s]
  <2>1. PICK s \in writer[w].streams : Loads(s, PayloadOf[writer[w].product][s])
    BY <1>1 DEF Push
  <2>2. writer[w].product \in Product /\ s \in Stream
    <3>1. w \in Writer /\ writer[w] \in WriterType
      BY DEF TypeInv, Writer
    <3>2. writer[w].streams \subseteq Stream
      BY <3>1 DEF WriterType
    <3> QED
      BY <1>1, <3>1, <3>2 DEF Push, TypeInv, PlacePart
  <2> QED
    BY <1>1, <2>1, <2>2, ConstantTypes DEF Push
<1>2. ASSUME NEW s \in Stream, Reload(s)
      PROVE  /\ Loads(s, Default[s]) /\ Default[s] \in Payload
             /\ UNCHANGED <<events, readerVars, now, index, file>>
  BY <1>2, ConstantTypes DEF Reload
<1>3. ASSUME NEW w \in Uploader, StartUpload(w) \/ LoadIndex(w) \/ StoreIndex(w)
      PROVE  UNCHANGED <<events, loads, readerVars, now>>
  BY <1>3 DEF StartUpload, LoadIndex, StoreIndex
<1>4. ASSUME NEW w \in Writer, RecordEvent(w)
      PROVE  UNCHANGED <<loads, readerVars, now, index, file>>
  BY <1>4 DEF RecordEvent
<1>5. ASSUME NEW w \in Writer, Fill(w) \/ WriterDies(w)
      PROVE  UNCHANGED <<events, loads, readerVars, now>>
  BY <1>5 DEF Fill, WriterDies
<1>6. ASSUME Notice \/ \E p \in Product : Backfill(p)
      PROVE  UNCHANGED <<events, loads, readerVars, now>>
  BY <1>6 DEF Notice, Backfill
<1>7. ASSUME Lookup
      PROVE  UNCHANGED <<events, loads, now>>
  BY <1>7 DEF Lookup, BeginLookup, ReadEvents, ReadProduct
<1>8. ASSUME Tick
      PROVE  UNCHANGED <<events, loads, readerVars>> /\ now' = now + 1
  BY <1>8 DEF Tick
<1>9. ASSUME UNCHANGED vars
      PROVE  UNCHANGED <<events, loads, readerVars, now>>
  BY <1>9 DEF vars, readerVars
<1>10. CASE \E w \in Uploader : Upload(w)
  BY <1>1, <1>3, <1>10 DEF Upload
<1>11. CASE \E w \in Writer : Fill(w) \/ RecordEvent(w) \/ WriterDies(w)
  BY <1>4, <1>5, <1>11
<1>12. CASE \E s \in Stream : Reload(s)
  BY <1>2, <1>12
<1> QED
  BY <1>6, <1>7, <1>8, <1>9, <1>10, <1>11, <1>12 DEF Next

LEMMA TypeStep ==
  ASSUME TypeInv, PastPart, LinesInv, [Next]_vars
  PROVE  TypeInv' /\ PastPart' /\ LinesInv'
<1>1. TypeInv'
  <2>1. ASSUME NEW s \in Stream, Reload(s)
        PROVE  TypeInv'
    <3>1. /\ loads' \in Seq(LoadType) /\ Len(loads') = Len(loads) + 1
          /\ Len(loads) \in Nat
      BY <2>1, LoadAdds, LenProperties, ConstantTypes DEF Reload, TypeInv
    <3>2. /\ unseen' = unseen \union {Len(loads) + 1}
          /\ UNCHANGED <<file, index, events, writer, readerVars, now>>
      BY <2>1 DEF Reload
    <3>3. unseen' \subseteq 1 .. Len(loads')
      <4>1. unseen \subseteq 1 .. Len(loads)
        BY DEF TypeInv
      <4>2. 1 .. Len(loads) \subseteq 1 .. Len(loads') /\ Len(loads) + 1 \in 1 .. Len(loads')
        BY <3>1
      <4> QED
        BY <3>2, <4>1, <4>2
    <3>4. PlacePart'
      BY <3>1, <3>2 DEF TypeInv, PlacePart
    <3> QED
      BY <3>1, <3>2, <3>3, <3>4 DEF TypeInv, readerVars
  <2>2. CASE Tick
    BY <2>2 DEF Tick, TypeInv, PlacePart, readerVars
  <2>3. CASE UNCHANGED vars
    BY <2>3 DEF vars, TypeInv, PlacePart
  <2> QED
    BY <2>1, <2>2, <2>3, UploadTypes, OtherWriterTypes, WatcherTypes, LookupTypes DEF Next
<1>2. PastPart'
  <2>1. CASE Lookup
    BY <2>1, LookupTypes
  <2>2. CASE UNCHANGED readerVars
    <3>1. /\ Len(events) \in Nat /\ Len(loads) \in Nat /\ now \in Nat
          /\ now' \in {now, now + 1} /\ now <= now' /\ reader' = reader
      BY <2>2, LogsStep, LenProperties DEF TypeInv, readerVars
    <3>2. reader'.utc <= now'
      BY <3>1 DEF PastPart, TypeInv, ReaderType
    <3>3. \A i \in 1 .. Len(events') : events'[i].utc <= now' /\ events'[i].tick <= now'
      <4>1. CASE UNCHANGED events
        BY <3>1, <4>1, LineTypes DEF PastPart
      <4>2. ASSUME NEW w \in Writer, RecordEvent(w)
            PROVE  \A i \in 1 .. Len(events') : events'[i].utc <= now' /\ events'[i].tick <= now'
        <5> DEFINE l == loads[writer[w].load]
        <5>1. /\ writer[w].load \in 1 .. Len(loads) /\ l \in LoadType
              /\ Len(events') = Len(events) + 1
              /\ \A i \in 1 .. Len(events) : events'[i] = events[i]
              /\ events'[Len(events) + 1].utc = l.at
              /\ events'[Len(events) + 1].tick = now
          BY <4>2, LineAdds
        <5>2. l.at <= now /\ l.at \in Nat
          BY <5>1 DEF PastPart, LoadType
        <5>3. \A i \in 1 .. Len(events) : events'[i].utc <= now' /\ events'[i].tick <= now'
          BY <3>1, <5>1, LineTypes DEF PastPart
        <5> HIDE DEF l
        <5>4. \A i \in 1 .. Len(events') : i \in 1 .. Len(events) \/ i = Len(events) + 1
          BY <3>1, <5>1
        <5> QED
          BY <3>1, <5>1, <5>2, <5>3, <5>4
      <4> QED
        BY <4>1, <4>2, LogsStep
    <3>4. \A i \in 1 .. Len(loads') : loads'[i].at <= now'
      <4>0. \A i \in 1 .. Len(loads) : loads[i].at \in Nat
        <5>1. \A i \in 1 .. Len(loads) : loads[i] \in LoadType
          BY ElementOfSeq DEF TypeInv
        <5> QED
          BY <5>1 DEF LoadType
      <4>1. CASE UNCHANGED loads
        BY <3>1, <4>0, <4>1 DEF PastPart
      <4>2. ASSUME NEW s \in Stream, NEW d \in Payload, Loads(s, d)
            PROVE  \A i \in 1 .. Len(loads') : loads'[i].at <= now'
        <5>1. /\ Len(loads') = Len(loads) + 1
              /\ \A i \in 1 .. Len(loads) : loads'[i] = loads[i]
              /\ loads'[Len(loads) + 1].at = now
          <6>1. /\ Len(loads') = Len(loads) + 1
                /\ \A i \in 1 .. Len(loads) : loads'[i] = loads[i]
                /\ loads'[Len(loads) + 1] = [stream |-> s, at |-> now, payload |-> d]
            <7>1. loads \in Seq(LoadType) /\ now \in Nat
              BY DEF TypeInv
            <7> QED
              BY <4>2, <7>1, LoadAdds
          <6> QED
            BY <6>1
        <5>2. \A i \in 1 .. Len(loads') : i \in 1 .. Len(loads) \/ i = Len(loads) + 1
          BY <3>1, <5>1
        <5> QED
          BY <3>1, <4>0, <5>1, <5>2 DEF PastPart
      <4> QED
        BY <4>1, <4>2, LogsStep
    <3> QED
      BY <3>2, <3>3, <3>4 DEF PastPart
  <2> QED
    BY <2>1, <2>2, LogsStep
<1>3. LinesInv'
  <2>1. CASE UNCHANGED events
    <3>1. ASSUME NEW s \in Stream, NEW u \in Nat, NEW n \in 0 .. Len(events)
          PROVE  /\ (UpTo(s, u, n))' = UpTo(s, u, n)
                 /\ \A i : (Holds(i, UpTo(s, u, n)))' <=> Holds(i, UpTo(s, u, n))
      BY <2>1 DEF UpTo, Holds
    <3> QED
      BY <2>1, <3>1 DEF LinesInv
  <2>2. CASE \E w \in Writer : RecordEvent(w)
    BY <2>2, LinesStep
  <2> QED
    BY <2>1, <2>2, LogsStep
<1> QED
  BY <1>1, <1>2, <1>3

LEMMA TypeInit ==
  ASSUME Init
  PROVE  TypeInv /\ PastPart /\ LinesInv
<1>1. /\ events = <<>> /\ loads = <<>> /\ Len(events) = 0 /\ Len(loads) = 0
      /\ events \in Seq(LineType) /\ loads \in Seq(LoadType)
  BY EmptySeq DEF Init
<1>2. PlacePart
  BY DEF Init, PlacePart, Idle
<1>3. writer \in [Writer -> WriterType]
  BY IdleType DEF Init
<1>4. AtRest \in ReaderType /\ AtRest.pc = "idle" /\ AtRest.utc = 0
  BY DEF AtRest, ReaderType
<1>5. TypeInv
  BY <1>1, <1>2, <1>3, <1>4 DEF Init, TypeInv, Versioned, IndexType
<1>6. PastPart
  BY <1>1, <1>4 DEF Init, PastPart
<1>7. LinesInv
  BY <1>1 DEF LinesInv, UpTo
<1> QED
  BY <1>5, <1>6, <1>7

LEMMA TypesAlways == Spec => [](TypeInv /\ PastPart /\ LinesInv)
<1> DEFINE Inv == TypeInv /\ PastPart /\ LinesInv
<1>1. Init => Inv
  BY TypeInit
<1>2. Inv /\ [Next]_vars => Inv'
  BY TypeStep
<1> QED
  BY <1>1, <1>2, PTL DEF Spec

LEMMA TypesGiven ==
  ASSUME TypeInv, PastPart
  PROVE  TypeOK
<1>1. /\ Len(events) \in Nat /\ Len(loads) \in Nat /\ now \in Nat
      /\ DOMAIN events = 1 .. Len(events) /\ DOMAIN loads = 1 .. Len(loads)
  BY LenProperties DEF TypeInv
<1>2. \A i \in DOMAIN events :
        events[i] \in [stream : Stream, utc : 0 .. now, tick : 0 .. now,
                       product : Product \union {None}, upload : Product \union {None}]
  <2> SUFFICES ASSUME NEW i \in 1 .. Len(events)
               PROVE  events[i] \in [stream : Stream, utc : 0 .. now, tick : 0 .. now,
                        product : Product \union {None}, upload : Product \union {None}]
    BY <1>1
  <2>1. PICK e \in LineType : events[i] = e
    BY LineTypes
  <2>2. e.utc \in 0 .. now /\ e.tick \in 0 .. now
    BY <1>1, <2>1 DEF PastPart, LineType
  <2> QED
    BY <2>1, <2>2 DEF LineType
<1>3. \A i \in DOMAIN loads :
        loads[i] \in [stream : Stream, at : 0 .. now, payload : Payload]
  <2> SUFFICES ASSUME NEW i \in 1 .. Len(loads)
               PROVE  loads[i] \in [stream : Stream, at : 0 .. now, payload : Payload]
    BY <1>1
  <2>1. PICK l \in LoadType : loads[i] = l
    BY ElementOfSeq DEF TypeInv
  <2>2. l.at \in 0 .. now
    BY <1>1, <2>1 DEF PastPart, LoadType
  <2> QED
    BY <2>1, <2>2 DEF LoadType
<1>4. \A w \in Writer : writer[w] \in WriterType
  BY DEF TypeInv
<1>5. reader.pc \in {"idle", "read", "product"} /\ reader.utc \in 0 .. now
  BY <1>1 DEF TypeInv, PastPart, ReaderType
<1>6. eventCache.known \in 0 .. Len(events)
  BY <1>1 DEF TypeInv
<1> QED
  BY <1>1, <1>2, <1>3, <1>4, <1>5, <1>6 DEF TypeInv, TypeOK, WriterType, IndexType

(***************************************************************************)
(* The variables keep their types: a line of the log and a load are of the *)
(* past, the cache knows at most the lines there are, and t2d asks of the  *)
(* past.                                                                   *)
(***************************************************************************)
THEOREM TypeCorrect == Spec => []TypeOK
<1>1. TypeInv /\ PastPart => TypeOK
  BY TypesGiven
<1> QED
  BY <1>1, TypesAlways, PTL

-----------------------------------------------------------------------------
(***************************************************************************)
(* The cache of the log                                                    *)
(***************************************************************************)

\* Time stamps grow along the log; a cache or a reader has one that the last
\* line it saw, or will see, is not older than.
StampInv ==
  /\ \A i, j \in 1 .. Len(events) : i <= j => events[i].tick <= events[j].tick
  /\ eventCache.tick # -1 =>
       eventCache.known >= 1 /\ eventCache.tick <= events[eventCache.known].tick
  /\ reader.pc = "read" => Len(events) >= 1 /\ reader.stat <= events[Len(events)].tick

\* The log only grows, by lines of this tick.
LEMMA LogGrows ==
  ASSUME TypeInv, PastPart, LinesInv, [Next]_vars
  PROVE  /\ Len(events) \in Nat /\ Len(events') \in {Len(events), Len(events) + 1}
         /\ \A i \in 1 .. Len(events) : events'[i] = events[i] /\ events'[i].tick \in Nat
         /\ \A i \in 1 .. Len(events) : events'[i].tick <= now
         /\ \A i \in 1 .. Len(events') : i \in 1 .. Len(events) \/ i = Len(events) + 1
         /\ events' # events => /\ Len(events') = Len(events) + 1
                                /\ events'[Len(events')].tick = now
                                /\ UNCHANGED readerVars
<1>1. Len(events) \in Nat
  BY LenProperties DEF TypeInv
<1>2. CASE UNCHANGED events
  BY <1>1, <1>2, LineTypes DEF PastPart
<1>3. ASSUME NEW w \in Writer, RecordEvent(w)
      PROVE  /\ Len(events') = Len(events) + 1
             /\ \A i \in 1 .. Len(events) : events'[i] = events[i]
             /\ events'[Len(events')].tick = now /\ UNCHANGED readerVars
  BY <1>3, LineAdds DEF RecordEvent
<1>4. CASE \E w \in Writer : RecordEvent(w)
  <2>1. /\ Len(events') = Len(events) + 1
        /\ \A i \in 1 .. Len(events) : events'[i] = events[i]
        /\ events'[Len(events')].tick = now /\ UNCHANGED readerVars
    BY <1>3, <1>4
  <2> QED
    BY <1>1, <2>1, LineTypes DEF PastPart
<1> QED
  BY <1>2, <1>4, LogsStep

LEMMA StampStep ==
  ASSUME TypeInv, PastPart, LinesInv, StampInv, [Next]_vars
  PROVE  StampInv'
<1>0. /\ Len(events) \in Nat /\ Len(events') \in {Len(events), Len(events) + 1}
      /\ \A i \in 1 .. Len(events) : events'[i] = events[i] /\ events'[i].tick \in Nat
      /\ \A i \in 1 .. Len(events) : events'[i].tick <= now
      /\ \A i \in 1 .. Len(events') : i \in 1 .. Len(events) \/ i = Len(events) + 1
      /\ events' # events => /\ Len(events') = Len(events) + 1
                             /\ events'[Len(events')].tick = now
                             /\ UNCHANGED readerVars
      /\ now \in Nat
  BY LogGrows DEF TypeInv
<1>1. \A i, j \in 1 .. Len(events') : i <= j => events'[i].tick <= events'[j].tick
  <2>1. CASE events' = events
    BY <2>1 DEF StampInv
  <2>2. CASE events' # events
    BY <1>0, <2>2 DEF StampInv
  <2> QED
    BY <2>1, <2>2
<1>2. CASE events' # events
  <2>1. UNCHANGED <<reader, eventCache>> /\ eventCache.known \in 0 .. Len(events)
    BY <1>0, <1>2 DEF readerVars, TypeInv
  <2>2. /\ eventCache'.tick # -1 =>
             eventCache'.known >= 1 /\ eventCache'.tick <= events'[eventCache'.known].tick
    BY <1>0, <2>1 DEF StampInv
  <2>3. reader'.pc = "read" => Len(events') >= 1 /\ reader'.stat <= events'[Len(events')].tick
    <3>1. SUFFICES ASSUME reader.pc = "read"
                   PROVE  Len(events') >= 1 /\ reader.stat <= events'[Len(events')].tick
      BY <2>1
    <3>2. Len(events) >= 1 /\ reader.stat <= events[Len(events)].tick /\ reader.stat \in Nat
      BY <3>1 DEF StampInv, TypeInv, ReaderType
    <3>3. Len(events) \in 1 .. Len(events)
      BY <1>0, <3>2
    <3>4. events[Len(events)].tick \in Nat /\ events[Len(events)].tick <= now
      BY <1>0, <3>3
    <3> QED
      BY <1>0, <1>2, <3>2, <3>4
  <2> QED
    BY <1>1, <2>2, <2>3 DEF StampInv
<1>3. CASE events' = events /\ UNCHANGED readerVars
  BY <1>3 DEF StampInv, readerVars
<1>4. CASE BeginLookup
  <2>1. events' = events /\ eventCache' = eventCache /\ events # <<>>
    BY <1>4 DEF BeginLookup
  <2>2. Len(events) >= 1
    BY <1>0, <2>1, EmptySeq DEF TypeInv
  <2>3. PICK u \in 0 .. now :
          IF eventCache.tick = ModifiedAt THEN Concludes(u, eventCache.known)
          ELSE reader' = [AtRest EXCEPT !.pc = "read", !.utc = u, !.stat = ModifiedAt]
    BY <1>4 DEF BeginLookup
  <2>4. u \in Nat /\ eventCache.known \in 0 .. Len(events)
    BY <1>0 DEF TypeInv
  <2>5. Concludes(u, eventCache.known) => reader'.pc # "read"
    BY <2>4, Concluded
  <2>6. Len(events) \in 1 .. Len(events)
    BY <1>0, <2>2
  <2>7. ModifiedAt \in Nat /\ ModifiedAt = events[Len(events)].tick
    BY <2>6, LineTypes DEF ModifiedAt
  <2>8. reader'.pc = "read" => reader'.stat = ModifiedAt
    BY <2>3, <2>5 DEF AtRest
  <2> QED
    BY <2>1, <2>2, <2>7, <2>8 DEF StampInv
<1>5. CASE ReadEvents
  <2>1. /\ events' = events /\ reader.pc = "read"
        /\ eventCache' = [tick |-> reader.stat, known |-> Len(events)]
        /\ Concludes(reader.utc, Len(events))
    BY <1>5 DEF ReadEvents, CachedEvents
  <2>2. Len(events) \in 0 .. Len(events) /\ reader.utc \in Nat
    BY <1>0 DEF TypeInv, ReaderType
  <2>3. reader'.pc # "read"
    BY <2>1, <2>2, Concluded
  <2>4. eventCache'.tick = reader.stat /\ eventCache'.known = Len(events)
    BY <2>1
  <2> QED
    BY <2>1, <2>3, <2>4 DEF StampInv
<1>6. CASE ReadProduct
  BY <1>6 DEF ReadProduct, StampInv, AtRest
<1>7. events' = events \/ events' # events
  OBVIOUS
<1>8. Lookup \/ UNCHANGED readerVars
  BY LogsStep
<1> QED
  BY <1>2, <1>3, <1>4, <1>5, <1>6, <1>7, <1>8 DEF Lookup

(***************************************************************************)
(* The cached lines of the log are used only if they are all there are,    *)
(* but for lines of the very tick in which the last cached one was         *)
(* written.                                                                *)
(***************************************************************************)
THEOREM CacheFollowsLog == Spec => []StaleWithinTickOnly
<1> DEFINE Inv == TypeInv /\ PastPart /\ LinesInv
<1>1. Init => StampInv
  BY DEF Init, StampInv, AtRest
<1>2. Inv /\ StampInv /\ [Next]_vars => StampInv'
  BY StampStep
<1>3. Inv /\ StampInv => StaleWithinTickOnly
  <2> SUFFICES ASSUME Inv, StampInv, events # <<>>, eventCache.tick = ModifiedAt,
                      NEW i \in eventCache.known + 1 .. Len(events)
               PROVE  events[i].tick = events[eventCache.known].tick
    BY DEF StaleWithinTickOnly
  <2>1. /\ Len(events) \in Nat /\ eventCache.known \in Nat /\ eventCache.known <= Len(events)
    BY LenProperties DEF TypeInv
  <2>2. i \in 1 .. Len(events) /\ Len(events) \in 1 .. Len(events)
    BY <2>1
  <2>3. /\ events[i].tick \in Nat /\ events[Len(events)].tick \in Nat
        /\ events[i].tick <= events[Len(events)].tick
    BY <2>1, <2>2, LineTypes DEF StampInv
  <2>4. eventCache.tick # -1 /\ eventCache.tick = events[Len(events)].tick
    BY <2>3 DEF ModifiedAt
  <2>5. /\ eventCache.known \in 1 .. Len(events)
        /\ events[Len(events)].tick <= events[eventCache.known].tick
    BY <2>1, <2>4 DEF StampInv
  <2>6. events[eventCache.known].tick <= events[i].tick /\ events[eventCache.known].tick \in Nat
    BY <2>1, <2>2, <2>5, LineTypes DEF StampInv
  <2> QED
    BY <2>3, <2>5, <2>6
<1> QED
  BY <1>1, <1>2, <1>3, TypesAlways, PTL DEF Spec

-----------------------------------------------------------------------------
(***************************************************************************)
(* The widths                                                              *)
(***************************************************************************)

\* A cached record of the version that the file has is the file's.
RecordInv ==
  \A p \in Product :
    /\ productCache[p].version <= file[p].version
    /\ productCache[p].version = file[p].version => productCache[p].width = file[p].width

LEMMA ReplacedKeeps ==
  ASSUME TypeInv, RecordInv, NEW p \in Product, NEW x \in Width \union {None},
         ReplaceFile(p, x), UNCHANGED productCache
  PROVE  RecordInv'
<1>1. /\ file'[p].version = file[p].version + 1
      /\ \A q \in Product \ {p} : file'[q] = file[q]
  BY ReplacedType DEF TypeInv
<1>2. productCache[p].version \in Nat /\ file[p].version \in Nat
  BY DEF TypeInv, Versioned
<1> SUFFICES ASSUME NEW q \in Product
             PROVE  /\ productCache[q].version <= file'[q].version
                    /\ productCache[q].version = file'[q].version =>
                         productCache[q].width = file'[q].width
  BY DEF RecordInv
<1>3. CASE q = p
  BY <1>1, <1>2, <1>3 DEF RecordInv
<1>4. CASE q # p
  BY <1>1, <1>4 DEF RecordInv
<1> QED
  BY <1>3, <1>4

LEMMA RecordStep ==
  ASSUME TypeInv, RecordInv, [Next]_vars
  PROVE  RecordInv'
<1>1. ASSUME UNCHANGED <<file, productCache>>
      PROVE  RecordInv'
  BY <1>1 DEF RecordInv
<1>2. ASSUME NEW w \in Uploader, StartUpload(w)
      PROVE  RecordInv'
  <2>1. PICK p \in Product, x \in Width \union {None} :
          IF Exists(p) THEN UNCHANGED file ELSE ReplaceFile(p, x)
    BY <1>2, ConstantTypes DEF StartUpload
  <2>2. UNCHANGED productCache
    BY <1>2 DEF StartUpload, readerVars
  <2> QED
    BY <1>1, <2>1, <2>2, ReplacedKeeps
<1>3. ASSUME NEW w \in Writer, Fill(w)
      PROVE  RecordInv'
  <2>1. writer[w] \in WriterType
    BY DEF TypeInv
  <2>2. writer[w].product \in Product /\ writer[w].width \in Width \union {None}
    BY <1>3, <2>1 DEF Fill, TypeInv, PlacePart, WriterType
  <2>3. ReplaceFile(writer[w].product, writer[w].width) /\ UNCHANGED productCache
    BY <1>3 DEF Fill, readerVars
  <2> QED
    BY <2>2, <2>3, ReplacedKeeps
<1>4. ASSUME ReadProduct
      PROVE  RecordInv'
  <2> DEFINE p == reader.product
  <2>1. p \in Product
    BY <1>4 DEF ReadProduct, TypeInv
  <2>2. productCache' = [productCache EXCEPT ![p] = ProductRead(p)] /\ UNCHANGED file
    BY <1>4 DEF ReadProduct
  <2>3. file[p].version \in Nat
    BY <2>1 DEF TypeInv, Versioned
  <2>4. productCache \in [Product -> Versioned]
    BY DEF TypeInv
  <2>5. productCache'[p] = ProductRead(p) /\ \A q \in Product \ {p} : productCache'[q] = productCache[q]
    BY <2>1, <2>2, <2>4
  <2>6. /\ ProductRead(p).version = file[p].version
        /\ ProductRead(p).width = file[p].width
    BY <2>1 DEF ProductRead, RecordInv
  <2> HIDE DEF p
  <2> QED
    BY <2>1, <2>2, <2>3, <2>5, <2>6 DEF RecordInv
<1>5. ASSUME NEW w \in Uploader, LoadIndex(w) \/ StoreIndex(w) \/ Push(w)
      PROVE  UNCHANGED <<file, productCache>>
  BY <1>5 DEF LoadIndex, StoreIndex, Push, readerVars
<1>6. ASSUME NEW w \in Writer, RecordEvent(w) \/ WriterDies(w)
      PROVE  UNCHANGED <<file, productCache>>
  BY <1>6 DEF RecordEvent, WriterDies, readerVars
<1>7. ASSUME Notice \/ (\E p \in Product : Backfill(p)) \/ (\E s \in Stream : Reload(s)) \/ Tick
             \/ BeginLookup \/ ReadEvents \/ UNCHANGED vars
      PROVE  UNCHANGED <<file, productCache>>
  BY <1>7 DEF Notice, Backfill, Reload, Tick, BeginLookup, ReadEvents, vars, readerVars
<1> QED
  BY <1>1, <1>2, <1>3, <1>4, <1>5, <1>6, <1>7 DEF Next, Upload, Lookup

(***************************************************************************)
(* A gulp whose product is named is clustered with the widths that the     *)
(* product's file has by then.                                             *)
(***************************************************************************)
THEOREM WidthsCorrect == Spec => WidthsFollow
<1> DEFINE Inv == TypeInv /\ PastPart /\ LinesInv
           Follows == reader.pc = "product" /\ reader'.pc = "idle" =>
                        width'[reader.product] = file[reader.product].width
<1>1. Init => RecordInv
  BY DEF Init, RecordInv
<1>2. Inv /\ RecordInv /\ [Next]_vars => RecordInv'
  BY RecordStep
<1>3. Inv /\ RecordInv /\ [Next]_vars => [Follows]_vars
  <2> SUFFICES ASSUME Inv, RecordInv, [Next]_vars, reader.pc = "product", reader'.pc = "idle"
               PROVE  width'[reader.product] = file[reader.product].width
    OBVIOUS
  <2>1. reader' # reader
    OBVIOUS
  <2>2. ReadProduct
    <3>1. Lookup
      BY <2>1, LogsStep DEF readerVars
    <3> QED
      BY <3>1 DEF Lookup, BeginLookup, ReadEvents
  <2>3. /\ reader.product \in Product
        /\ width' = [width EXCEPT ![reader.product] = ProductRead(reader.product).width]
    BY <2>2 DEF ReadProduct, TypeInv
  <2>4. width'[reader.product] = ProductRead(reader.product).width
    BY <2>3 DEF TypeInv
  <2> QED
    BY <2>3, <2>4 DEF ProductRead, RecordInv
<1> QED
  BY <1>1, <1>2, <1>3, TypesAlways, PTL DEF Spec, WidthsFollow

-----------------------------------------------------------------------------
(***************************************************************************)
(* The lines that uploads write                                            *)
(***************************************************************************)

Alone(w) == \A v \in Uploader \ {w} : writer[v].pc = "idle"

\* An uploader that nobody interferes with: its copy of the index is the
\* index until it stores it, and then the index names its product.
Naming(w) ==
  /\ writer[w].pc # "idle" => Alone(w)
  /\ writer[w].pc = "store" => writer[w].index = index
  /\ writer[w].pc \in {"push", "record"} =>
       \A d \in PayloadsOf(writer[w].product) : index[d] = writer[w].product
  /\ writer[w].pc = "record" =>
       loads[writer[w].load].payload \in PayloadsOf(writer[w].product)

NamedLines ==
  \A i \in 1 .. Len(events) :
    events[i].upload # None => events[i].product = events[i].upload

NamedInv == ~ overlap => NamedLines /\ \A w \in Uploader : Naming(w)

\* A step of one writer leaves the other uploaders as they are.
LEMMA OthersNaming ==
  ASSUME TypeInv, NEW w \in Writer, \A v \in Uploader : Naming(v),
         \A v \in Writer \ {w} : writer'[v] = writer[v],
         w \in Uploader => Alone(w),
         w \notin Uploader => index' = index,
         \A i \in 1 .. Len(loads) : loads'[i] = loads[i],
         NEW v \in Uploader \ {w}
  PROVE  Naming(v)'
<1>0. v \in Writer \ {w} /\ writer'[v] = writer[v] /\ Naming(v)
  BY DEF Writer
<1>1. CASE writer[v].pc = "idle"
  BY <1>0, <1>1 DEF Naming
<1>2. CASE writer[v].pc # "idle"
  <2>1. w \notin Uploader
    BY <1>2 DEF Alone
  <2>2. index' = index
    BY <2>1
  <2>3. Alone(v)'
    <3> SUFFICES ASSUME NEW x \in Uploader \ {v}
                 PROVE  writer'[x].pc = "idle"
      BY DEF Alone
    <3>1. writer[x].pc = "idle"
      BY <1>0, <1>2 DEF Naming, Alone
    <3>2. writer'[x] = writer[x]
      BY <2>1 DEF Writer
    <3> QED
      BY <3>1, <3>2
  <2>4. writer[v].pc = "record" => loads'[writer[v].load] = loads[writer[v].load]
    BY <1>0 DEF TypeInv, PlacePart
  <2> QED
    BY <1>0, <2>2, <2>3, <2>4 DEF Naming, PayloadsOf
<1> QED
  BY <1>1, <1>2

LEMMA UploadNaming ==
  ASSUME TypeInv, NEW w \in Uploader, Upload(w), ~ overlap', NamedInv
  PROVE  NamedInv'
<1>0. /\ w \in Writer /\ writer[w] \in WriterType /\ writer \in [Writer -> WriterType]
      /\ Len(loads) \in Nat
  BY LenProperties DEF Writer, TypeInv
<1>1. ~ overlap /\ UNCHANGED events
  <2>1. CASE StartUpload(w)
    <3>1. overlap' = (overlap \/ \E v \in Uploader : writer[v].pc # "idle") /\ UNCHANGED events
      BY <2>1 DEF StartUpload
    <3>2. ~ overlap
      BY <3>1, Zenon
    <3> QED
      BY <3>1, <3>2
  <2>2. CASE LoadIndex(w) \/ StoreIndex(w) \/ Push(w)
    <3>1. overlap' = overlap /\ UNCHANGED events
      BY <2>2 DEF LoadIndex, StoreIndex, Push
    <3>2. ~ overlap
      BY <3>1, Zenon
    <3> QED
      BY <3>1, <3>2
  <2> QED
    BY <2>1, <2>2 DEF Upload
<1>2. NamedLines' /\ \A v \in Uploader : Naming(v)
  BY <1>1 DEF NamedInv, NamedLines
<1>3. Alone(w)
  <2>1. CASE StartUpload(w)
    BY <2>1 DEF StartUpload, Alone
  <2>2. CASE LoadIndex(w) \/ StoreIndex(w) \/ Push(w)
    BY <1>2, <2>2 DEF LoadIndex, StoreIndex, Push, Naming
  <2> QED
    BY <2>1, <2>2 DEF Upload
<1>4. SUFFICES /\ \A v \in Writer \ {w} : writer'[v] = writer[v]
               /\ \A i \in 1 .. Len(loads) : loads'[i] = loads[i]
               /\ Alone(w)' => Naming(w)'
  <2>1. Alone(w)'
    BY <1>3, <1>4 DEF Alone, Writer
  <2>2. \A v \in Uploader \ {w} : Naming(v)'
    BY <1>0, <1>2, <1>3, <1>4, OthersNaming
  <2> QED
    BY <1>2, <1>4, <2>1, <2>2 DEF NamedInv
<1>5. CASE StartUpload(w)
  <2>1. PICK p \in Product, x \in Width \union {None} :
          Moves(w, IF LacksWidth(p) /\ x # None THEN "fill" ELSE "index",
                [Idle EXCEPT !.product = p, !.width = x, !.streams = Stream])
    BY <1>5, ConstantTypes DEF StartUpload
  <2> DEFINE held == [Idle EXCEPT !.product = p, !.width = x, !.streams = Stream]
             label == IF LacksWidth(p) /\ x # None THEN "fill" ELSE "index"
  <2>2. held \in WriterType /\ label \in {"fill", "index"} /\ Moves(w, label, held)
    BY <2>1, IdleType DEF WriterType
  <2>3. loads' = loads
    BY <1>5 DEF StartUpload
  <2> HIDE DEF held, label
  <2>4. writer'[w].pc \in {"fill", "index"} /\ \A v \in Writer \ {w} : writer'[v] = writer[v]
    BY <1>0, <2>2, Moved
  <2> QED
    BY <2>3, <2>4 DEF Naming
<1>6. CASE LoadIndex(w)
  <2> DEFINE held == [writer[w] EXCEPT !.index = index]
  <2>1. held \in WriterType /\ held.index = index
    BY <1>0 DEF WriterType, TypeInv
  <2>2. Moves(w, "store", held) /\ UNCHANGED <<index, loads>>
    BY <1>6 DEF LoadIndex
  <2> HIDE DEF held
  <2>3. /\ writer'[w].pc = "store" /\ writer'[w].index = index
        /\ \A v \in Writer \ {w} : writer'[v] = writer[v]
    BY <1>0, <2>1, <2>2, Moved
  <2> QED
    BY <2>2, <2>3 DEF Naming
<1>7. CASE StoreIndex(w)
  <2> DEFINE held == [writer[w] EXCEPT !.index = Idle.index]
             p == writer[w].product
  <2>1. held \in WriterType /\ held.product = p
    BY <1>0, IdleType DEF WriterType
  <2>2. /\ Moves(w, "push", held) /\ loads' = loads /\ writer[w].pc = "store"
        /\ index' = Indexed(writer[w].index, p)
    BY <1>7 DEF StoreIndex
  <2>3. writer[w].index = index /\ p \in Product
    BY <1>0, <1>2, <2>2 DEF Naming, TypeInv, PlacePart
  <2>4. PayloadsOf(p) \subseteq Payload
    BY <2>3, ConstantTypes DEF PayloadsOf
  <2>5. \A d \in PayloadsOf(p) : index'[d] = p
    BY <2>2, <2>3, <2>4 DEF Indexed
  <2> HIDE DEF held
  <2>6. /\ writer'[w].pc = "push" /\ writer'[w].product = p
        /\ \A v \in Writer \ {w} : writer'[v] = writer[v]
    BY <1>0, <2>1, <2>2, Moved
  <2> QED
    BY <2>2, <2>5, <2>6 DEF Naming, PayloadsOf
<1>8. CASE Push(w)
  <2>1. PICK s \in writer[w].streams :
          /\ Loads(s, PayloadOf[writer[w].product][s])
          /\ Moves(w, "record", [writer[w] EXCEPT !.streams = @ \ {s}, !.load = Len(loads) + 1])
    BY <1>8 DEF Push
  <2> DEFINE held == [writer[w] EXCEPT !.streams = @ \ {s}, !.load = Len(loads) + 1]
             p == writer[w].product
  <2>2. p \in Product /\ s \in Stream /\ now \in Nat /\ loads \in Seq(LoadType)
    BY <1>0, <1>8 DEF Push, TypeInv, PlacePart, WriterType
  <2>3. /\ held \in WriterType /\ held.product = p /\ held.load = Len(loads) + 1
    <3>1. PICK r \in WriterType : writer[w] = r
      BY <1>0
    <3>2. r.streams \ {s} \in SUBSET Stream /\ Len(loads) + 1 \in Nat
      BY <1>0, <3>1 DEF WriterType
    <3>3. held = [r EXCEPT !.streams = r.streams \ {s}, !.load = Len(loads) + 1]
      BY <3>1
    <3> QED
      BY <3>1, <3>2, <3>3 DEF WriterType
  <2>4. /\ \A i \in 1 .. Len(loads) : loads'[i] = loads[i]
        /\ loads'[Len(loads) + 1].payload = PayloadOf[p][s]
    <3>1. loads'[Len(loads) + 1] = [stream |-> s, at |-> now, payload |-> PayloadOf[p][s]]
      BY <2>1, <2>2, LoadAdds, ConstantTypes
    <3>2. \A i \in 1 .. Len(loads) : loads'[i] = loads[i]
      BY <2>1, <2>2, LoadAdds, ConstantTypes
    <3> QED
      BY <3>1, <3>2
  <2>5. Moves(w, "record", held) /\ UNCHANGED index /\ writer[w].pc = "push"
    BY <1>8, <2>1 DEF Push
  <2>6. PayloadOf[p][s] \in PayloadsOf(p)
    BY <2>2 DEF PayloadsOf
  <2> HIDE DEF held
  <2>7. /\ writer'[w].pc = "record" /\ writer'[w].product = p
        /\ writer'[w].load = Len(loads) + 1
        /\ \A v \in Writer \ {w} : writer'[v] = writer[v]
    BY <1>0, <2>3, <2>5, Moved
  <2>8. \A d \in PayloadsOf(p) : index[d] = p
    BY <1>2, <2>5 DEF Naming
  <2> QED
    BY <2>4, <2>5, <2>6, <2>7, <2>8 DEF Naming, PayloadsOf
<1> QED
  BY <1>5, <1>6, <1>7, <1>8 DEF Upload

LEMMA WriterNaming ==
  ASSUME TypeInv, NEW w \in Writer, Fill(w) \/ RecordEvent(w) \/ WriterDies(w), ~ overlap',
         NamedInv
  PROVE  NamedInv'
<1>0. /\ writer[w] \in WriterType /\ writer \in [Writer -> WriterType]
      /\ (w \in Uploader \/ w = Watcher) /\ Watcher \notin Uploader /\ Len(events) \in Nat
  BY ConstantTypes, LenProperties DEF Writer, TypeInv
<1>1. /\ ~ overlap /\ UNCHANGED <<loads, index>>
  BY DEF Fill, RecordEvent, WriterDies
<1>2. NamedLines /\ \A v \in Uploader : Naming(v)
  BY <1>1 DEF NamedInv
<1>3. writer[w].pc # "idle"
  BY DEF Fill, RecordEvent, WriterDies
<1>4. NamedLines'
  <2>1. CASE UNCHANGED events
    BY <1>2, <2>1 DEF NamedLines
  <2>2. CASE RecordEvent(w)
    <3>1. /\ Len(events') = Len(events) + 1
          /\ \A i \in 1 .. Len(events) : events'[i] = events[i]
          /\ events'[Len(events) + 1].product = index[loads[writer[w].load].payload]
          /\ events'[Len(events) + 1].upload = writer[w].product
      BY <2>2, LineAdds
    <3>2. writer[w].product # None =>
            index[loads[writer[w].load].payload] = writer[w].product
      BY <1>0, <1>2, <2>2 DEF Naming, RecordEvent, TypeInv, PlacePart
    <3>3. \A i \in 1 .. Len(events') : i \in 1 .. Len(events) \/ i = Len(events) + 1
      BY <1>0, <3>1
    <3> QED
      BY <1>2, <3>1, <3>2, <3>3 DEF NamedLines
  <2> QED
    BY <2>1, <2>2 DEF Fill, WriterDies
<1>5. /\ \A v \in Writer \ {w} : writer'[v] = writer[v]
      /\ \/ writer'[w].pc \in {"idle", "index"}
         \/ /\ writer[w].pc = "record" /\ writer'[w].pc = "push"
            /\ writer'[w].product = writer[w].product
  <2>1. CASE Fill(w)
    BY <1>0, <2>1, IdleType, Moved DEF Fill
  <2>2. CASE RecordEvent(w)
    <3> DEFINE held == [writer[w] EXCEPT !.load = None]
    <3>1. held \in WriterType /\ held.product = writer[w].product
      BY <1>0 DEF WriterType
    <3>2. /\ writer[w].pc = "record"
          /\ Moves(w, "idle", Idle) \/ Moves(w, "push", held)
      BY <2>2 DEF RecordEvent
    <3> HIDE DEF held
    <3> QED
      BY <1>0, <3>1, <3>2, IdleType, Moved
  <2>3. CASE WriterDies(w)
    BY <1>0, <2>3, IdleType, Moved DEF WriterDies
  <2> QED
    BY <2>1, <2>2, <2>3
<1>6. w \in Uploader => Alone(w) /\ Alone(w)'
  <2> SUFFICES ASSUME w \in Uploader
               PROVE  Alone(w) /\ Alone(w)'
    OBVIOUS
  <2>1. Alone(w)
    BY <1>2, <1>3 DEF Naming
  <2>2. Alone(w)'
    BY <1>5, <2>1 DEF Alone, Writer
  <2> QED
    BY <2>1, <2>2
<1>7. \A v \in Uploader \ {w} : Naming(v)'
  <2>1. w \in Uploader => Alone(w)
    BY <1>6
  <2>2. \A v \in Uploader : Naming(v)
    BY <1>2
  <2>3. index' = index /\ \A i \in 1 .. Len(loads) : loads'[i] = loads[i]
    BY <1>1
  <2>4. \A v \in Writer \ {w} : writer'[v] = writer[v]
    BY <1>5
  <2> QED
    BY <2>1, <2>2, <2>3, <2>4, OthersNaming
<1>8. w \in Uploader => Naming(w)'
  BY <1>1, <1>2, <1>5, <1>6 DEF Naming, PayloadsOf
<1> QED
  BY <1>4, <1>7, <1>8 DEF NamedInv

LEMMA NamedStep ==
  ASSUME TypeInv, PastPart, LinesInv, NamedInv, [Next]_vars
  PROVE  NamedInv'
<1>0. Watcher \in Writer /\ Watcher \notin Uploader /\ writer \in [Writer -> WriterType]
  BY ConstantTypes DEF Writer, TypeInv
<1>1. ASSUME ~ overlap', overlap' = overlap, UNCHANGED <<index, events>>,
             \A v \in Uploader : writer'[v] = writer[v],
             \A i \in 1 .. Len(loads) : loads'[i] = loads[i]
      PROVE  NamedInv'
  <2>1. NamedLines' /\ \A v \in Uploader : Naming(v)
    BY <1>1 DEF NamedInv, NamedLines
  <2>2. ASSUME NEW v \in Uploader
        PROVE  Naming(v)'
    <3>1. v \in Writer /\ writer'[v] = writer[v] /\ Naming(v)
      BY <1>1, <2>1 DEF Writer
    <3>2. Alone(v) => Alone(v)'
      BY <1>1 DEF Alone
    <3>3. writer[v].pc = "record" => loads'[writer[v].load] = loads[writer[v].load]
      BY <1>1, <3>1 DEF TypeInv, PlacePart
    <3> QED
      BY <1>1, <3>1, <3>2, <3>3 DEF Naming, PayloadsOf
  <2> QED
    BY <2>1, <2>2 DEF NamedInv
<1>2. ASSUME NEW s \in Stream, Reload(s)
      PROVE  /\ \A i \in 1 .. Len(loads) : loads'[i] = loads[i]
             /\ UNCHANGED <<overlap, index, events, writer>>
  BY <1>2, LoadAdds, ConstantTypes DEF Reload, TypeInv
<1>3. ASSUME Notice \/ \E p \in Product : Backfill(p)
      PROVE  /\ UNCHANGED <<overlap, index, events, loads>>
             /\ \A v \in Uploader : writer'[v] = writer[v]
  <2>1. UNCHANGED <<overlap, index, events, loads>>
    BY <1>3 DEF Notice, Backfill
  <2>2. \E label \in {"fill", "record"} : \E held : Moves(Watcher, label, held)
    BY <1>3 DEF Notice, Backfill
  <2>3. \A v \in Writer \ {Watcher} : writer'[v] = writer[v]
    BY <1>0, <2>2 DEF Moves
  <2> QED
    BY <1>0, <2>1, <2>3 DEF Writer
<1>4. ASSUME Lookup \/ Tick \/ UNCHANGED vars
      PROVE  UNCHANGED <<overlap, index, events, loads, writer>>
  BY <1>4 DEF Lookup, BeginLookup, ReadEvents, ReadProduct, Tick, vars
<1>5. CASE overlap'
  BY <1>5 DEF NamedInv
<1>6. CASE ~ overlap'
  <2>1. CASE \E w \in Uploader : Upload(w)
    BY <1>6, <2>1, UploadNaming
  <2>2. CASE \E w \in Writer : Fill(w) \/ RecordEvent(w) \/ WriterDies(w)
    BY <1>6, <2>2, WriterNaming
  <2> QED
    BY <1>1, <1>2, <1>3, <1>4, <1>6, <2>1, <2>2 DEF Next
<1> QED
  BY <1>5, <1>6

(***************************************************************************)
(* While no two uploads are under way at once, every line an upload writes *)
(* names the product it uploads.                                           *)
(***************************************************************************)
THEOREM UploadsNamedRight == Spec => []UploadsNamed
<1> DEFINE Inv == TypeInv /\ PastPart /\ LinesInv
<1>1. Init => NamedInv
  BY DEF Init, NamedInv, NamedLines, Naming, Idle, Writer
<1>2. Inv /\ NamedInv /\ [Next]_vars => NamedInv'
  BY NamedStep
<1>3. Inv /\ NamedInv => UploadsNamed
  BY LenProperties DEF TypeInv, NamedInv, NamedLines, UploadsNamed
<1> QED
  BY <1>1, <1>2, <1>3, TypesAlways, PTL DEF Spec

-----------------------------------------------------------------------------
(***************************************************************************)
(* The product that is named                                               *)
(***************************************************************************)

PayloadsOn(s) == {PayloadOf[p][s] : p \in Product} \union {Default[s]}

\* Streams are sub-bands, each with weights of its own.
OwnPayloads ==
  \A s, t \in Stream : s # t => PayloadsOn(s) \intersect PayloadsOn(t) = {}

IndexSound(x) == \A d \in Payload : x[d] # None => d \in PayloadsOf(x[d])

IndexInv == IndexSound(index) /\ \A w \in Writer : IndexSound(writer[w].index)

\* No two loads of a stream are of the same time, one of them is the last,
\* and each is of a payload of its stream.
LoadsInv ==
  /\ \A i, j \in 1 .. Len(loads) :
       loads[i].stream = loads[j].stream /\ loads[i].at = loads[j].at => i = j
  /\ \A s \in Stream, u \in Nat :
       LoadsUpTo(s, u) # {} =>
         \E i \in LoadsUpTo(s, u) : \A j \in LoadsUpTo(s, u) : loads[j].at <= loads[i].at
  /\ \A i \in 1 .. Len(loads) : loads[i].payload \in PayloadsOn(loads[i].stream)

\* Load k is what line i tells of.
Tells(i, k) ==
  /\ loads[k].stream = events[i].stream /\ loads[k].at = events[i].utc
  /\ events[i].product # None =>
       loads[k].payload = PayloadOf[events[i].product][events[i].stream]

SourceInv == \A i \in 1 .. Len(events) : \E k \in 1 .. Len(loads) : Tells(i, k)

\* The product t2d is about to read is that of the lines that hold.
AnswerInv ==
  reader.pc = "product" =>
    \A s \in Stream :
      \E i \in UpTo(s, reader.utc, eventCache.known) :
        /\ Holds(i, UpTo(s, reader.utc, eventCache.known))
        /\ events[i].product = reader.product

LEMMA IndexedSound ==
  ASSUME IndexSound(index), NEW copy \in IndexType, IndexSound(copy), NEW p \in Product
  PROVE  IndexSound(Indexed(copy, p))
<1>1. CASE \A d \in PayloadsOf(p) : copy[d] = p
  BY <1>1 DEF Indexed
<1>2. CASE ~ \A d \in PayloadsOf(p) : copy[d] = p
  BY <1>2 DEF Indexed, IndexSound
<1> QED
  BY <1>1, <1>2

\* A writer that moves on with a copy that is sound.
LEMMA MovedSound ==
  ASSUME TypeInv, IndexInv, NEW w \in Writer, NEW held \in WriterType,
         NEW label \in {"idle", "fill", "index", "store", "push", "record"},
         Moves(w, label, held), IndexSound(held.index), IndexSound(index')
  PROVE  IndexInv'
<1>1. /\ \A v \in Writer \ {w} : writer'[v] = writer[v]
      /\ writer'[w].index = held.index
  BY Moved DEF TypeInv
<1>2. \A v \in Writer : IndexSound(writer'[v].index)
  <2> SUFFICES ASSUME NEW v \in Writer
               PROVE  IndexSound(writer'[v].index)
    OBVIOUS
  <2>1. CASE v = w
    BY <1>1, <2>1
  <2>2. CASE v # w
    BY <1>1, <2>2 DEF IndexInv
  <2> QED
    BY <2>1, <2>2
<1>3. (\A v \in Writer : IndexSound(writer[v].index))'
  BY <1>2 DEF IndexSound, PayloadsOf
<1>4. IndexSound(index)'
  BY DEF IndexSound, PayloadsOf
<1> QED
  BY <1>3, <1>4 DEF IndexInv

LEMMA IndexStep ==
  ASSUME TypeInv, IndexInv, [Next]_vars
  PROVE  IndexInv'
<1>0. /\ IndexSound(Idle.index) /\ Idle \in WriterType
      /\ \A w \in Writer : writer[w] \in WriterType /\ IndexSound(writer[w].index)
      /\ IndexSound(index) /\ Watcher \in Writer /\ Uploader \subseteq Writer
  BY IdleType DEF Idle, IndexSound, IndexInv, TypeInv, Writer
<1>1. ASSUME NEW w \in Uploader, StartUpload(w)
      PROVE  IndexInv'
  <2>1. PICK p \in Product, x \in Width \union {None} :
          Moves(w, IF LacksWidth(p) /\ x # None THEN "fill" ELSE "index",
                [Idle EXCEPT !.product = p, !.width = x, !.streams = Stream])
    BY <1>1, ConstantTypes DEF StartUpload
  <2> DEFINE held == [Idle EXCEPT !.product = p, !.width = x, !.streams = Stream]
             label == IF LacksWidth(p) /\ x # None THEN "fill" ELSE "index"
  <2>2. /\ held \in WriterType /\ held.index = Idle.index
        /\ label \in {"fill", "index"} /\ Moves(w, label, held)
    BY <2>1, IdleType DEF WriterType
  <2>3. index' = index
    BY <1>1 DEF StartUpload
  <2> HIDE DEF held, label
  <2> QED
    BY <1>0, <2>2, <2>3, MovedSound
<1>2. ASSUME NEW w \in Uploader, LoadIndex(w)
      PROVE  IndexInv'
  <2> DEFINE held == [writer[w] EXCEPT !.index = index]
  <2>1. held \in WriterType /\ held.index = index
    BY <1>0 DEF WriterType, TypeInv
  <2>2. Moves(w, "store", held) /\ index' = index
    BY <1>2 DEF LoadIndex
  <2> HIDE DEF held
  <2> QED
    BY <1>0, <2>1, <2>2, MovedSound
<1>3. ASSUME NEW w \in Uploader, StoreIndex(w)
      PROVE  IndexInv'
  <2> DEFINE held == [writer[w] EXCEPT !.index = Idle.index]
  <2>1. held \in WriterType /\ held.index = Idle.index
    BY <1>0 DEF WriterType
  <2>2. /\ Moves(w, "push", held)
        /\ index' = Indexed(writer[w].index, writer[w].product)
        /\ writer[w].product \in Product
    BY <1>0, <1>3 DEF StoreIndex, TypeInv, PlacePart
  <2>3. writer[w].index \in IndexType /\ IndexSound(writer[w].index)
    BY <1>0 DEF WriterType
  <2>4. IndexSound(index')
    BY <1>0, <2>2, <2>3, IndexedSound
  <2> HIDE DEF held
  <2> QED
    BY <1>0, <2>1, <2>2, <2>4, MovedSound
<1>4. ASSUME NEW w \in Uploader, Push(w)
      PROVE  IndexInv'
  <2>1. PICK s \in writer[w].streams :
          Moves(w, "record", [writer[w] EXCEPT !.streams = @ \ {s}, !.load = Len(loads) + 1])
    BY <1>4 DEF Push
  <2> DEFINE held == [writer[w] EXCEPT !.streams = @ \ {s}, !.load = Len(loads) + 1]
  <2>2. held \in WriterType /\ held.index = writer[w].index
    <3>1. PICK r \in WriterType : writer[w] = r
      BY <1>0
    <3>2. r.streams \ {s} \in SUBSET Stream /\ Len(loads) + 1 \in Nat
      BY <3>1, LenProperties DEF WriterType, TypeInv
    <3>3. held = [r EXCEPT !.streams = r.streams \ {s}, !.load = Len(loads) + 1]
      BY <3>1
    <3> QED
      BY <3>1, <3>2, <3>3 DEF WriterType
  <2>3. Moves(w, "record", held) /\ index' = index
    BY <1>4, <2>1 DEF Push
  <2> HIDE DEF held
  <2> QED
    BY <1>0, <2>2, <2>3, MovedSound
<1>5. ASSUME NEW w \in Writer, Fill(w)
      PROVE  IndexInv'
  <2>1. index' = index /\ (Moves(w, "idle", Idle) \/ Moves(w, "index", writer[w]))
    BY <1>5 DEF Fill
  <2> QED
    BY <1>0, <2>1, MovedSound
<1>6. ASSUME NEW w \in Writer, RecordEvent(w)
      PROVE  IndexInv'
  <2> DEFINE held == [writer[w] EXCEPT !.load = None]
  <2>1. held \in WriterType /\ held.index = writer[w].index
    BY <1>0 DEF WriterType
  <2>2. index' = index /\ (Moves(w, "idle", Idle) \/ Moves(w, "push", held))
    BY <1>6 DEF RecordEvent
  <2> HIDE DEF held
  <2> QED
    BY <1>0, <2>1, <2>2, MovedSound
<1>7. ASSUME NEW w \in Writer, WriterDies(w)
      PROVE  IndexInv'
  BY <1>0, <1>7, MovedSound DEF WriterDies
<1>8. ASSUME NEW p \in Product, Backfill(p)
      PROVE  IndexInv'
  <2>1. PICK x \in Width : Moves(Watcher, "fill", [Idle EXCEPT !.product = p, !.width = x])
    BY <1>8 DEF Backfill
  <2> DEFINE held == [Idle EXCEPT !.product = p, !.width = x]
  <2>2. held \in WriterType /\ held.index = Idle.index
    BY <2>1, IdleType DEF WriterType
  <2>3. Moves(Watcher, "fill", held) /\ index' = index
    BY <1>8, <2>1 DEF Backfill
  <2> HIDE DEF held
  <2> QED
    BY <1>0, <2>2, <2>3, MovedSound
<1>9. ASSUME Notice
      PROVE  IndexInv'
  <2>1. PICK i \in unseen : Moves(Watcher, "record", [Idle EXCEPT !.load = i])
    BY <1>9 DEF Notice
  <2> DEFINE held == [Idle EXCEPT !.load = i]
  <2>2. i \in Nat
    BY LenProperties DEF TypeInv
  <2>3. held \in WriterType /\ held.index = Idle.index
    BY <2>2, IdleType DEF WriterType
  <2>4. Moves(Watcher, "record", held) /\ index' = index
    BY <1>9, <2>1 DEF Notice
  <2> HIDE DEF held
  <2> QED
    BY <1>0, <2>3, <2>4, MovedSound
<1>10. ASSUME UNCHANGED <<index, writer>>
       PROVE  IndexInv'
  BY <1>10 DEF IndexInv, IndexSound, PayloadsOf
<1>11. ASSUME (\E s \in Stream : Reload(s)) \/ Lookup \/ Tick \/ UNCHANGED vars
       PROVE  UNCHANGED <<index, writer>>
  BY <1>11 DEF Reload, Lookup, BeginLookup, ReadEvents, ReadProduct, Tick, vars
<1> QED
  BY <1>1, <1>2, <1>3, <1>4, <1>5, <1>6, <1>7, <1>8, <1>9, <1>10, <1>11 DEF Next, Upload

LEMMA LoadTypes ==
  ASSUME TypeInv
  PROVE  /\ Len(loads) \in Nat /\ DOMAIN loads = 1 .. Len(loads)
         /\ \A i \in 1 .. Len(loads) : /\ loads[i] \in LoadType /\ loads[i].stream \in Stream
                                       /\ loads[i].at \in Nat /\ loads[i].payload \in Payload
<1>1. Len(loads) \in Nat /\ DOMAIN loads = 1 .. Len(loads)
  BY LenProperties DEF TypeInv
<1>2. \A i \in 1 .. Len(loads) : loads[i] \in LoadType
  BY ElementOfSeq DEF TypeInv
<1> QED
  BY <1>1, <1>2 DEF LoadType

LEMMA LoadsStep ==
  ASSUME TypeInv, PastPart, LinesInv, LoadsInv, [Next]_vars
  PROVE  LoadsInv'
<1>1. CASE UNCHANGED loads
  BY <1>1 DEF LoadsInv, LoadsUpTo
<1>2. ASSUME NEW t \in Stream, NEW d \in Payload, Loads(t, d), d \in PayloadsOn(t)
      PROVE  LoadsInv'
  <2> DEFINE last == Len(loads) + 1
  <2>1. /\ Len(loads) \in Nat /\ now \in Nat /\ loads' \in Seq(LoadType)
        /\ Len(loads') = last /\ DOMAIN loads' = 1 .. last
        /\ \A i \in 1 .. Len(loads) : loads'[i] = loads[i]
        /\ \A i \in 1 .. Len(loads) : loads[i].stream = t => loads[i].at < now
    <3>1. loads \in Seq(LoadType) /\ now \in Nat
      BY DEF TypeInv
    <3>2. /\ loads' \in Seq(LoadType) /\ Len(loads') = last
          /\ \A i \in 1 .. Len(loads) : loads'[i] = loads[i]
          /\ \A i \in 1 .. Len(loads) : loads[i].stream = t => loads[i].at < now
      BY <1>2, <3>1, LoadAdds
    <3> QED
      BY <3>1, <3>2, LenProperties
  <2>2. loads'[last].stream = t /\ loads'[last].at = now /\ loads'[last].payload = d
    <3>1. loads \in Seq(LoadType) /\ now \in Nat
      BY DEF TypeInv
    <3>2. loads'[last] = [stream |-> t, at |-> now, payload |-> d]
      BY <1>2, <3>1, LoadAdds
    <3> QED
      BY <3>2
  <2>3. /\ last \notin 1 .. Len(loads)
        /\ \A i \in 1 .. last : i \in 1 .. Len(loads) \/ i = last
        /\ 1 .. Len(loads) \subseteq 1 .. last /\ last \in 1 .. last
    BY <2>1
  <2>4. \A i \in 1 .. Len(loads) : loads[i].at \in Nat /\ loads[i].at <= now
    BY LoadTypes DEF PastPart
  <2> HIDE DEF last
  <2>5. \A i, j \in 1 .. last :
          loads'[i].stream = loads'[j].stream /\ loads'[i].at = loads'[j].at => i = j
    <3>1. SUFFICES ASSUME NEW i \in 1 .. last, NEW j \in 1 .. last,
                          loads'[i].stream = loads'[j].stream, loads'[i].at = loads'[j].at
                   PROVE  i = j
      OBVIOUS
    <3>2. CASE i \in 1 .. Len(loads) /\ j \in 1 .. Len(loads)
      BY <2>1, <3>1, <3>2 DEF LoadsInv
    <3>3. CASE i = last /\ j \in 1 .. Len(loads)
      BY <2>1, <2>2, <2>4, <3>1, <3>3
    <3>4. CASE j = last /\ i \in 1 .. Len(loads)
      BY <2>1, <2>2, <2>4, <3>1, <3>4
    <3> QED
      BY <2>3, <3>2, <3>3, <3>4
  <2>6. \A i \in 1 .. last : loads'[i].payload \in PayloadsOn(loads'[i].stream)
    BY <1>2, <2>1, <2>2, <2>3 DEF LoadsInv
  <2>7. ASSUME NEW s \in Stream, NEW u \in Nat, LoadsUpTo(s, u)' # {}
        PROVE  \E i \in LoadsUpTo(s, u)' : \A j \in LoadsUpTo(s, u)' : loads'[j].at <= loads'[i].at
    <3>1. LoadsUpTo(s, u)' = {i \in 1 .. last : loads'[i].stream = s /\ loads'[i].at <= u}
      BY <2>1 DEF LoadsUpTo
    <3>2. LoadsUpTo(s, u) = {i \in 1 .. Len(loads) : loads'[i].stream = s /\ loads'[i].at <= u}
      BY <2>1, LoadTypes DEF LoadsUpTo
    <3>3. CASE last \in LoadsUpTo(s, u)'
      <4>1. \A j \in LoadsUpTo(s, u)' : loads'[j].at <= now
        <5> SUFFICES ASSUME NEW j \in LoadsUpTo(s, u)'
                     PROVE  loads'[j].at <= now
          OBVIOUS
        <5>1. j \in 1 .. Len(loads) \/ j = last
          BY <2>3, <3>1
        <5> QED
          BY <2>1, <2>2, <2>4, <5>1
      <4> QED
        BY <2>2, <3>3, <4>1
    <3>4. CASE last \notin LoadsUpTo(s, u)'
      <4>1. LoadsUpTo(s, u)' = LoadsUpTo(s, u)
        BY <2>3, <3>1, <3>2, <3>4
      <4>2. PICK i \in LoadsUpTo(s, u) :
              \A j \in LoadsUpTo(s, u) : loads[j].at <= loads[i].at
        BY <2>7, <4>1 DEF LoadsInv
      <4>3. \A j \in LoadsUpTo(s, u) : loads'[j] = loads[j]
        BY <2>1, <3>2
      <4> QED
        BY <4>1, <4>2, <4>3
    <3> QED
      BY <3>3, <3>4
  <2> QED
    BY <2>1, <2>5, <2>6, <2>7 DEF LoadsInv, PayloadsOn
<1>3. \/ UNCHANGED loads
      \/ \E s \in Stream, d \in Payload : Loads(s, d) /\ d \in PayloadsOn(s)
  BY LogsStep DEF PayloadsOn
<1> QED
  BY <1>1, <1>2, <1>3

LEMMA SourceStep ==
  ASSUME OwnPayloads, TypeInv, PastPart, LinesInv, IndexInv, LoadsInv, SourceInv, [Next]_vars
  PROVE  SourceInv'
<1>0. Len(events) \in Nat
  BY LenProperties DEF TypeInv
<1>1. CASE UNCHANGED events /\ UNCHANGED loads
  BY <1>1 DEF SourceInv, Tells
<1>2. ASSUME NEW s \in Stream, NEW d \in Payload, Loads(s, d), UNCHANGED events
      PROVE  SourceInv'
  <2>1. /\ loads \in Seq(LoadType) /\ now \in Nat
    BY DEF TypeInv
  <2>2. /\ Len(loads') = Len(loads) + 1 /\ Len(loads) \in Nat
        /\ \A i \in 1 .. Len(loads) : loads'[i] = loads[i]
    BY <1>2, <2>1, LoadAdds, LoadTypes
  <2>3. \A k \in 1 .. Len(loads) : k \in 1 .. Len(loads')
    BY <2>2
  <2> SUFFICES ASSUME NEW i \in 1 .. Len(events)
               PROVE  \E k \in 1 .. Len(loads') : Tells(i, k)'
    BY <1>2 DEF SourceInv
  <2>4. PICK k \in 1 .. Len(loads) : Tells(i, k)
    BY DEF SourceInv
  <2>5. Tells(i, k)'
    BY <1>2, <2>2, <2>4 DEF Tells
  <2> QED
    BY <2>3, <2>5
<1>3. ASSUME NEW w \in Writer, RecordEvent(w), UNCHANGED loads
      PROVE  SourceInv'
  <2>0. PICK k \in 1 .. Len(loads), last \in Nat :
          k = writer[w].load /\ last = Len(events) + 1
    BY <1>0, <1>3, LineAdds
  <2> DEFINE l == loads[k]
             e == events'[last]
  <2>1. /\ Len(events') = last
        /\ \A i \in 1 .. Len(events) : events'[i] = events[i]
        /\ e.stream = l.stream /\ e.utc = l.at
        /\ e.product = index[l.payload]
    BY <1>3, <2>0, LineAdds
  <2>2. l.stream \in Stream /\ l.payload \in Payload /\ l.payload \in PayloadsOn(l.stream)
    BY <2>1, LoadTypes DEF LoadsInv
  <2>3. ASSUME e.product # None
        PROVE  l.payload = PayloadOf[e.product][e.stream]
    <3>1. e.product \in Product
      BY <2>1, <2>2, <2>3 DEF TypeInv, IndexType
    <3>2. l.payload \in PayloadsOf(e.product)
      BY <2>1, <2>2, <2>3 DEF IndexInv, IndexSound
    <3>3. PICK t \in Stream : l.payload = PayloadOf[e.product][t]
      BY <3>2 DEF PayloadsOf
    <3>4. l.payload \in PayloadsOn(t)
      BY <3>1, <3>3 DEF PayloadsOn
    <3>5. t = l.stream
      BY <2>2, <3>4 DEF OwnPayloads
    <3> QED
      BY <2>1, <3>3, <3>5
  <2>4. Tells(last, k)'
    BY <1>3, <2>1, <2>3 DEF Tells
  <2>5. ASSUME NEW i \in 1 .. Len(events)
        PROVE  \E j \in 1 .. Len(loads) : Tells(i, j)'
    <3>1. PICK j \in 1 .. Len(loads) : Tells(i, j)
      BY DEF SourceInv
    <3>2. Tells(i, j)'
      BY <1>3, <2>1, <3>1 DEF Tells
    <3> QED
      BY <3>2
  <2>6. \A i \in 1 .. Len(events') : i \in 1 .. Len(events) \/ i = last
    BY <1>0, <2>0, <2>1
  <2> QED
    BY <1>3, <2>1, <2>4, <2>5, <2>6 DEF SourceInv
<1> QED
  BY <1>1, <1>2, <1>3, LogsStep

LEMMA AnswerStep ==
  ASSUME TypeInv, PastPart, LinesInv, AnswerInv, [Next]_vars
  PROVE  AnswerInv'
<1>0. Len(events) \in Nat /\ eventCache.known \in 0 .. Len(events)
  BY LenProperties DEF TypeInv
<1>1. ASSUME NEW u \in Nat, NEW n \in 0 .. Len(events), Concludes(u, n), UNCHANGED events,
             eventCache'.known = n
      PROVE  AnswerInv'
  <2> SUFFICES ASSUME reader'.pc = "product", NEW s \in Stream
               PROVE  \E i \in UpTo(s, reader'.utc, n) :
                        /\ Holds(i, UpTo(s, reader'.utc, n))
                        /\ events[i].product = reader'.product
    BY <1>1 DEF AnswerInv, UpTo, Holds
  <2>1. /\ reader'.utc = u /\ UpTo(s, u, n) # {}
        /\ events[LiveLine(s, u, n)].product = reader'.product
    BY <1>1, Concluded
  <2> QED
    BY <2>1, LiveLineHolds
<1>2. CASE BeginLookup
  <2>1. PICK u \in 0 .. now :
          IF eventCache.tick = ModifiedAt THEN Concludes(u, eventCache.known)
          ELSE reader' = [AtRest EXCEPT !.pc = "read", !.utc = u, !.stat = ModifiedAt]
    BY <1>2 DEF BeginLookup
  <2>2. u \in Nat /\ UNCHANGED <<events, eventCache>>
    BY <1>2 DEF BeginLookup, TypeInv
  <2>3. CASE Concludes(u, eventCache.known)
    BY <1>0, <1>1, <2>2, <2>3
  <2>4. CASE reader' = [AtRest EXCEPT !.pc = "read", !.utc = u, !.stat = ModifiedAt]
    BY <2>4 DEF AnswerInv, AtRest
  <2> QED
    BY <2>1, <2>3, <2>4
<1>3. CASE ReadEvents
  <2>1. /\ Concludes(reader.utc, Len(events)) /\ UNCHANGED events
        /\ eventCache' = [tick |-> reader.stat, known |-> Len(events)]
    BY <1>3 DEF ReadEvents, CachedEvents
  <2>2. reader.utc \in Nat /\ Len(events) \in 0 .. Len(events) /\ eventCache'.known = Len(events)
    BY <1>0, <2>1 DEF TypeInv, ReaderType
  <2> QED
    BY <1>1, <2>1, <2>2
<1>4. CASE ReadProduct
  BY <1>4 DEF ReadProduct, AnswerInv, AtRest
<1>5. CASE UNCHANGED readerVars
  <2>1. \A i \in 1 .. Len(events) : events'[i] = events[i]
    BY LogGrows
  <2>2. reader' = reader /\ eventCache' = eventCache
    BY <1>5 DEF readerVars
  <2> SUFFICES ASSUME reader.pc = "product", NEW s \in Stream
               PROVE  (\E i \in UpTo(s, reader.utc, eventCache.known) :
                         /\ Holds(i, UpTo(s, reader.utc, eventCache.known))
                         /\ events[i].product = reader.product)'
    BY <2>2 DEF AnswerInv
  <2> DEFINE U == UpTo(s, reader.utc, eventCache.known)
  <2>3. PICK i \in U : Holds(i, U) /\ events[i].product = reader.product
    BY DEF AnswerInv
  <2>4. U' = U /\ U \subseteq 1 .. Len(events)
    BY <1>0, <2>1, <2>2 DEF UpTo
  <2>5. \A j \in U : events'[j] = events[j]
    BY <2>1, <2>4
  <2> HIDE DEF U
  <2>6. Holds(i, U)' /\ events'[i].product = reader'.product /\ i \in U'
    BY <2>2, <2>3, <2>4, <2>5 DEF Holds
  <2> QED
    BY <2>6 DEF U
<1> QED
  BY <1>2, <1>3, <1>4, <1>5, LogsStep DEF Lookup

LEMMA OkGiven ==
  ASSUME TypeInv, PastPart, LoadsInv, SourceInv, AnswerInv
  PROVE  OkIsTrue
<1>1. SUFFICES ASSUME reader.pc = "product", NEW s \in Stream
               PROVE  /\ LoadsUpTo(s, reader.utc) # {}
                      /\ InLog(LastLoad(s, reader.utc), eventCache.known) =>
                           LastLoad(s, reader.utc).payload = PayloadOf[reader.product][s]
  BY TypesGiven DEF OkIsTrue
<1> DEFINE u == reader.utc
           n == eventCache.known
           U == UpTo(s, u, n)
           L == LoadsUpTo(s, u)
<1>2. u \in Nat /\ n \in Nat /\ n <= Len(events) /\ Len(events) \in Nat
  BY LenProperties DEF TypeInv, ReaderType
<1>3. PICK i \in U : Holds(i, U) /\ events[i].product = reader.product
  BY <1>1 DEF AnswerInv
<1>4. /\ i \in 1 .. Len(events) /\ events[i].stream = s /\ events[i].utc <= u
      /\ events[i].utc \in Nat
  BY <1>2, <1>3, LineTypes DEF UpTo
<1>5. PICK k \in 1 .. Len(loads) : Tells(i, k)
  BY <1>4 DEF SourceInv
<1>6. loads[k].stream = s /\ loads[k].at = events[i].utc /\ k \in L
  BY <1>4, <1>5, LoadTypes DEF Tells, LoadsUpTo
<1>7. loads[k].payload = PayloadOf[reader.product][s]
  <2>1. reader.product # None
    BY <1>1, ConstantTypes DEF TypeInv
  <2> QED
    BY <1>3, <1>4, <1>5, <2>1 DEF Tells
<1>8. \E x \in L : \A j \in L : loads[j].at <= loads[x].at
  BY <1>2, <1>6 DEF LoadsInv
<1> DEFINE x == CHOOSE y \in L : \A j \in L : loads[j].at <= loads[y].at
<1>9. /\ x \in L /\ loads[k].at <= loads[x].at
      /\ LastLoad(s, u) = loads[x]
  BY <1>6, <1>8 DEF LastLoad
<1>10. /\ x \in 1 .. Len(loads) /\ loads[x].stream = s /\ loads[x].at <= u
       /\ loads[x].at \in Nat /\ loads[k].at \in Nat
  BY <1>9, LoadTypes DEF LoadsUpTo
<1> HIDE DEF x
<1>11. ASSUME InLog(loads[x], n)
       PROVE  x = k
  <2>1. PICK j \in 1 .. n : events[j].stream = s /\ events[j].utc = loads[x].at
    BY <1>10, <1>11 DEF InLog
  <2>2. j \in U
    BY <1>10, <2>1 DEF UpTo
  <2>3. events[j].utc <= events[i].utc
    BY <1>3, <1>4, <1>10, <2>1, <2>2 DEF Holds
  <2>4. loads[x].at = loads[k].at
    BY <1>6, <1>9, <1>10, <2>1, <2>3
  <2> QED
    BY <1>6, <1>10, <2>4 DEF LoadsInv
<1> HIDE DEF u, n, U
<1>12. LastLoad(s, u) = loads[x] /\ L # {}
  BY <1>6, <1>9
<1>13. InLog(LastLoad(s, u), n) => LastLoad(s, u).payload = PayloadOf[reader.product][s]
  BY <1>7, <1>11, <1>12
<1> QED
  BY <1>12, <1>13 DEF u, n

(***************************************************************************)
(* If no payload belongs to two streams, then whenever t2d is given a      *)
(* product, every stream had loaded something by the time asked for, and a *)
(* stream whose last load is in the lines at hand carried that product's   *)
(* payload.                                                                *)
(***************************************************************************)
THEOREM OkCorrect ==
  ASSUME OwnPayloads
  PROVE  Spec => []OkIsTrue
<1> DEFINE Inv == TypeInv /\ PastPart /\ LinesInv
           JInv == IndexInv /\ LoadsInv /\ SourceInv /\ AnswerInv
<1>1. Init => JInv
  <2> SUFFICES ASSUME Init
               PROVE  JInv
    OBVIOUS
  <2>1. Len(events) = 0 /\ Len(loads) = 0 /\ DOMAIN loads = {}
    BY EmptySeq DEF Init
  <2>2. IndexInv
    BY DEF Init, IndexInv, IndexSound, Idle
  <2>3. LoadsInv /\ SourceInv
    BY <2>1 DEF LoadsInv, LoadsUpTo, SourceInv
  <2>4. AnswerInv
    BY DEF Init, AnswerInv, AtRest
  <2> QED
    BY <2>2, <2>3, <2>4
<1>2. Inv /\ JInv /\ [Next]_vars => JInv'
  BY IndexStep, LoadsStep, SourceStep, AnswerStep
<1>3. Inv /\ JInv => OkIsTrue
  BY OkGiven
<1> QED
  BY <1>1, <1>2, <1>3, TypesAlways, PTL DEF Spec

================================================================================
