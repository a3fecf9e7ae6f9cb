---------------------------- MODULE WeightsRegistry ----------------------------
(***************************************************************************)
(* The registry of beamformer weights (weights_registry.py): plain files   *)
(* that deploy_bf_weights and t3-weights-watch write and t2d reads without *)
(* a lock.  A product file holds what one set of weights is, the payload   *)
(* index names the product of a payload, and the event log says when which *)
(* stream loaded what.  t2d asks it once per gulp for the product that all *)
(* streams carried at the gulp's time, and clusters with that product's    *)
(* beam widths (apps/t2d.py, _sky_table).                                  *)
(*                                                                         *)
(* The reads and the writes of files are steps of their own, since the     *)
(* processes interleave between them; only the test for a product file and *)
(* its first write, and the lookup of a payload and the line it goes into, *)
(* count as one.  A file is replaced atomically, and the event log only    *)
(* grows, by whole lines.                                                  *)
(***************************************************************************)
EXTENDS Integers, Sequences, FiniteSets, FiniteSetsExt

CONSTANTS
  Product, Payload,
  Stream,       \* the streams, numbered
  PayloadOf,    \* the payload of each stream of each product
  Default,      \* the payload bfcorr loads by itself when it restarts
  Uploader,     \* runs of deploy_bf_weights
  Watcher,      \* t3-weights-watch
  Width,        \* beam widths a product may carry
  GivenWidth,   \* those an upload of it may come with, None included
  None,         \* no product, payload or width
  MaxTime,      \* bound: the clock stops here
  MaxUploads,   \* bound on uploads
  MaxFaults     \* bound on faults of a writer and restarts of bfcorr

ASSUME RegistryAssumption ==
  /\ Stream \subseteq Nat /\ Stream # {} /\ IsFiniteSet(Stream)
  /\ PayloadOf \in [Product -> [Stream -> Payload]]
  /\ Default \in [Stream -> Payload]
  /\ GivenWidth \in [Product -> SUBSET (Width \union {None})]
  /\ None \notin Product \union Payload \union Width
  /\ Watcher \notin Uploader
  /\ MaxTime \in Nat /\ MaxUploads \in Nat /\ MaxFaults \in Nat

VARIABLES
  \* the files
  file,         \* products/<id>.json: width and version (0: no such file)
  index,        \* payload_index.json
  events,       \* live_events.jsonl, with the tick each line was written in
  \* the streams
  loads,        \* what each stream loaded when
  unseen,       \* the loads of bfcorr itself that the watcher has yet to see
  \* the processes
  writer,       \* where each writer is, and what it has read
  reader,       \* where t2d's lookup is
  eventCache,   \* _events_cache: modification time, lines read
  productCache, \* _product_cache and _product_identities
  width,        \* _sky_params: the widths t2d clusters with, per product
  \* time and bounds
  now,          \* the clock, in ticks of the filesystem's time stamps
  overlap,      \* two uploads were under way at once
  uploads, faults

vars == <<file, index, events, loads, unseen, writer, reader, eventCache,
          productCache, width, now, overlap, uploads, faults>>

readerVars == <<reader, eventCache, productCache, width>>

Writer == Uploader \union {Watcher}

Idle == [pc |-> "idle", product |-> None, width |-> None,
         index |-> [d \in Payload |-> None], load |-> None,
         streams |-> {}]

AtRest == [pc |-> "idle", utc |-> 0, stat |-> 0, product |-> None]

Init ==
  /\ file = [p \in Product |-> [version |-> 0, width |-> None]]
  /\ index = [d \in Payload |-> None]
  /\ events = <<>>
  /\ loads = <<>>
  /\ unseen = {}
  /\ writer = [w \in Writer |-> Idle]
  /\ reader = AtRest
  /\ eventCache = [tick |-> -1, known |-> 0]
  /\ productCache = [p \in Product |-> [version |-> 0, width |-> None]]
  /\ width = [p \in Product |-> None]
  /\ now = 0 /\ overlap = FALSE /\ uploads = 0 /\ faults = 0
-----------------------------------------------------------------------------
(***************************************************************************)
(* The writers                                                             *)
(***************************************************************************)

Exists(p) == file[p].version > 0

\* A writer moves on: label and updates of what it holds.
Moves(w, label, held) ==
  writer' = [writer EXCEPT ![w] = [held EXCEPT !.pc = label]]

ReplaceFile(p, x) ==
  file' = [file EXCEPT ![p] = [version |-> @.version + 1, width |-> x]]

LacksWidth(p) == Exists(p) /\ file[p].width = None

\* deploy_bf_weights (external): record the product, then per stream push
\* the payload and record the load.  record_product writes a new product; a
\* known one keeps its record and at most has a missing width filled in.
StartUpload(w) ==
  /\ writer[w].pc = "idle" /\ uploads < MaxUploads
  /\ uploads' = uploads + 1
  /\ overlap' = (overlap \/ \E v \in Uploader : writer[v].pc # "idle")
  /\ \E p \in Product : \E x \in GivenWidth[p] :
       /\ IF Exists(p) THEN UNCHANGED file ELSE ReplaceFile(p, x)
       /\ Moves(w, IF LacksWidth(p) /\ x # None THEN "fill" ELSE "index",
                [Idle EXCEPT !.product = p, !.width = x, !.streams = Stream])
  /\ UNCHANGED <<index, events, loads, unseen, readerVars, now, faults>>

\* set_product_fwhm, its read: a width that is there is kept.
Backfill(p) ==
  /\ writer[Watcher].pc = "idle"
  /\ LacksWidth(p)
  /\ \E x \in Width : Moves(Watcher, "fill", [Idle EXCEPT !.product = p, !.width = x])
  /\ UNCHANGED <<file, index, events, loads, unseen, readerVars, now, overlap,
                 uploads, faults>>

\* set_product_fwhm, its write.
Fill(w) ==
  LET me == writer[w]
  IN  /\ me.pc = "fill"
      /\ ReplaceFile(me.product, me.width)
      /\ IF w = Watcher THEN Moves(w, "idle", Idle) ELSE Moves(w, "index", me)
      /\ UNCHANGED <<index, events, loads, unseen, readerVars, now, overlap,
                     uploads, faults>>

LoadIndex(w) ==
  /\ writer[w].pc = "index"
  /\ Moves(w, "store", [writer[w] EXCEPT !.index = index])
  /\ UNCHANGED <<file, index, events, loads, unseen, readerVars, now, overlap,
                 uploads, faults>>

PayloadsOf(p) == {PayloadOf[p][s] : s \in Stream}

\* Mutant: a payload that another product has in the index keeps it.
IndexedIfMissing(copy, p) ==
  [d \in Payload |-> IF d \in PayloadsOf(p) /\ copy[d] = None THEN p ELSE copy[d]]

\* The index is rewritten from the copy, if the copy lacks anything.
Indexed(copy, p) ==
  IF \A d \in PayloadsOf(p) : copy[d] = p THEN index
  ELSE [d \in Payload |-> IF d \in PayloadsOf(p) THEN p ELSE copy[d]]

StoreIndex(w) ==
  LET me == writer[w]
  IN  /\ me.pc = "store"
      /\ index' = Indexed(me.index, me.product)
      /\ Moves(w, "push", [me EXCEPT !.index = Idle.index])
      /\ UNCHANGED <<file, events, loads, unseen, readerVars, now, overlap,
                     uploads, faults>>

\* A stream takes seconds to load: never twice within a tick.
Loads(s, payload) ==
  /\ \A i \in DOMAIN loads : loads[i].stream = s => loads[i].at < now
  /\ loads' = Append(loads, [stream |-> s, at |-> now, payload |-> payload])

Push(w) ==
  /\ writer[w].pc = "push"
  /\ \E s \in writer[w].streams :
       /\ \A t \in writer[w].streams : s <= t
       /\ Loads(s, PayloadOf[writer[w].product][s])
       /\ Moves(w, "record", [writer[w] EXCEPT !.streams = @ \ {s},
                                             !.load = Len(loads) + 1])
  /\ UNCHANGED <<file, index, events, unseen, readerVars, now, overlap, uploads,
                 faults>>

\* bfcorr restarts (external) and a stream is back on its defaults.
Reload(s) ==
  /\ faults < MaxFaults
  /\ faults' = faults + 1
  /\ Loads(s, Default[s])
  /\ unseen' = unseen \union {Len(loads) + 1}
  /\ UNCHANGED <<file, index, events, writer, readerVars, now, overlap, uploads>>

\* The watcher finds such a load in the log, some time later.
Notice ==
  /\ writer[Watcher].pc = "idle"
  /\ \E i \in unseen : /\ Moves(Watcher, "record", [Idle EXCEPT !.load = i])
                       /\ unseen' = unseen \ {i}
  /\ UNCHANGED <<file, index, events, loads, readerVars, now, overlap, uploads,
                 faults>>

\* The product is looked up once, and stored in the line.
Line(me) ==
  [stream |-> loads[me.load].stream, utc |-> loads[me.load].at, tick |-> now,
   product |-> index[loads[me.load].payload], upload |-> me.product]

\* record_live_event, some time after the load.
RecordEvent(w) ==
  LET me == writer[w]
  IN  /\ me.pc = "record"
      /\ events' = Append(events, Line(me))
      /\ IF me.streams = {} THEN Moves(w, "idle", Idle)
         ELSE Moves(w, "push", [me EXCEPT !.load = None])
      /\ UNCHANGED <<file, index, loads, unseen, readerVars, now, overlap, uploads,
                     faults>>

\* A writer dies between two of its steps, or gives up on a stream.
WriterDies(w) ==
  /\ writer[w].pc # "idle" /\ faults < MaxFaults
  /\ faults' = faults + 1
  /\ Moves(w, "idle", Idle)
  /\ UNCHANGED <<file, index, events, loads, unseen, readerVars, now, overlap,
                 uploads>>
-----------------------------------------------------------------------------
(***************************************************************************)
(* t2d's lookup                                                            *)
(***************************************************************************)

ModifiedAt == events[Len(events)].tick

\* The lines up to time u among the first n, and of those the one that holds
\* for stream s: the latest by its own time, the later line if equal.
UpTo(s, u, n) == {i \in 1 .. n : events[i].stream = s /\ events[i].utc <= u}

\* Mutant: the last line holds, whatever its time.
LiveLineUnsorted(s, u, n) == Max(UpTo(s, u, n))

LiveLine(s, u, n) ==
  CHOOSE i \in UpTo(s, u, n) :
    \A j \in UpTo(s, u, n) : \/ events[j].utc < events[i].utc
                             \/ events[j].utc = events[i].utc /\ j <= i

Reporting(u, n) == {s \in Stream : UpTo(s, u, n) # {}}

ProductsAt(u, n) == {events[LiveLine(s, u, n)].product : s \in Reporting(u, n)}

\* product_at: one identified product on every stream, or no answer.
StatusOf(u, n) ==
  IF Reporting(u, n) = {} THEN "none"
  ELSE IF Reporting(u, n) # Stream THEN "partial"
  ELSE IF None \in ProductsAt(u, n) THEN "unknown"
  ELSE IF Cardinality(ProductsAt(u, n)) # 1 THEN "partial" ELSE "ok"

\* With the first n lines at hand and time u asked for: no single product
\* ends the lookup.
Concludes(u, n) ==
  IF StatusOf(u, n) = "ok"
  THEN \E p \in ProductsAt(u, n) :
         reader' = [AtRest EXCEPT !.pc = "product", !.utc = u, !.product = p]
  ELSE reader' = AtRest

\* _sky_table for a gulp that began at some time up to now.  No file, no
\* answer; the lines are in the cache while the time stamp is the same.
BeginLookup ==
  /\ reader.pc = "idle"
  /\ events # <<>>
  /\ \E u \in 0 .. now :
       IF eventCache.tick = ModifiedAt THEN Concludes(u, eventCache.known)
       ELSE reader' = [AtRest EXCEPT !.pc = "read", !.utc = u, !.stat = ModifiedAt]
  /\ UNCHANGED <<file, index, events, loads, unseen, writer, eventCache,
                 productCache, width, now, overlap, uploads, faults>>

\* Mutant: the time stamp is the one the file has once it has been read.
CachedEventsStampedAfter == [tick |-> now, known |-> Len(events)]

\* The lines are cached under the time stamp from before they were read.
CachedEvents == [tick |-> reader.stat, known |-> Len(events)]

ReadEvents ==
  /\ reader.pc = "read"
  /\ eventCache' = CachedEvents
  /\ Concludes(reader.utc, Len(events))
  /\ UNCHANGED <<file, index, events, loads, unseen, writer, productCache, width,
                 now, overlap, uploads, faults>>

\* Mutant: a record that was read once is kept for good.
ProductReadOnce(p) == IF productCache[p].version > 0 THEN productCache[p] ELSE file[p]

\* product: the record, from the cache while the file is the same one.
ProductRead(p) ==
  IF productCache[p].version = file[p].version THEN productCache[p] ELSE file[p]

ReadProduct ==
  LET p == reader.product
      rec == ProductRead(p)
  IN  /\ reader.pc = "product"
      /\ productCache' = [productCache EXCEPT ![p] = rec]
      /\ width' = [width EXCEPT ![p] = rec.width]
      /\ reader' = AtRest
      /\ UNCHANGED <<file, index, events, loads, unseen, writer, eventCache, now,
                     overlap, uploads, faults>>
-----------------------------------------------------------------------------
Tick ==
  /\ now < MaxTime
  /\ now' = now + 1
  /\ UNCHANGED <<file, index, events, loads, unseen, writer, readerVars, overlap,
                 uploads, faults>>

Upload(w) ==
  StartUpload(w) \/ LoadIndex(w) \/ StoreIndex(w) \/ Push(w)

Lookup == BeginLookup \/ ReadEvents \/ ReadProduct

Next ==
  \/ \E w \in Uploader : Upload(w)
  \/ \E w \in Writer : Fill(w) \/ RecordEvent(w) \/ WriterDies(w)
  \/ \E p \in Product : Backfill(p)
  \/ \E s \in Stream : Reload(s)
  \/ Notice
  \/ Lookup
  \/ Tick

Spec == Init /\ [][Next]_vars
-----------------------------------------------------------------------------
(***************************************************************************)
(* Properties                                                              *)
(***************************************************************************)

Versioned == [version : Nat, width : Width \union {None}]

TypeOK ==
  /\ file \in [Product -> Versioned] /\ productCache \in [Product -> Versioned]
  /\ index \in [Payload -> Product \union {None}]
  /\ \A i \in DOMAIN events :
       events[i] \in [stream : Stream, utc : 0 .. now, tick : 0 .. now,
                      product : Product \union {None}, upload : Product \union {None}]
  /\ \A i \in DOMAIN loads :
       loads[i] \in [stream : Stream, at : 0 .. now, payload : Payload]
  /\ unseen \subseteq DOMAIN loads
  /\ \A w \in Writer :
       writer[w].pc \in {"idle", "fill", "index", "store", "push", "record"}
  /\ reader.pc \in {"idle", "read", "product"} /\ reader.utc \in 0 .. now
  /\ eventCache.known \in 0 .. Len(events)
  /\ width \in [Product -> Width \union {None}]

\* What stream s carried at time u: its loads up to then, the latest of them.
LoadsUpTo(s, u) == {i \in DOMAIN loads : loads[i].stream = s /\ loads[i].at <= u}

LastLoad(s, u) ==
  loads[CHOOSE i \in LoadsUpTo(s, u) :
          \A j \in LoadsUpTo(s, u) : loads[j].at <= loads[i].at]

InLog(load, n) ==
  \E i \in 1 .. n : events[i].stream = load.stream /\ events[i].utc = load.at

(***************************************************************************)
(* A product is named only if every stream had loaded something by the     *)
(* time asked for, and a stream whose last load the log tells of carried   *)
(* that product's payload: never the weights of another time, of some of   *)
(* the streams, or of another product that shares a payload.               *)
(***************************************************************************)
OkIsTrue ==
  /\ TypeOK
  /\ reader.pc = "product" =>
       \A s \in Stream :
         /\ LoadsUpTo(s, reader.utc) # {}
         /\ InLog(LastLoad(s, reader.utc), eventCache.known) =>
              LastLoad(s, reader.utc).payload = PayloadOf[reader.product][s]

(***************************************************************************)
(* While no two uploads are under way at once, every line an upload writes *)
(* names the product it uploads, also when an earlier upload of it died    *)
(* half way and when another product shares a payload with it.             *)
(***************************************************************************)
UploadsNamed ==
  ~ overlap =>
    \A i \in DOMAIN events :
      events[i].upload # None => events[i].product = events[i].upload

(***************************************************************************)
(* The cached lines are used only if they are all there are, but for lines *)
(* of the very tick in which the last cached one was written: the cache    *)
(* cannot tell the file before them from the file after them.              *)
(***************************************************************************)
StaleWithinTickOnly ==
  events # <<>> /\ eventCache.tick = ModifiedAt =>
    \A i \in eventCache.known + 1 .. Len(events) :
      events[i].tick = events[eventCache.known].tick

(***************************************************************************)
(* A gulp whose product is named is clustered with the widths that the     *)
(* product's file has by then, also when the watcher has filled them in    *)
(* since the product was first used.                                       *)
(***************************************************************************)
WidthsFollow ==
  [][reader.pc = "product" /\ reader'.pc = "idle" =>
       width'[reader.product] = file[reader.product].width]_vars

=============================================================================
