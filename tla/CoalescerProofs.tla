--------------------------- MODULE CoalescerProofs ---------------------------
(***************************************************************************)
(* Theorems about the coalescer, for every set of deliveries, jobs and     *)
(* keys, and every value of the coalescing parameters.                     *)
(***************************************************************************)
EXTENDS Coalescer, FiniteSetTheorems, TLAPS

USE BatchAssumption, ParameterAssumption

LEMMA MinOfTwo ==
  ASSUME NEW i \in Int, NEW j \in Int
  PROVE  Min({i, j}) \in Int /\ Min({i, j}) <= i /\ Min({i, j}) <= j
<1>1. \E m \in {i, j} : \A n \in {i, j} : m <= n
  BY SMT
<1> QED
  BY <1>1 DEF Min

LEMMA WaitTimeoutType ==
  ASSUME TypeOK, NEW k \in Key
  PROVE  /\ WaitTimeout(k) \in Int /\ MaxLeft(k) \in Int /\ QuietLeft(k) \in Int
         /\ WaitTimeout(k) <= MaxLeft(k)
         /\ QuietLeft(k) > 0 => WaitTimeout(k) <= QuietLeft(k)
<1>1. MaxLeft(k) \in Int /\ QuietLeft(k) \in Int
  BY DEF TypeOK, MaxLeft, QuietLeft
<1>2. CASE QuietLeft(k) > 0
  BY <1>1, <1>2, MinOfTwo DEF WaitTimeout
<1>3. CASE ~ (QuietLeft(k) > 0)
  BY <1>1, <1>3 DEF WaitTimeout
<1> QED
  BY <1>1, <1>2, <1>3

\* What a flush does to the entry and to the time stamps of its key.
LEMMA FlushType ==
  ASSUME TypeOK, NEW k \in Key, Flush(k)
  PROVE  /\ pending' = [pending EXCEPT ![k] = {}]
         /\ pendingJobs' \in [Key -> Nat] /\ pendingVetoed' \in [Key -> Nat]
         /\ pendingFirst' \in [Key -> Nat] /\ pendingLast' \in [Key -> Nat]
         /\ wakeAt' \in [Key -> Int] /\ flushed' \in [Key -> Int]
<1>1. Remember(k) \in [Key -> Int]
  BY DEF TypeOK, Remember, NotFlushed
<1>2. flushed' = Remember(k)
  BY DEF Flush, PopEntry, PopTimes
<1>3. /\ pending' = [pending EXCEPT ![k] = {}]
      /\ pendingJobs' \in [Key -> Nat] /\ pendingVetoed' \in [Key -> Nat]
  BY DEF TypeOK, Flush, PopEntry
<1>4. /\ pendingFirst' \in [Key -> Nat] /\ pendingLast' \in [Key -> Nat]
      /\ wakeAt' \in [Key -> Int]
  BY DEF TypeOK, Flush, PopEntry, PopTimes
<1> QED
  BY <1>1, <1>2, <1>3, <1>4

\* The row or the clustering of a flush, whatever its outcome.
LEMMA RowType ==
  ASSUME NEW k \in Key, NEW o, NEW n
  PROVE  /\ RowOf(k, o, n).key = k /\ RowOf(k, o, n).from = pending[k]
         /\ RowOf(k, o, n).outcome = o /\ RowOf(k, o, n).jobs = pendingJobs[k]
  BY DEF RowOf

LEMMA TypeInit == Init => TypeOK
  BY DEF Init, TypeOK, Groups, Unsent, NotFlushed

LEMMA TypeStep == TypeOK /\ [Next]_vars => TypeOK'
<1> SUFFICES ASSUME TypeOK, [Next]_vars
             PROVE  TypeOK'
  OBVIOUS
<1> USE DEF TypeOK
<1>1. ASSUME NEW b \in Batch, ReadFails(b)
      PROVE  TypeOK'
  BY <1>1 DEF ReadFails, Lost, memory, Groups
<1>2. ASSUME NEW b \in Batch, Handle(b)
      PROVE  TypeOK'
  <2>1. b.key \in Key /\ b.vetoed \in Nat
    OBVIOUS
  <2>2. WakeOnBatch(b) \in Int
    BY <2>1 DEF WakeOnBatch
  <2>3. /\ pending' \in [Key -> SUBSET Batch] /\ pendingJobs' \in [Key -> Nat]
        /\ pendingVetoed' \in [Key -> Nat]
    BY <1>2, <2>1 DEF Handle, CountVetoed
  <2>4. /\ pendingFirst' \in [Key -> Nat] /\ pendingLast' \in [Key -> Nat]
        /\ wakeAt' \in [Key -> Int]
    BY <1>2, <2>1, <2>2 DEF Handle
  <2> QED
    BY <1>2, <2>3, <2>4 DEF Handle, Groups
<1>3. ASSUME NEW b \in Batch, HandleRaises(b)
      PROVE  TypeOK'
  <2>1. pendingVetoed' \in [Key -> Nat]
    BY <1>3 DEF HandleRaises, CountVetoed
  <2> QED
    BY <1>3, <2>1 DEF HandleRaises, Groups
<1>4. ASSUME NEW k \in Key, Sleep(k)
      PROVE  TypeOK'
  BY <1>4, WaitTimeoutType DEF Sleep, Groups
<1>5. ASSUME NEW k \in Key, FlushSkipped(k) \/ FlushQuiet(k)
      PROVE  TypeOK'
  <2>1. PICK o \in {"skipped", "quiet"} : rows' = rows \union {RowOf(k, o, 0)}
    BY <1>5 DEF FlushSkipped, FlushQuiet
  <2> QED
    BY <1>5, <2>1, FlushType, RowType DEF FlushSkipped, FlushQuiet, Groups, Outcomes
<1>6. ASSUME NEW k \in Key, FlushRaises(k)
      PROVE  TypeOK'
  BY <1>6, FlushType DEF FlushRaises, Groups
<1>7. ASSUME NEW k \in Key, FlushToClustering(k)
      PROVE  TypeOK'
  <2>1. PICK n : tasks' = tasks \union {RowOf(k, "clustered", n)}
    BY <1>7 DEF FlushToClustering
  <2> QED
    BY <1>7, <2>1, FlushType, RowType DEF FlushToClustering, Groups, Outcomes
<1>8. ASSUME NEW t \in tasks, ClusteringEnds(t) \/ ClusteringRaises(t)
      PROVE  TypeOK'
  <2>1. t.from \subseteq Batch /\ \A g \in Groups' : g \in Groups
    BY <1>8 DEF ClusteringEnds, ClusteringRaises, Groups
  <2> QED
    BY <1>8, <2>1 DEF ClusteringEnds, ClusteringRaises, memory
<1>9. CASE Restart
  <2>1. dead' \subseteq Batch
    BY <1>9 DEF Restart
  <2>2. \A g \in Groups' : g \in Groups
    BY <1>9 DEF Restart, Groups
  <2> QED
    BY <1>9, <2>1, <2>2 DEF Restart, NotFlushed
<1>10. CASE Tick
  BY <1>10 DEF Tick, memory, Groups
<1>11. CASE UNCHANGED vars
  BY <1>11 DEF vars, memory, Groups
<1> QED
  BY <1>1, <1>2, <1>3, <1>4, <1>5, <1>6, <1>7, <1>8, <1>9, <1>10, <1>11
  DEF Next, RunWaiter

(***************************************************************************)
(* Every variable of the coalescer keeps its type.                         *)
(***************************************************************************)
THEOREM TypeCorrect == Spec => []TypeOK
  BY TypeInit, TypeStep, PTL DEF Spec
-----------------------------------------------------------------------------
(***************************************************************************)
(* Where every batch is.  EveryBatchHasOneFate alone is not inductive: it  *)
(* needs that what is held or decided was taken in, under its own key.     *)
(***************************************************************************)
HeldPart ==
  \A k \in Key : \A b \in pending[k] : b.key = k /\ Taken(b) /\ b \notin dead

GroupPart ==
  \A g \in Groups :
    /\ g.from # {}
    /\ \A b \in g.from : Taken(b) /\ b \notin dead /\ b.key = g.key /\ b \notin pending[b.key]

ApartPart ==
  /\ \A g, h \in Groups : \A b \in Batch : b \in g.from /\ b \in h.from => g = h
  /\ rows \intersect tasks = {}

Placed(b) == b \in pending[b.key] \/ b \in dead \/ \E g \in Groups : b \in g.from

PlacedPart == \A b \in Batch : /\ Taken(b) => Placed(b)
                               /\ b \in dead => Taken(b)

FateInv == HeldPart /\ GroupPart /\ ApartPart /\ PlacedPart

LEMMA FateInit == Init => FateInv
  BY DEF Init, FateInv, HeldPart, GroupPart, ApartPart, PlacedPart, Placed, Groups,
         Taken, Unsent

\* A flush that hands its entry, whole, to the new group r.
LEMMA FlushKeepsFate ==
  ASSUME TypeOK, FateInv, NEW k \in Key, Flush(k), NEW r,
         r.from = pending[k], r.key = k,
         \/ rows' = rows \union {r} /\ tasks' = tasks
         \/ rows' = rows /\ tasks' = tasks \union {r},
         UNCHANGED <<arrived, dead>>
  PROVE  FateInv'
<1> USE DEF TypeOK, FateInv
<1>1. /\ pending' = [pending EXCEPT ![k] = {}] /\ pending[k] # {}
      /\ Groups' = Groups \union {r}
  BY FlushType DEF Flush, Due, IsOpen, Groups
<1>2. \A b \in pending[k] : b \in Batch /\ b.key = k /\ Taken(b) /\ b \notin dead
                            /\ \A g \in Groups : b \notin g.from
  BY DEF HeldPart, GroupPart
<1>3. r \notin Groups
  BY <1>1, <1>2
<1>4. HeldPart'
  BY <1>1 DEF HeldPart, Taken
<1>5. GroupPart'
  BY <1>1, <1>2 DEF GroupPart, Taken
<1>6. ApartPart'
  <2>1. rows' \intersect tasks' = {}
    BY <1>3 DEF ApartPart, Groups
  <2>2. \A g, h \in Groups' : \A b \in Batch : b \in g.from /\ b \in h.from => g = h
    BY <1>1, <1>2 DEF ApartPart
  <2> QED
    BY <2>1, <2>2 DEF ApartPart
<1>7. PlacedPart'
  <2> SUFFICES ASSUME NEW b \in Batch
               PROVE  /\ Taken(b)' => Placed(b)'
                      /\ b \in dead' => Taken(b)'
    BY DEF PlacedPart
  <2>1. b.key \in Key /\ (Taken(b)' <=> Taken(b)) /\ (b \in dead => Taken(b))
    BY DEF Taken, PlacedPart
  <2>2. ASSUME Placed(b)
        PROVE  Placed(b)'
    BY <1>1, <2>1, <2>2 DEF Placed
  <2> QED
    BY <2>1, <2>2 DEF PlacedPart
<1> QED
  BY <1>4, <1>5, <1>6, <1>7

LEMMA FateStep == TypeOK /\ FateInv /\ [Next]_vars => FateInv'
<1> SUFFICES ASSUME TypeOK, FateInv, [Next]_vars
             PROVE  FateInv'
  OBVIOUS
<1> USE DEF TypeOK, FateInv
<1>1. ASSUME NEW b \in Batch, ReadFails(b)
      PROVE  FateInv'
  BY <1>1 DEF ReadFails, CanArrive, Lost, Unsent, memory, Groups, HeldPart, GroupPart,
              ApartPart, PlacedPart, Placed, Taken
<1>2. ASSUME NEW b \in Batch, Handle(b)
      PROVE  FateInv'
  <2>1. /\ b.key \in Key /\ ~ Taken(b) /\ UNCHANGED <<rows, tasks, dead>>
        /\ pending' = [pending EXCEPT ![b.key] = @ \union {b}]
        /\ Groups' = Groups
        /\ \A c \in Batch : Taken(c)' <=> Taken(c) \/ c = b
    BY <1>2 DEF Handle, CanArrive, Taken, Unsent, Groups
  <2>2. HeldPart'
    BY <2>1 DEF HeldPart, PlacedPart
  <2>3. GroupPart'
    BY <2>1 DEF GroupPart
  <2>4. ApartPart'
    BY <2>1 DEF ApartPart
  <2>5. PlacedPart'
    BY <2>1 DEF PlacedPart, Placed
  <2> QED
    BY <2>2, <2>3, <2>4, <2>5
<1>3. ASSUME NEW b \in Batch, HandleRaises(b)
      PROVE  FateInv'
  <2>1. /\ ~ Taken(b) /\ UNCHANGED <<rows, tasks, pending>>
        /\ dead' = dead \union {b} /\ Groups' = Groups
        /\ \A c \in Batch : Taken(c)' <=> Taken(c) \/ c = b
    BY <1>3 DEF HandleRaises, CanArrive, Taken, Unsent, Groups
  <2>2. HeldPart' /\ GroupPart' /\ ApartPart'
    BY <2>1 DEF HeldPart, GroupPart, ApartPart
  <2>3. PlacedPart'
    BY <2>1 DEF PlacedPart, Placed
  <2> QED
    BY <2>2, <2>3
<1>4. ASSUME NEW k \in Key, Sleep(k)
      PROVE  FateInv'
  BY <1>4 DEF Sleep, HeldPart, GroupPart, ApartPart, PlacedPart, Placed, Groups, Taken
<1>5. ASSUME NEW k \in Key, FlushSkipped(k) \/ FlushQuiet(k) \/ FlushToClustering(k)
      PROVE  FateInv'
  <2>1. Flush(k) /\ UNCHANGED <<arrived, dead>>
    BY <1>5 DEF FlushSkipped, FlushQuiet, FlushToClustering
  <2>2. PICK o, n :
          \/ rows' = rows \union {RowOf(k, o, n)} /\ tasks' = tasks
          \/ rows' = rows /\ tasks' = tasks \union {RowOf(k, o, n)}
    BY <1>5 DEF FlushSkipped, FlushQuiet, FlushToClustering
  <2> QED
    BY <2>1, <2>2, RowType, FlushKeepsFate
<1>6. ASSUME NEW k \in Key, FlushRaises(k)
      PROVE  FateInv'
  <2>1. /\ pending' = [pending EXCEPT ![k] = {}] /\ dead' = dead \union pending[k]
        /\ UNCHANGED <<rows, tasks, arrived>> /\ Groups' = Groups
        /\ \A c \in Batch : Taken(c)' <=> Taken(c)
    BY <1>6, FlushType DEF FlushRaises, Groups, Taken
  <2>2. \A b \in pending[k] : b \in Batch /\ b.key = k /\ Taken(b)
                              /\ \A g \in Groups : b \notin g.from
    BY DEF HeldPart, GroupPart
  <2>3. HeldPart'
    BY <2>1, <2>2 DEF HeldPart
  <2>4. GroupPart' /\ ApartPart'
    BY <2>1, <2>2 DEF GroupPart, ApartPart
  <2>5. PlacedPart'
    BY <2>1, <2>2 DEF PlacedPart, Placed
  <2> QED
    BY <2>3, <2>4, <2>5
<1>7. ASSUME NEW t \in tasks, ClusteringEnds(t)
      PROVE  FateInv'
  <2>1. /\ rows' = rows \union {t} /\ tasks' = tasks \ {t} /\ Groups' = Groups
        /\ UNCHANGED <<arrived, dead, pending>>
    BY <1>7 DEF ClusteringEnds, memory, Groups
  <2> QED
    BY <2>1 DEF HeldPart, GroupPart, ApartPart, PlacedPart, Placed, Taken
<1>8. ASSUME NEW t \in tasks, ClusteringRaises(t)
      PROVE  FateInv'
  <2>1. /\ rows' = rows /\ tasks' = tasks \ {t} /\ Groups' \subseteq Groups
        /\ t \in Groups /\ t \notin Groups' /\ Groups' = Groups \ {t}
        /\ dead' = dead \union t.from /\ t.from \subseteq Batch
        /\ UNCHANGED <<arrived, pending>>
    BY <1>8 DEF ClusteringRaises, memory, Groups, ApartPart
  <2>2. \A b \in t.from : Taken(b) /\ b \notin pending[b.key]
                          /\ \A g \in Groups' : b \notin g.from
    BY <2>1 DEF GroupPart, ApartPart
  <2>3. HeldPart'
    BY <2>1, <2>2 DEF HeldPart, Taken
  <2>4. GroupPart'
    BY <2>1, <2>2 DEF GroupPart, Taken
  <2>5. ApartPart'
    BY <2>1 DEF ApartPart
  <2>6. PlacedPart'
    BY <2>1, <2>2 DEF PlacedPart, Placed, Taken
  <2> QED
    BY <2>3, <2>4, <2>5, <2>6
<1>9. CASE Restart
  <2>1. /\ rows' = rows /\ tasks' = {} /\ Groups' = rows /\ arrived' = arrived
        /\ pending' = [k \in Key |-> {}]
        /\ dead' = dead \union {b \in Batch : \/ b \in pending[b.key]
                                              \/ \E t \in tasks : b \in t.from}
    BY <1>9 DEF Restart, Groups
  <2>2. HeldPart'
    BY <2>1 DEF HeldPart
  <2>3. GroupPart'
    <3>1. \A g \in rows : \A b \in g.from : b \notin pending[b.key]
                          /\ \A t \in tasks : b \notin t.from
      BY DEF GroupPart, ApartPart, Groups
    <3> QED
      BY <2>1, <3>1 DEF GroupPart, Taken, Groups
  <2>4. ApartPart'
    BY <2>1 DEF ApartPart, Groups
  <2>5. PlacedPart'
    <3>1. \A b \in Batch : Placed(b) => Placed(b)'
      BY <2>1 DEF Placed, Groups
    <3>2. \A b \in Batch : b \in dead' => Taken(b)
      BY <2>1 DEF PlacedPart, HeldPart, GroupPart, Groups
    <3> QED
      BY <2>1, <3>1, <3>2 DEF PlacedPart, Taken
  <2> QED
    BY <2>2, <2>3, <2>4, <2>5
<1>10. CASE Tick
  BY <1>10 DEF Tick, memory, HeldPart, GroupPart, ApartPart, PlacedPart, Placed, Groups,
               Taken
<1>11. CASE UNCHANGED vars
  BY <1>11 DEF vars, memory, HeldPart, GroupPart, ApartPart, PlacedPart, Placed, Groups,
               Taken
<1> QED
  BY <1>1, <1>2, <1>3, <1>4, <1>5, <1>6, <1>7, <1>8, <1>9, <1>10, <1>11
  DEF Next, RunWaiter

(***************************************************************************)
(* No candidate is clustered twice and none vanishes.                      *)
(***************************************************************************)
THEOREM OneFateCorrect == Spec => []EveryBatchHasOneFate
<1>1. TypeOK /\ FateInv => EveryBatchHasOneFate
  <2> SUFFICES ASSUME TypeOK, FateInv
               PROVE  EveryBatchHasOneFate
    OBVIOUS
  <2> USE DEF FateInv
  <2>1. \A b \in Batch : Taken(b) <=> \/ b \in pending[b.key]
                                      \/ b \in dead
                                      \/ \E g \in Groups : b \in g.from
    BY DEF PlacedPart, Placed, HeldPart, GroupPart, TypeOK
  <2>2. \A k \in Key : /\ \A b \in pending[k] : b.key = k /\ b \notin dead
                       /\ \A g \in Groups : g.from \intersect pending[k] = {}
    BY DEF HeldPart, GroupPart, TypeOK
  <2>3. \A g \in Groups : g.from # {} /\ g.from \intersect dead = {}
    BY DEF GroupPart
  <2>4. \A g, h \in Groups : g # h => g.from \intersect h.from = {}
    BY DEF ApartPart, TypeOK
  <2> QED
    BY <2>1, <2>2, <2>3, <2>4 DEF EveryBatchHasOneFate, ApartPart
<1> QED
  BY <1>1, TypeInit, TypeStep, FateInit, FateStep, PTL DEF Spec
-----------------------------------------------------------------------------
(***************************************************************************)
(* The waiter is never behind: the time it is due next is within the       *)
(* bounds of the entry, and the clock has not passed it by more than the   *)
(* loop's lag.  A wakeup that is lost breaks the third conjunct.           *)
(***************************************************************************)
WaiterInv ==
  \A k \in Key :
    IsOpen(k) => /\ now <= wakeAt[k] + LoopLag
                 /\ wakeAt[k] <= pendingFirst[k] + CoalesceMaxS
                 /\ Complete(k) => wakeAt[k] <= pendingLast[k] + CoalesceS
                 /\ pendingFirst[k] <= now

LEMMA WaiterInit == Init => WaiterInv
  BY DEF Init, WaiterInv, IsOpen

LEMMA WaiterStep == TypeOK /\ WaiterInv /\ [Next]_vars => WaiterInv'
<1> SUFFICES ASSUME TypeOK, WaiterInv, [Next]_vars
             PROVE  WaiterInv'
  OBVIOUS
<1> USE DEF TypeOK, WaiterInv
<1>1. ASSUME NEW b \in Batch, ReadFails(b)
      PROVE  WaiterInv'
  BY <1>1 DEF ReadFails, memory, IsOpen, Complete
<1>2. ASSUME NEW b \in Batch, Handle(b)
      PROVE  WaiterInv'
  <2>1. b.key \in Key
    OBVIOUS
  <2>2. /\ wakeAt'[b.key] <= now /\ now <= wakeAt'[b.key] + LoopLag
        /\ wakeAt'[b.key] <= pendingFirst'[b.key] + CoalesceMaxS
        /\ pendingLast'[b.key] = now /\ pendingFirst'[b.key] <= now /\ now' = now
    BY <1>2, <2>1 DEF Handle, WakeOnBatch
  <2>3. \A k \in Key \ {b.key} :
          /\ pending'[k] = pending[k] /\ pendingJobs'[k] = pendingJobs[k]
          /\ wakeAt'[k] = wakeAt[k] /\ pendingFirst'[k] = pendingFirst[k]
          /\ pendingLast'[k] = pendingLast[k]
    BY <1>2, <2>1 DEF Handle
  <2>4. wakeAt'[b.key] \in Int
    BY <1>2, <2>1 DEF Handle, WakeOnBatch
  <2>5. wakeAt'[b.key] <= pendingLast'[b.key] + CoalesceS
    BY <2>2, <2>4
  <2> QED
    BY <2>2, <2>3, <2>5 DEF IsOpen, Complete
<1>3. ASSUME NEW b \in Batch, HandleRaises(b)
      PROVE  WaiterInv'
  BY <1>3 DEF HandleRaises, IsOpen, Complete
<1>4. ASSUME NEW k \in Key, Sleep(k)
      PROVE  WaiterInv'
  <2>1. /\ wakeAt' = [wakeAt EXCEPT ![k] = now + WaitTimeout(k)]
        /\ UNCHANGED <<now, pending, pendingJobs, pendingFirst, pendingLast>>
        /\ ~ WaitIsOver(k)
    BY <1>4 DEF Sleep
  <2>2. /\ WaitTimeout(k) \in Int /\ MaxLeft(k) \in Int /\ QuietLeft(k) \in Int
        /\ WaitTimeout(k) <= MaxLeft(k)
        /\ QuietLeft(k) > 0 => WaitTimeout(k) <= QuietLeft(k)
    BY WaitTimeoutType
  <2>3. WaitTimeout(k) >= 0
    <3>1. MaxLeft(k) > 0
      BY <2>1, <2>2 DEF WaitIsOver
    <3>2. \A i, j \in Int : Min({i, j}) = i \/ Min({i, j}) = j
      <4> SUFFICES ASSUME NEW i \in Int, NEW j \in Int
                   PROVE  Min({i, j}) = i \/ Min({i, j}) = j
        OBVIOUS
      <4>1. \E m \in {i, j} : \A n \in {i, j} : m <= n
        BY SMT
      <4> QED
        BY <4>1 DEF Min
    <3> QED
      BY <2>2, <3>1, <3>2 DEF WaitTimeout
  <2>4. now + WaitTimeout(k) <= pendingFirst[k] + CoalesceMaxS
    BY <2>2 DEF MaxLeft
  <2>5. Complete(k) => now + WaitTimeout(k) <= pendingLast[k] + CoalesceS
    BY <2>1, <2>2 DEF WaitIsOver, QuietLeft
  <2>6. now <= (now + WaitTimeout(k)) + LoopLag
    BY <2>2, <2>3
  <2> QED
    BY <2>1, <2>2, <2>4, <2>5, <2>6 DEF IsOpen, Complete
<1>5. ASSUME NEW k \in Key, Flush(k), now' = now
      PROVE  WaiterInv'
  BY <1>5 DEF Flush, PopEntry, PopTimes, IsOpen, Complete
<1>6. ASSUME NEW k \in Key,
             FlushSkipped(k) \/ FlushQuiet(k) \/ FlushRaises(k) \/ FlushToClustering(k)
      PROVE  WaiterInv'
  BY <1>5, <1>6 DEF FlushSkipped, FlushQuiet, FlushRaises, FlushToClustering
<1>7. ASSUME NEW t \in tasks, ClusteringEnds(t) \/ ClusteringRaises(t)
      PROVE  WaiterInv'
  BY <1>7 DEF ClusteringEnds, ClusteringRaises, memory, IsOpen, Complete
<1>8. CASE Restart
  BY <1>8 DEF Restart, IsOpen
<1>9. CASE Tick
  BY <1>9 DEF Tick, memory, IsOpen, Complete
<1>10. CASE UNCHANGED vars
  BY <1>10 DEF vars, memory, IsOpen, Complete
<1> QED
  BY <1>1, <1>2, <1>3, <1>4, <1>6, <1>7, <1>8, <1>9, <1>10 DEF Next, RunWaiter

(***************************************************************************)
(* No entry is held beyond coalesce_max_s, and no complete one beyond      *)
(* coalesce_s after its last batch, but for the loop's lag.                *)
(***************************************************************************)
THEOREM HoldCorrect == Spec => []HoldBounded
<1>1. TypeOK /\ WaiterInv => HoldBounded
  BY DEF TypeOK, WaiterInv, HoldBounded
<1> QED
  BY <1>1, TypeInit, TypeStep, WaiterInit, WaiterStep, PTL DEF Spec

-----------------------------------------------------------------------------
(***************************************************************************)
(* The job count of an entry is the number of batches in it, and an        *)
(* observed flush took at least CoalesceJobs of them.                      *)
(***************************************************************************)
CountInv ==
  /\ \A k \in Key : pendingJobs[k] = Cardinality(pending[k])
  /\ \A g \in Groups : /\ g.jobs = Cardinality(g.from)
                       /\ Observed(g) => g.jobs >= CoalesceJobs

LEMMA FiniteBatches == TypeOK => /\ \A k \in Key : IsFiniteSet(pending[k])
                                 /\ \A g \in Groups : IsFiniteSet(g.from)
  BY FS_Subset DEF TypeOK

LEMMA CountInit == Init => CountInv
  BY FS_EmptySet DEF Init, CountInv, Groups

LEMMA CountStep == TypeOK /\ FateInv /\ CountInv /\ [Next]_vars => CountInv'
<1> SUFFICES ASSUME TypeOK, FateInv, CountInv, [Next]_vars
             PROVE  CountInv'
  OBVIOUS
<1> USE DEF CountInv
<1>1. ASSUME NEW b \in Batch, Handle(b)
      PROVE  CountInv'
  <2>1. b.key \in Key /\ b \notin pending[b.key] /\ IsFiniteSet(pending[b.key])
    BY <1>1, FiniteBatches DEF Handle, CanArrive, Taken, Unsent, FateInv, HeldPart
  <2>2. Cardinality(pending[b.key] \union {b}) = Cardinality(pending[b.key]) + 1
    BY <2>1, FS_AddElement
  <2>3. /\ pending' = [pending EXCEPT ![b.key] = pending[b.key] \union {b}]
        /\ pendingJobs' = [pendingJobs EXCEPT ![b.key] = pendingJobs[b.key] + 1]
        /\ Groups' = Groups
    BY <1>1 DEF Handle, Groups
  <2>4. \A k \in Key : pendingJobs'[k] = Cardinality(pending'[k])
    BY <2>1, <2>2, <2>3 DEF TypeOK
  <2> QED
    BY <2>3, <2>4
<1>2. ASSUME NEW k \in Key, Flush(k)
      PROVE  \A j \in Key : pendingJobs'[j] = Cardinality(pending'[j])
  BY <1>2, FS_EmptySet DEF Flush, PopEntry, TypeOK
<1>3. ASSUME NEW k \in Key, FlushSkipped(k) \/ FlushQuiet(k) \/ FlushToClustering(k)
      PROVE  CountInv'
  <2>1. PICK o, n : /\ Groups' = Groups \union {RowOf(k, o, n)}
                    /\ o \in {"quiet", "clustered"} => Complete(k)
    BY <1>3 DEF FlushSkipped, FlushQuiet, FlushToClustering, Groups
  <2>2. Flush(k)
    BY <1>3 DEF FlushSkipped, FlushQuiet, FlushToClustering
  <2> QED
    BY <1>2, <2>1, <2>2, RowType DEF Observed, Complete
<1>4. ASSUME NEW k \in Key, FlushRaises(k)
      PROVE  CountInv'
  BY <1>2, <1>4 DEF FlushRaises, Groups
<1>5. ASSUME NEW t \in tasks, ClusteringEnds(t) \/ ClusteringRaises(t)
      PROVE  CountInv'
  BY <1>5 DEF ClusteringEnds, ClusteringRaises, memory, Groups
<1>6. CASE Restart
  BY <1>6, FS_EmptySet DEF Restart, Groups
<1>7. ASSUME NEW b \in Batch, ReadFails(b) \/ HandleRaises(b)
      PROVE  CountInv'
  BY <1>7 DEF ReadFails, HandleRaises, memory, Groups
<1>8. ASSUME NEW k \in Key, Sleep(k)
      PROVE  CountInv'
  BY <1>8 DEF Sleep, Groups
<1>9. CASE Tick \/ UNCHANGED vars
  BY <1>9 DEF Tick, vars, memory, Groups
<1> QED
  BY <1>1, <1>3, <1>4, <1>5, <1>6, <1>7, <1>8, <1>9 DEF Next, RunWaiter

(***************************************************************************)
(* A gulp is observed only with the whole sky, but for a job that          *)
(* delivered twice into one entry.                                         *)
(***************************************************************************)
THEOREM WholeSkyCorrect == Spec => []WholeSkyOnly
<1>1. TypeOK /\ CountInv => WholeSkyOnly
  <2> SUFFICES ASSUME TypeOK, CountInv, NEW g \in Groups, Observed(g),
                      \A b, c \in g.from : b # c => b.job # c.job
               PROVE  Cardinality({b.job : b \in g.from}) >= CoalesceJobs
    BY DEF WholeSkyOnly
  <2> DEFINE jobs == {b.job : b \in g.from}
             jobOf == [b \in g.from |-> b.job]
  <2>1. IsFiniteSet(g.from) /\ Cardinality(g.from) >= CoalesceJobs
    BY FiniteBatches DEF CountInv
  <2>2. jobOf \in Bijection(g.from, jobs)
    <3>1. jobOf \in [g.from -> jobs] /\ \A j \in jobs : \E b \in g.from : jobOf[b] = j
      OBVIOUS
    <3>2. IsInjective(jobOf)
      BY DEF IsInjective
    <3> QED
      BY <3>1, <3>2 DEF Bijection, Injection, Surjection
  <2>3. ExistsBijection(g.from, jobs)
    BY <2>2 DEF ExistsBijection
  <2>4. Cardinality(jobs) = Cardinality(g.from)
    BY <2>1, <2>3, FS_Bijection
  <2> QED
    BY <2>1, <2>4
<1> QED
  BY <1>1, TypeInit, TypeStep, FateInit, FateStep, CountInit, CountStep, PTL DEF Spec

(***************************************************************************)
(* A gulp is observed a second time only if all of its jobs, or as many    *)
(* deliveries, came a second time.                                         *)
(***************************************************************************)
THEOREM ObservedOnceCorrect == Spec => []ObservedOnce
<1>1. TypeOK /\ FateInv /\ CountInv => ObservedOnce
  <2> SUFFICES ASSUME TypeOK, FateInv, CountInv, NEW g \in Groups, NEW h \in Groups,
                      Observed(g), Observed(h), g.key = h.key, g # h
               PROVE  Cardinality(DeliveriesOf(g.key)) >= 2 * CoalesceJobs
    BY DEF ObservedOnce
  <2>1. /\ IsFiniteSet(g.from) /\ IsFiniteSet(h.from)
        /\ Cardinality(g.from) >= CoalesceJobs /\ Cardinality(h.from) >= CoalesceJobs
    BY FiniteBatches DEF CountInv
  <2>2. g.from \intersect h.from = {}
    BY DEF FateInv, ApartPart, TypeOK
  <2>3. g.from \union h.from \subseteq DeliveriesOf(g.key)
    BY DEF FateInv, GroupPart, DeliveriesOf, TypeOK
  <2>4. /\ IsFiniteSet(g.from \union h.from)
        /\ Cardinality(g.from \union h.from) = Cardinality(g.from) + Cardinality(h.from)
    <3>1. Cardinality(g.from \intersect h.from) = 0
      BY <2>2, FS_EmptySet
    <3>2. Cardinality(g.from) \in Nat /\ Cardinality(h.from) \in Nat
      BY <2>1, FS_CardinalityType
    <3>3. /\ IsFiniteSet(g.from \union h.from)
          /\ Cardinality(g.from \union h.from)
               = Cardinality(g.from) + Cardinality(h.from)
                 - Cardinality(g.from \intersect h.from)
      BY <2>1, FS_Union
    <3> QED
      BY <3>1, <3>2, <3>3
  <2>5. IsFiniteSet(DeliveriesOf(g.key))
    BY FS_Subset DEF DeliveriesOf
  <2>6. Cardinality(g.from \union h.from) <= Cardinality(DeliveriesOf(g.key))
    BY <2>3, <2>5, FS_Subset
  <2>7. /\ Cardinality(g.from) \in Nat /\ Cardinality(h.from) \in Nat
        /\ Cardinality(DeliveriesOf(g.key)) \in Nat
    BY <2>1, <2>5, FS_CardinalityType
  <2> QED
    BY <2>1, <2>4, <2>6, <2>7
<1> QED
  BY <1>1, TypeInit, TypeStep, FateInit, FateStep, CountInit, CountStep, PTL DEF Spec
-----------------------------------------------------------------------------
(***************************************************************************)
(* The refinement.  FateOf reads a batch's fate off the state; under the   *)
(* invariants each fate has one witness, so a step's effect on it can be   *)
(* read off the set the step moved.                                        *)
(***************************************************************************)
OutcomePart ==
  /\ \A t \in tasks : t.outcome = "clustered"
  /\ \A b \in Batch : arrived[b] \in Nat \union {Unsent, Lost}

(***************************************************************************)
(* What t2d clusters, or calls quiet, is a whole gulp, and once.           *)
(***************************************************************************)
THEOREM ObservedWholeCorrect == Spec => []ObservedWhole
<1>1. WholeSkyOnly /\ ObservedOnce => ObservedWhole
  BY DEF ObservedWhole
<1> QED
  BY <1>1, WholeSkyCorrect, ObservedOnceCorrect, PTL

LEMMA OutcomeInit == Init => OutcomePart
  BY DEF Init, OutcomePart

LEMMA OutcomeStep == TypeOK /\ OutcomePart /\ [Next]_vars => OutcomePart'
<1> SUFFICES ASSUME TypeOK, OutcomePart, [Next]_vars
             PROVE  OutcomePart'
  OBVIOUS
<1> USE DEF OutcomePart, TypeOK
<1>1. ASSUME NEW b \in Batch, ReadFails(b) \/ Handle(b) \/ HandleRaises(b)
      PROVE  OutcomePart'
  BY <1>1 DEF ReadFails, Handle, HandleRaises, memory
<1>2. ASSUME NEW k \in Key, Sleep(k) \/ FlushSkipped(k) \/ FlushQuiet(k) \/ FlushRaises(k)
      PROVE  OutcomePart'
  BY <1>2 DEF Sleep, FlushSkipped, FlushQuiet, FlushRaises
<1>3. ASSUME NEW k \in Key, FlushToClustering(k)
      PROVE  OutcomePart'
  <2>1. PICK n : tasks' = tasks \union {RowOf(k, "clustered", n)}
    BY <1>3 DEF FlushToClustering
  <2> QED
    BY <1>3, <2>1, RowType DEF FlushToClustering
<1>4. ASSUME NEW t \in tasks, ClusteringEnds(t) \/ ClusteringRaises(t)
      PROVE  OutcomePart'
  BY <1>4 DEF ClusteringEnds, ClusteringRaises
<1>5. CASE Restart \/ Tick \/ UNCHANGED vars
  BY <1>5 DEF Restart, Tick, vars
<1> QED
  BY <1>1, <1>2, <1>3, <1>4, <1>5 DEF Next, RunWaiter

RefInv == TypeOK /\ FateInv /\ CountInv /\ OutcomePart

InRow(b, o) == \E r \in rows : r.outcome = o /\ b \in r.from
InTask(b) == \E t \in tasks : b \in t.from

FateIsPlace ==
  \A b \in Batch :
    /\ FateOf[b] \in Fate!Fates
    /\ FateOf[b] = "new" <=> arrived[b] = Unsent
    /\ FateOf[b] = "held" <=> b \in pending[b.key]
    /\ FateOf[b] = "clustering" <=> InTask(b)
    /\ \A o \in Outcomes : FateOf[b] = o <=> InRow(b, o)

LEMMA FateOfValue == RefInv => FateIsPlace
<1> SUFFICES ASSUME RefInv, NEW b \in Batch
             PROVE  /\ FateOf[b] \in Fate!Fates
                    /\ FateOf[b] = "new" <=> arrived[b] = Unsent
                    /\ FateOf[b] = "held" <=> b \in pending[b.key]
                    /\ FateOf[b] = "clustering" <=> InTask(b)
                    /\ \A o \in Outcomes : FateOf[b] = o <=> InRow(b, o)
  BY DEF FateIsPlace
<1> USE DEF RefInv, FateInv
<1>1. arrived[b] = Unsent => ~ Taken(b)
  BY DEF Taken, Unsent
<1>2. b \in pending[b.key] => Taken(b) /\ ~ InTask(b) /\ \A o : ~ InRow(b, o)
  BY DEF HeldPart, GroupPart, Groups, InTask, InRow
<1>3. InTask(b) => Taken(b) /\ \A o : ~ InRow(b, o)
  BY DEF GroupPart, ApartPart, Groups, InTask, InRow
<1>4. \A o, p : InRow(b, o) /\ InRow(b, p) => o = p
  BY DEF ApartPart, Groups, InRow
<1>5. \A o : InRow(b, o) => Taken(b)
  BY DEF GroupPart, Groups, InRow
<1>6. \A o : b \in RowsFor(o) <=> InRow(b, o)
  BY DEF RowsFor, InRow
<1>7. FateOf[b] = IF arrived[b] = Unsent THEN "new"
                  ELSE IF b \in pending[b.key] THEN "held"
                  ELSE IF InTask(b) THEN "clustering"
                  ELSE IF InRow(b, "clustered") THEN "clustered"
                  ELSE IF InRow(b, "quiet") THEN "quiet"
                  ELSE IF InRow(b, "skipped") THEN "skipped"
                  ELSE "gone"
  BY <1>6 DEF FateOf, InTask
<1> QED
  BY <1>1, <1>2, <1>3, <1>4, <1>5, <1>7 DEF Fate!Fates, Outcomes

\* Two states agree on a batch if they agree on where it is.
SamePlace(b) ==
  /\ arrived'[b] = Unsent <=> arrived[b] = Unsent
  /\ b \in pending'[b.key] <=> b \in pending[b.key]
  /\ InTask(b)' <=> InTask(b)
  /\ \A o \in Outcomes : InRow(b, o)' <=> InRow(b, o)

LEMMA SameFate ==
  ASSUME RefInv, RefInv', NEW b \in Batch, SamePlace(b)
  PROVE  FateOf'[b] = FateOf[b]
<1>1. FateIsPlace /\ FateIsPlace'
  BY FateOfValue, PTL
<1> QED
  BY <1>1 DEF FateIsPlace, SamePlace, Outcomes, Fate!Fates

LEMMA SettleFrom ==
  ASSUME NEW S, NEW f, \A b \in Batch : FateOf'[b] = IF b \in S THEN f ELSE FateOf[b]
  PROVE  Fate!Settle(S, f)
  BY DEF FateOf, Fate!Settle

\* The abstract specification counts with the same operator.
LEMMA SameCardinality == \A S : Fate!Cardinality(S) = Cardinality(S)
  BY Zenon DEF Cardinality, Fate!Cardinality

\* A step that moves the batches S to one fate and leaves the others.
LEMMA Moved ==
  ASSUME RefInv, RefInv', NEW S, NEW f,
         \A b \in Batch \ S : SamePlace(b),
         \A b \in S \intersect Batch : FateOf'[b] = f
  PROVE  Fate!Settle(S, f)
<1>1. \A b \in Batch : FateOf'[b] = IF b \in S THEN f ELSE FateOf[b]
  BY SameFate
<1> QED
  BY <1>1, SettleFrom

\* A batch that is in no place any more is gone.
LEMMA NowGone ==
  ASSUME RefInv', NEW b \in Batch, arrived'[b] # Unsent, b \notin pending'[b.key],
         ~ InTask(b)', \A o \in Outcomes : ~ InRow(b, o)'
  PROVE  FateOf'[b] = "gone"
<1>1. FateIsPlace'
  BY FateOfValue, PTL
<1> QED
  BY <1>1 DEF FateIsPlace, Fate!Fates, Outcomes

\* What the abstract specification holds for a key is the key's entry.
LEMMA HeldIsPending ==
  ASSUME RefInv, NEW k \in Key
  PROVE  Fate!HeldOf(k) = pending[k]
<1>1. FateIsPlace
  BY FateOfValue
<1>2. \A b \in Batch : FateOf[b] = "held" <=> b \in pending[b.key]
  BY <1>1 DEF FateIsPlace
<1>3. \A b \in pending[k] : b \in Batch /\ b.key = k
  BY DEF RefInv, TypeOK, FateInv, HeldPart
<1> QED
  BY <1>2, <1>3 DEF Fate!HeldOf

LEMMA ReceiveMaps ==
  ASSUME RefInv, RefInv', NEW b \in Batch, ReadFails(b) \/ Handle(b) \/ HandleRaises(b)
  PROVE  Fate!Receive(b)
<1>1. FateIsPlace /\ FateIsPlace'
  BY FateOfValue, PTL
<1>2. /\ arrived[b] = Unsent /\ b.key \in Key
      /\ b \notin pending[b.key] /\ ~ InTask(b) /\ \A o \in Outcomes : ~ InRow(b, o)
  <2>1. arrived[b] = Unsent
    BY DEF ReadFails, Handle, HandleRaises, CanArrive
  <2> QED
    BY <2>1, <1>1 DEF FateIsPlace, Outcomes
<1>3. /\ UNCHANGED <<rows, tasks>> /\ \A c \in Batch \ {b} : arrived'[c] = arrived[c]
      /\ arrived'[b] # Unsent
      /\ pending' = [pending EXCEPT ![b.key] = @ \union {b}] \/ pending' = pending
  BY DEF ReadFails, Handle, HandleRaises, memory, Lost, Unsent, RefInv, TypeOK
<1>4. \A c \in Batch \ {b} : SamePlace(c)
  <2>1. \A c \in Batch \ {b} : c.key \in Key
                               /\ (c \in pending'[c.key] <=> c \in pending[c.key])
    BY <1>2, <1>3 DEF RefInv, TypeOK
  <2> QED
    BY <1>3, <2>1 DEF SamePlace, InTask, InRow
<1>5. FateOf[b] = "new"
  BY <1>1, <1>2 DEF FateIsPlace
<1>6. CASE Handle(b)
  <2>1. b \in pending'[b.key]
    BY <1>2, <1>6 DEF Handle, RefInv, TypeOK
  <2>2. FateOf'[b] = "held"
    BY <2>1, <1>1 DEF FateIsPlace
  <2>3. Fate!Settle({b}, "held")
    BY <1>4, <2>2, Moved
  <2> QED
    BY <1>5, <2>3 DEF Fate!Receive
<1>7. CASE ReadFails(b) \/ HandleRaises(b)
  <2>1. pending' = pending
    BY <1>7 DEF ReadFails, HandleRaises, memory
  <2>2. ~ InTask(b)' /\ \A o \in Outcomes : ~ InRow(b, o)'
    BY <1>2, <1>3 DEF InTask, InRow
  <2>3. FateOf'[b] = "gone"
    BY <1>2, <1>3, <2>1, <2>2, NowGone
  <2>4. Fate!Settle({b}, "gone")
    BY <1>4, <2>3, Moved
  <2> QED
    BY <1>5, <2>4 DEF Fate!Receive
<1> QED
  BY <1>6, <1>7

LEMMA FlushMaps ==
  ASSUME RefInv, RefInv', NEW k \in Key,
         FlushSkipped(k) \/ FlushQuiet(k) \/ FlushRaises(k) \/ FlushToClustering(k)
  PROVE  Fate!Decide(k) /\ \E b \in Batch : b.key = k
<1> USE DEF RefInv
<1>1. FateIsPlace'
  BY FateOfValue, PTL
<1>2. /\ Flush(k) /\ pending' = [pending EXCEPT ![k] = {}] /\ UNCHANGED arrived
  BY FlushType DEF FlushSkipped, FlushQuiet, FlushRaises, FlushToClustering
<1>3. /\ pending[k] # {} /\ Fate!HeldOf(k) = pending[k]
      /\ Complete(k) <=> Cardinality(pending[k]) >= CoalesceJobs
  BY <1>2, HeldIsPending DEF Flush, Due, IsOpen, Complete, CountInv
<1>4. Cardinality(pending[k]) \in Nat
  BY FiniteBatches, FS_CardinalityType
<1>5. \A b \in pending[k] : /\ b \in Batch /\ b.key = k /\ arrived[b] # Unsent
                            /\ ~ InTask(b) /\ \A o : ~ InRow(b, o)
  BY DEF TypeOK, FateInv, HeldPart, GroupPart, Groups, InTask, InRow, Taken, Unsent
<1>6. \A b \in Batch \ pending[k] : b \in pending'[b.key] <=> b \in pending[b.key]
  BY <1>2 DEF TypeOK
<1>7. CASE FlushSkipped(k) \/ FlushQuiet(k)
  <2>1. PICK o \in {"skipped", "quiet"} :
          /\ rows' = rows \union {RowOf(k, o, 0)} /\ tasks' = tasks
          /\ IF o = "skipped" THEN ~ Complete(k) ELSE Complete(k)
    BY <1>7 DEF FlushSkipped, FlushQuiet
  <2>2. RowOf(k, o, 0).from = pending[k] /\ RowOf(k, o, 0).outcome = o
    BY RowType
  <2>3. \A b \in Batch \ pending[k] : SamePlace(b)
    BY <1>2, <1>6, <2>1, <2>2 DEF SamePlace, InTask, InRow
  <2>4. \A b \in pending[k] : FateOf'[b] = o
    BY <1>1, <1>5, <2>1, <2>2 DEF FateIsPlace, InRow, Outcomes
  <2>5. Fate!Settle(Fate!HeldOf(k), o)
    BY <1>3, <2>3, <2>4, Moved
  <2> QED
    <3>1. o = "skipped" => Cardinality(Fate!HeldOf(k)) < CoalesceJobs
      BY <1>3, <1>4, <2>1
    <3>2. o = "quiet" => Cardinality(Fate!HeldOf(k)) >= CoalesceJobs
      BY <1>3, <2>1
    <3>3. Fate!Decide(k)
      BY <1>3, <2>5, <3>1, <3>2, SameCardinality DEF Fate!Decide
    <3> QED
      BY <1>3, <1>5, <3>3
<1>8. CASE FlushToClustering(k)
  <2>1. PICK n : tasks' = tasks \union {RowOf(k, "clustered", n)}
    BY <1>8 DEF FlushToClustering
  <2>2. /\ RowOf(k, "clustered", n).from = pending[k]
        /\ rows' = rows /\ Complete(k)
    BY <1>8, RowType DEF FlushToClustering
  <2>3. \A b \in Batch \ pending[k] : SamePlace(b)
    BY <1>2, <1>6, <2>1, <2>2 DEF SamePlace, InTask, InRow
  <2>4. \A b \in pending[k] : FateOf'[b] = "clustering"
    BY <1>1, <1>5, <2>1, <2>2 DEF FateIsPlace, InTask
  <2>5. Fate!Settle(Fate!HeldOf(k), "clustering")
    BY <1>3, <2>3, <2>4, Moved
  <2> QED
    <3>1. Cardinality(Fate!HeldOf(k)) >= CoalesceJobs
      BY <1>3, <2>2
    <3>2. Fate!Decide(k)
      BY <1>3, <2>5, <3>1, SameCardinality DEF Fate!Decide
    <3> QED
      BY <1>3, <1>5, <3>2
<1>9. CASE FlushRaises(k)
  <2>1. rows' = rows /\ tasks' = tasks
    BY <1>9 DEF FlushRaises
  <2>2. \A b \in Batch \ pending[k] : SamePlace(b)
    BY <1>2, <1>6, <2>1 DEF SamePlace, InTask, InRow
  <2>3. \A b \in pending[k] : /\ arrived'[b] # Unsent /\ b \notin pending'[b.key]
                              /\ ~ InTask(b)' /\ \A o \in Outcomes : ~ InRow(b, o)'
    <3>1. \A b \in pending[k] : b \notin pending'[b.key]
      BY <1>2, <1>5 DEF TypeOK
    <3> QED
      BY <1>2, <1>5, <2>1, <3>1 DEF InTask, InRow
  <2>4. \A b \in pending[k] : FateOf'[b] = "gone"
    BY <1>5, <2>3, NowGone
  <2>5. Fate!Settle(Fate!HeldOf(k), "gone")
    BY <1>3, <2>2, <2>4, Moved
  <2> QED
    BY <1>3, <1>5, <2>5 DEF Fate!Decide
<1> QED
  BY <1>7, <1>8, <1>9

LEMMA ClusteringMaps ==
  ASSUME RefInv, RefInv', NEW t \in tasks, ClusteringEnds(t) \/ ClusteringRaises(t)
  PROVE  t.from \in SUBSET Batch /\ Fate!Finish(t.from)
<1> USE DEF RefInv
<1>1. FateIsPlace /\ FateIsPlace'
  BY FateOfValue, PTL
<1>2. /\ t \in Groups /\ t.from \subseteq Batch /\ t.from # {}
      /\ t.outcome = "clustered" /\ Cardinality(t.from) >= CoalesceJobs
      /\ \A b \in t.from : b.key = t.key /\ Taken(b) /\ b \notin pending[b.key]
  BY DEF Groups, TypeOK, FateInv, GroupPart, CountInv, OutcomePart, Observed
<1>3. /\ tasks' = tasks \ {t} /\ UNCHANGED <<arrived, pending>>
      /\ IF ClusteringEnds(t) THEN rows' = rows \union {t} ELSE rows' = rows
  BY DEF ClusteringEnds, ClusteringRaises, memory
<1>4. \A b \in t.from : /\ FateOf[b] = "clustering"
                        /\ \A u \in tasks : b \in u.from => u = t
                        /\ \A r \in rows : b \notin r.from
  BY <1>1, <1>2 DEF FateIsPlace, InTask, FateInv, ApartPart, Groups
<1>5. \A b \in Batch \ t.from : SamePlace(b)
  BY <1>2, <1>3 DEF SamePlace, InTask, InRow
<1>6. Fate!Settle(t.from, "clustered") \/ Fate!Settle(t.from, "gone")
  <2>1. CASE ClusteringEnds(t)
    <3>1. \A b \in t.from : FateOf'[b] = "clustered"
      BY <1>1, <1>2, <1>3, <2>1 DEF FateIsPlace, InRow, Outcomes
    <3> QED
      BY <1>5, <3>1, Moved
  <2>2. CASE ~ ClusteringEnds(t)
    <3>1. \A b \in t.from : /\ b \in Batch /\ arrived'[b] # Unsent
                            /\ b \notin pending'[b.key]
                            /\ ~ InTask(b)' /\ \A o \in Outcomes : ~ InRow(b, o)'
      BY <1>2, <1>3, <1>4, <2>2 DEF Taken, Unsent, TypeOK, InTask, InRow
    <3>2. \A b \in t.from : FateOf'[b] = "gone"
      BY <3>1, NowGone
    <3> QED
      BY <1>5, <3>2, Moved
  <2> QED
    BY <2>1, <2>2
<1>7. \A b \in t.from : FateOf[b] = "clustering"
  BY <1>4
<1>8. \A b, c \in t.from : b.key = c.key
  BY <1>2
<1>9. Fate!Finish(t.from)
  BY <1>2, <1>6, <1>7, <1>8, SameCardinality DEF Fate!Finish
<1> QED
  BY <1>2, <1>9

LEMMA CrashMaps ==
  ASSUME RefInv, RefInv', Restart
  PROVE  Fate!Crash
<1> USE DEF RefInv
<1> DEFINE S == {b \in Batch : FateOf[b] \in {"held", "clustering"}}
<1>1. FateIsPlace
  BY FateOfValue
<1>2. \A b \in Batch : b \in S <=> b \in pending[b.key] \/ InTask(b)
  BY <1>1 DEF FateIsPlace
<1>3. rows' = rows /\ tasks' = {} /\ arrived' = arrived /\ pending' = [k \in Key |-> {}]
  BY DEF Restart
<1>4. \A b \in Batch \ S : SamePlace(b)
  BY <1>2, <1>3 DEF SamePlace, InTask, InRow
<1>5. \A b \in S : /\ b \in Batch /\ arrived'[b] # Unsent /\ b \notin pending'[b.key]
                   /\ ~ InTask(b)' /\ \A o \in Outcomes : ~ InRow(b, o)'
  <2>1. \A b \in S : arrived[b] # Unsent /\ \A o \in Outcomes : ~ InRow(b, o)
    BY <1>1 DEF FateIsPlace, Outcomes
  <2> QED
    BY <1>3, <2>1 DEF InTask, InRow
<1>6. \A b \in S : FateOf'[b] = "gone"
  BY <1>5, NowGone
<1>7. Fate!Settle(S, "gone")
  <2> HIDE DEF S
  <2> QED
    BY <1>4, <1>6, Moved
<1> QED
  BY <1>7 DEF Fate!Crash

LEMMA StutterMaps ==
  ASSUME RefInv, RefInv', UNCHANGED <<arrived, pending, rows, tasks>>
  PROVE  UNCHANGED FateOf
  BY DEF FateOf, RowsFor

LEMMA NextMaps == RefInv /\ RefInv' /\ [Next]_vars => [Fate!FateNext]_FateOf
<1> SUFFICES ASSUME RefInv, RefInv', [Next]_vars
             PROVE  Fate!FateNext \/ UNCHANGED FateOf
  OBVIOUS
<1>1. ASSUME NEW b \in Batch, ReadFails(b) \/ Handle(b) \/ HandleRaises(b)
      PROVE  Fate!FateNext
  BY <1>1, ReceiveMaps DEF Fate!FateNext
<1>2. ASSUME NEW k \in Key, Sleep(k)
      PROVE  UNCHANGED FateOf
  BY <1>2, StutterMaps DEF Sleep
<1>3. ASSUME NEW k \in Key,
             FlushSkipped(k) \/ FlushQuiet(k) \/ FlushRaises(k) \/ FlushToClustering(k)
      PROVE  Fate!FateNext
  BY <1>3, FlushMaps DEF Fate!FateNext
<1>4. ASSUME NEW t \in tasks, ClusteringEnds(t) \/ ClusteringRaises(t)
      PROVE  Fate!FateNext
  BY <1>4, ClusteringMaps DEF Fate!FateNext
<1>5. CASE Restart
  BY <1>5, CrashMaps DEF Fate!FateNext
<1>6. CASE Tick \/ UNCHANGED vars
  BY <1>6, StutterMaps DEF Tick, vars, memory
<1> QED
  BY <1>1, <1>2, <1>3, <1>4, <1>5, <1>6 DEF Next, RunWaiter

(***************************************************************************)
(* The coalescer implements the abstract specification: the batches of a   *)
(* gulp are decided together, and only a complete gulp is clustered.       *)
(***************************************************************************)
THEOREM CoalescerDecidesWhole == Spec => GulpsDecidedWhole
<1>1. Init => Fate!FateInit
  BY DEF Init, Fate!FateInit, FateOf
<1>2. RefInv <=> TypeOK /\ FateInv /\ CountInv /\ OutcomePart
  BY DEF RefInv
<1>3. Spec => []RefInv
  BY <1>2, TypeInit, TypeStep, FateInit, FateStep, CountInit, CountStep, OutcomeInit,
     OutcomeStep, PTL DEF Spec
<1>4. Spec => Fate!FateSpec
  BY <1>1, <1>3, NextMaps, PTL DEF Spec, Fate!FateSpec
<1> QED
  BY <1>4 DEF GulpsDecidedWhole
-----------------------------------------------------------------------------
(***************************************************************************)
(* What is skipped.  The batches of a key are told apart by their times:   *)
(* those of an entry landed since it opened, those decided before it not   *)
(* after that, and those that come after a skipped one was flushed not     *)
(* before coalesce_max_s.                                                  *)
(***************************************************************************)
Opened(S, o) == (\E b \in S : arrived[b] = o) /\ \A b \in S : o <= arrived[b]

\* The batches of a key that are elsewhere than in S.
Elsewhere(k, S) == {b \in Batch : b.key = k /\ Taken(b) /\ b \notin dead /\ b \notin S}

OpenPart ==
  \A k \in Key :
    IsOpen(k) => /\ Opened(pending[k], pendingFirst[k])
                 /\ \A b \in Elsewhere(k, pending[k]) : arrived[b] <= pendingFirst[k]

MissedMax(r, o) ==
  /\ Opened(r.from, o) /\ o + CoalesceMaxS <= now
  /\ \A b \in Elsewhere(r.key, r.from) : arrived[b] <= o \/ o + CoalesceMaxS <= arrived[b]

SkippedPart ==
  \A r \in rows : r.outcome = "skipped" => /\ r.jobs < CoalesceJobs
                                           /\ \E o \in Nat : MissedMax(r, o)

SkipInv == OpenPart /\ SkippedPart /\ \A b \in Batch : arrived[b] <= now

LEMMA SkipInit == Init => SkipInv
  BY DEF Init, SkipInv, OpenPart, SkippedPart, IsOpen, Unsent

\* Steps that take in no batch leave a skipped row as it was.
LEMMA SkippedKept ==
  ASSUME TypeOK, SkippedPart, UNCHANGED arrived, now <= now', now' \in Nat, dead \subseteq dead',
         NEW r \in rows, r.outcome = "skipped"
  PROVE  \E o \in Nat : MissedMax(r, o)'
<1>1. PICK o \in Nat : MissedMax(r, o)
  BY DEF SkippedPart
<1>2. o + CoalesceMaxS <= now'
  BY <1>1 DEF MissedMax, TypeOK
<1>3. Opened(r.from, o)' /\ Elsewhere(r.key, r.from)' \subseteq Elsewhere(r.key, r.from)
  BY <1>1 DEF MissedMax, Opened, Elsewhere, Taken
<1> QED
  BY <1>1, <1>2, <1>3 DEF MissedMax

\* Likewise an open entry, when no batch leaves another one alive.
LEMMA OpenKept ==
  ASSUME TypeOK, OpenPart, UNCHANGED arrived, dead \subseteq dead', NEW k \in Key,
         IsOpen(k), pending'[k] = pending[k], pendingFirst'[k] = pendingFirst[k]
  PROVE  /\ Opened(pending[k], pendingFirst[k])'
         /\ \A b \in Elsewhere(k, pending[k])' : arrived'[b] <= pendingFirst'[k]
  BY DEF OpenPart, Opened, Elsewhere, Taken

LEMMA FlushPops ==
  ASSUME TypeOK, NEW k \in Key, Flush(k)
  PROVE  \A j \in Key : \/ pending'[j] = {}
                        \/ pending'[j] = pending[j] /\ pendingFirst'[j] = pendingFirst[j]
<1>1. /\ pending' = [pending EXCEPT ![k] = {}]
      /\ pendingFirst' = [pendingFirst EXCEPT ![k] = 0]
  BY DEF Flush, PopEntry, PopTimes
<1>2. pending \in [Key -> SUBSET Batch] /\ pendingFirst \in [Key -> Nat]
  BY DEF TypeOK
<1>3. \A j \in Key : j = k \/ (pending'[j] = pending[j] /\ pendingFirst'[j] = pendingFirst[j])
  BY <1>1, <1>2
<1> QED
  BY <1>1, <1>2, <1>3

LEMMA SkipStep ==
  TypeOK /\ FateInv /\ CountInv /\ WaiterInv /\ OutcomePart /\ SkipInv /\ [Next]_vars => SkipInv'
<1> SUFFICES ASSUME TypeOK, FateInv, CountInv, WaiterInv, OutcomePart, SkipInv, [Next]_vars
             PROVE  SkipInv'
  OBVIOUS
<1> USE DEF SkipInv
\* Steps that take in no batch and add no row.
<1>1. ASSUME UNCHANGED arrived, now <= now', now' \in Nat, dead \subseteq dead',
             \A r \in rows' : r \in rows \/ r.outcome # "skipped",
             \A k \in Key : \/ pending'[k] = {}
                            \/ pending'[k] = pending[k] /\ pendingFirst'[k] = pendingFirst[k]
      PROVE  SkipInv'
<2>1. SkippedPart'
  BY <1>1, SkippedKept DEF SkippedPart
<2>2. OpenPart'
  BY <1>1, OpenKept DEF OpenPart, IsOpen
<2> QED
  BY <1>1, <2>1, <2>2 DEF TypeOK
<1>2. ASSUME NEW b \in Batch, ReadFails(b) \/ HandleRaises(b) \/ Handle(b)
      PROVE  /\ SkippedPart'
             /\ \A c \in Batch : arrived'[c] <= now'
<2>1. /\ rows' = rows /\ now' = now /\ dead \subseteq dead' /\ arrived[b] = Unsent
      /\ arrived' = [arrived EXCEPT ![b] = now] \/ arrived' = [arrived EXCEPT ![b] = Lost]
  BY <1>2 DEF ReadFails, HandleRaises, Handle, CanArrive
<2>2. ASSUME NEW r \in rows, r.outcome = "skipped"
      PROVE  \E o \in Nat : MissedMax(r, o)'
<3>1. PICK o \in Nat : MissedMax(r, o)
  BY <2>2 DEF SkippedPart
<3>2. \A c \in r.from : c \in Batch /\ arrived'[c] = arrived[c]
  BY <2>1 DEF FateInv, GroupPart, Groups, Taken, Unsent, TypeOK
<3>3. Opened(r.from, o)'
  BY <3>1, <3>2 DEF MissedMax, Opened
<3>4. \A c \in Elsewhere(r.key, r.from)' :
        \/ c \in Elsewhere(r.key, r.from) /\ arrived'[c] = arrived[c]
        \/ arrived'[c] = now
  BY <2>1 DEF Elsewhere, Taken, TypeOK, Lost
<3> QED
  BY <2>1, <3>1, <3>3, <3>4 DEF MissedMax
<2> QED
  BY <2>1, <2>2 DEF SkippedPart, TypeOK, Lost
<1>3. ASSUME NEW b \in Batch, ReadFails(b) \/ HandleRaises(b)
      PROVE  OpenPart'
<2>1. /\ UNCHANGED <<pending, pendingFirst>> /\ arrived[b] = Unsent
      /\ \/ arrived' = [arrived EXCEPT ![b] = Lost] /\ dead' = dead
         \/ arrived' = [arrived EXCEPT ![b] = now] /\ dead' = dead \union {b}
  BY <1>3 DEF ReadFails, HandleRaises, CanArrive, memory
<2>2. \A k \in Key : \A c \in pending[k] : c \in Batch /\ arrived'[c] = arrived[c]
  BY <2>1 DEF FateInv, HeldPart, Taken, Unsent, TypeOK
<2>3. \A k \in Key : \A c \in Elsewhere(k, pending[k])' :
        c \in Elsewhere(k, pending[k]) /\ arrived'[c] = arrived[c]
  BY <2>1 DEF Elsewhere, Taken, TypeOK, Lost
<2> QED
  BY <2>1, <2>2, <2>3 DEF OpenPart, IsOpen, Opened
<1>4. ASSUME NEW b \in Batch, Handle(b)
      PROVE  OpenPart'
<2>1. /\ b.key \in Key /\ arrived[b] = Unsent /\ dead' = dead
      /\ arrived' = [arrived EXCEPT ![b] = now]
      /\ pending' = [pending EXCEPT ![b.key] = @ \union {b}]
      /\ pendingFirst' = IF IsOpen(b.key) THEN pendingFirst
                         ELSE [pendingFirst EXCEPT ![b.key] = now]
  BY <1>4 DEF Handle, CanArrive
<2>2. \A k \in Key : \A c \in pending[k] : c \in Batch /\ arrived'[c] = arrived[c]
  BY <2>1 DEF FateInv, HeldPart, Taken, Unsent, TypeOK
<2>3. \A k \in Key : \A c \in Elsewhere(k, pending[k])' :
        c \in Elsewhere(k, pending[k]) /\ arrived'[c] = arrived[c]
  BY <2>1 DEF Elsewhere, Taken, TypeOK
<2>4. ASSUME NEW k \in Key, k # b.key, IsOpen(k)'
      PROVE  /\ Opened(pending[k], pendingFirst[k])'
             /\ \A c \in Elsewhere(k, pending[k])' : arrived'[c] <= pendingFirst'[k]
<3>1. pending'[k] = pending[k] /\ pendingFirst'[k] = pendingFirst[k] /\ IsOpen(k)
  BY <2>1, <2>4 DEF IsOpen, TypeOK
<3> QED
  BY <2>2, <2>3, <3>1 DEF OpenPart, Opened
<2>5. /\ Opened(pending[b.key], pendingFirst[b.key])'
      /\ \A c \in Elsewhere(b.key, pending[b.key])' : arrived'[c] <= pendingFirst'[b.key]
<3>1. pending'[b.key] = pending[b.key] \union {b} /\ arrived'[b] = now
  BY <2>1 DEF TypeOK
<3>2. CASE IsOpen(b.key)
  <4>1. pendingFirst'[b.key] = pendingFirst[b.key] /\ pendingFirst[b.key] <= now
    BY <2>1, <3>2 DEF WaiterInv
  <4>2. Opened(pending[b.key], pendingFirst[b.key])
    BY <2>1, <3>2 DEF OpenPart
  <4>3. Opened(pending[b.key], pendingFirst[b.key])'
    BY <2>1, <2>2, <3>1, <4>1, <4>2 DEF Opened
  <4> QED
    BY <2>1, <2>3, <3>2, <4>1, <4>3 DEF OpenPart
<3>3. CASE ~ IsOpen(b.key)
  <4>1. pendingFirst'[b.key] = now /\ pending'[b.key] = {b}
    BY <2>1, <3>1, <3>3 DEF TypeOK, IsOpen
  <4>2. \A c \in Elsewhere(b.key, pending[b.key])' : c \in Batch /\ arrived'[c] <= now
    BY <2>1, <2>3 DEF Elsewhere
  <4>3. Opened(pending[b.key], pendingFirst[b.key])'
    BY <3>1, <4>1 DEF Opened, TypeOK
  <4> QED
    BY <4>1, <4>2, <4>3 DEF Elsewhere
<3> QED
  BY <3>2, <3>3
<2> QED
  BY <2>4, <2>5 DEF OpenPart
<1>5. ASSUME NEW k \in Key, Flush(k), UNCHANGED <<arrived, now>>, dead \subseteq dead'
      PROVE  OpenPart'
<2> QED
  BY <1>5, FlushPops, OpenKept DEF OpenPart, IsOpen
<1>6. ASSUME NEW k \in Key, FlushSkipped(k)
      PROVE  SkipInv'
<2>1. /\ Flush(k) /\ ~ Complete(k) /\ UNCHANGED <<arrived, now, dead>>
      /\ rows' = rows \union {RowOf(k, "skipped", 0)}
  BY <1>6 DEF FlushSkipped
<2>2. IsOpen(k) /\ pendingFirst[k] + CoalesceMaxS <= now /\ pendingFirst[k] \in Nat
  BY <2>1 DEF Flush, Due, WaitIsOver, MaxLeft, TypeOK
<2>3. MissedMax(RowOf(k, "skipped", 0), pendingFirst[k])
  BY <2>2, RowType DEF MissedMax, OpenPart
<2>4. \A r, o : MissedMax(r, o) => MissedMax(r, o)'
  BY <2>1 DEF MissedMax, Opened, Elsewhere, Taken
<2>5. RowOf(k, "skipped", 0).jobs < CoalesceJobs
  BY <2>1, RowType DEF Complete, TypeOK
<2>6. SkippedPart'
<3> SUFFICES ASSUME NEW r \in rows', r.outcome = "skipped"
             PROVE  r.jobs < CoalesceJobs /\ \E o \in Nat : MissedMax(r, o)'
  BY DEF SkippedPart
<3>1. CASE r \in rows
  BY <2>4, <3>1 DEF SkippedPart
<3>2. PICK o \in Nat : o = pendingFirst[k]
  BY <2>2
<3>3. CASE r = RowOf(k, "skipped", 0)
  BY <2>3, <2>4, <2>5, <3>2, <3>3
<3> QED
  BY <2>1, <3>1, <3>3
<2> QED
  BY <1>5, <2>1, <2>6
<1>7. ASSUME NEW k \in Key, FlushQuiet(k) \/ FlushRaises(k) \/ FlushToClustering(k)
      PROVE  SkipInv'
<2>1. /\ Flush(k) /\ UNCHANGED <<arrived, now>> /\ dead \subseteq dead'
      /\ \A r \in rows' : r \in rows \/ r.outcome # "skipped"
  BY <1>7, RowType DEF FlushQuiet, FlushRaises, FlushToClustering
<2> QED
  BY <1>1, <2>1, FlushPops DEF TypeOK
<1>8. ASSUME NEW t \in tasks, ClusteringEnds(t) \/ ClusteringRaises(t)
      PROVE  SkipInv'
<2>1. /\ UNCHANGED <<arrived, now, pending, pendingFirst>> /\ dead \subseteq dead'
      /\ \A r \in rows' : r \in rows \/ r.outcome # "skipped"
  BY <1>8 DEF ClusteringEnds, ClusteringRaises, memory, OutcomePart
<2> QED
  BY <1>1, <2>1 DEF TypeOK
<1>9. CASE Restart
  BY <1>1, <1>9 DEF Restart, TypeOK
<1>10. CASE Tick \/ UNCHANGED vars \/ \E k \in Key : Sleep(k)
<2>1. /\ UNCHANGED <<arrived, pending, pendingFirst, dead, rows>>
      /\ now' = now \/ now' = now + 1
  BY <1>10 DEF Tick, vars, memory, Sleep
<2> QED
  BY <1>1, <2>1 DEF TypeOK
<1> QED
  BY <1>2, <1>3, <1>4, <1>6, <1>7, <1>8, <1>9, <1>10 DEF Next, RunWaiter

LEMMA SkipGives == TypeOK /\ FateInv /\ CountInv /\ SkipInv => TimelyGulpKept
<1> SUFFICES ASSUME TypeOK, FateInv, CountInv, SkipInv, NEW r \in rows, r.outcome = "skipped",
                    NEW opened, opened = Min({arrived[b] : b \in r.from})
             PROVE  Cardinality({b \in DeliveriesOf(r.key) \ dead :
                                   \/ b \in r.from
                                   \/ opened < arrived[b] /\ arrived[b] < opened + CoalesceMaxS})
                    < CoalesceJobs
  BY DEF TimelyGulpKept
<1>1. PICK o \in Nat : MissedMax(r, o)
  BY DEF SkipInv, SkippedPart
<1>2. r \in Groups /\ r.from \subseteq Batch /\ IsFiniteSet(r.from)
      /\ Cardinality(r.from) < CoalesceJobs /\ Cardinality(r.from) \in Nat
  BY FiniteBatches, FS_CardinalityType DEF CountInv, SkipInv, SkippedPart, Groups, TypeOK
<1>3. opened = o
<2> DEFINE times == {arrived[b] : b \in r.from}
<2>1. o \in times /\ \A t \in times : t \in Int /\ o <= t
  BY <1>1, <1>2 DEF MissedMax, Opened, TypeOK
<2> HIDE DEF times
<2>2. \A m \in times : (\A t \in times : m <= t) => m = o
  BY <2>1
<2>3. Min(times) = o
  BY <2>1, <2>2 DEF Min
<2> QED
  BY <2>3 DEF times
<1> DEFINE landed == {b \in DeliveriesOf(r.key) \ dead :
                        \/ b \in r.from
                        \/ opened < arrived[b] /\ arrived[b] < opened + CoalesceMaxS}
<1>4. landed \subseteq r.from
<2> SUFFICES ASSUME NEW b \in DeliveriesOf(r.key), b \notin dead, b \notin r.from,
                    opened < arrived[b], arrived[b] < opened + CoalesceMaxS
             PROVE  FALSE
  OBVIOUS
<2>1. b \in Elsewhere(r.key, r.from) /\ arrived[b] \in Int
  BY DEF DeliveriesOf, Elsewhere, TypeOK
<2> QED
  BY <1>1, <1>3, <2>1 DEF MissedMax
<1>5. Cardinality(landed) < CoalesceJobs
<2> HIDE DEF landed
<2>1. IsFiniteSet(landed) /\ Cardinality(landed) <= Cardinality(r.from)
  BY <1>2, <1>4, FS_Subset
<2> QED
  BY <1>2, <2>1, FS_CardinalityType
<1> QED
  BY <1>5

(***************************************************************************)
(* No gulp is skipped whose batches came in time, whatever became of the   *)
(* earlier and the later ones of its key.                                  *)
(***************************************************************************)
THEOREM TimelyKeptCorrect == Spec => []TimelyGulpKept
<1> QED
  BY SkipGives, TypeInit, TypeStep, FateInit, FateStep, CountInit, CountStep,
     WaiterInit, WaiterStep, OutcomeInit, OutcomeStep, SkipInit, SkipStep, PTL DEF Spec

-----------------------------------------------------------------------------
(***************************************************************************)
(* Sums over a set.  The fold picks the elements in an order of its own:   *)
(* what it adds up is the number of units, so many for each element, and   *)
(* units are counted by the theorems about finite sets.  Induction over    *)
(* the finite sets is by a least counterexample.                           *)
(***************************************************************************)
LEMMA LeastSubset ==
  ASSUME NEW D, IsFiniteSet(D), NEW W \in SUBSET (SUBSET D), W # {}
  PROVE  \E T \in W : \A U \in W : U \subseteq T => U = T
  <1>1. W \subseteq FiniteSubsetsOf(D)
    BY FS_FiniteSubsetsOfFinite
  <1>2. PICK T \in W : \A U \in W : ~ (<<U, T>> \in StrictSubsetOrdering(D))
    BY <1>1, WFMin, FS_StrictSubsetOrderingWellFounded
  <1>3. \A U \in W : <<U, T>> \in StrictSubsetOrdering(D) <=> U \subseteq T /\ U # T
    BY DEF StrictSubsetOrdering
  <1>4. ASSUME NEW U \in W, U \subseteq T
        PROVE  U = T
    BY <1>2, <1>3, <1>4
  <1>5. QED
    BY <1>4

Units(f, D) == {u \in D \X Nat : u[2] \in 1 .. f[u[1]]}

LEMMA UnitsOfOne ==
  ASSUME NEW x, NEW n \in Nat
  PROVE  IsFiniteSet({x} \X (1 .. n)) /\ Cardinality({x} \X (1 .. n)) = n
  <1>1. IsFiniteSet({x}) /\ Cardinality({x}) = 1
    BY FS_Singleton
  <1>2. IsFiniteSet(1 .. n) /\ Cardinality(1 .. n) = n
    BY FS_Interval
  <1>3. /\ IsFiniteSet({x} \X (1 .. n))
        /\ Cardinality({x} \X (1 .. n)) = Cardinality({x}) * Cardinality(1 .. n)
    BY <1>1, <1>2, FS_Product
  <1>4. QED
    BY <1>1, <1>2, <1>3

LEMMA UnitsAdd ==
  ASSUME NEW f, NEW S, NEW x \in S, f[x] \in Nat, IsFiniteSet(Units(f, S \ {x}))
  PROVE  /\ IsFiniteSet(Units(f, S))
         /\ Cardinality(Units(f, S)) = f[x] + Cardinality(Units(f, S \ {x}))
  <1> DEFINE X == {x} \X (1 .. f[x])
             Y == Units(f, S \ {x})
  <1>1. Units(f, S) = X \union Y
    BY DEF Units
  <1>2. X \intersect Y = {}
    BY DEF Units
  <1>3. IsFiniteSet(X) /\ Cardinality(X) = f[x]
    BY UnitsOfOne
  <1>5. IsFiniteSet(Y) /\ Cardinality(Y) \in Nat /\ Cardinality(X \intersect Y) = 0
    BY <1>2, FS_CardinalityType, FS_EmptySet
  <1> HIDE DEF X, Y
  <1>4. /\ IsFiniteSet(X \union Y)
        /\ Cardinality(X \union Y) = Cardinality(X) + Cardinality(Y) - Cardinality(X \intersect Y)
    BY <1>3, <1>5, FS_Union
  <1>6. IsFiniteSet(X \union Y) /\ Cardinality(X \union Y) = f[x] + Cardinality(Y)
    BY <1>3, <1>4, <1>5
  <1>7. QED
    BY <1>1, <1>6 DEF Y

LEMMA UnitsFinite ==
  ASSUME NEW D, IsFiniteSet(D), NEW f, \A x \in D : f[x] \in Nat
  PROVE  \A S \in SUBSET D : IsFiniteSet(Units(f, S))
  <1> DEFINE W == {S \in SUBSET D : ~ IsFiniteSet(Units(f, S))}
  <1> SUFFICES ASSUME W # {} PROVE FALSE
    OBVIOUS
  <1>0. W \in SUBSET (SUBSET D)
    OBVIOUS
  <1>1. PICK T \in W : \A U \in W : U \subseteq T => U = T
    <2> HIDE DEF W
    <2> QED
      BY <1>0, LeastSubset
  <1>2. T # {}
    <2>1. Units(f, {}) = {}
      BY DEF Units
    <2>2. QED
      BY <2>1, FS_EmptySet
  <1>3. PICK x \in T : TRUE
    BY <1>2
  <1>4. T \ {x} \notin W /\ T \ {x} \in SUBSET D
    BY <1>1, <1>3
  <1>5. QED
    BY <1>3, <1>4, UnitsAdd

\* g adds f up over each subset of D, an element at a time.
SumsUp(g, f, D) ==
  g = [s \in SUBSET D |->
         IF s = {} THEN 0
         ELSE f[CHOOSE x \in s : TRUE] + g[s \ {CHOOSE x \in s : TRUE}]]

LEMMA CountSumsUp ==
  ASSUME NEW D, IsFiniteSet(D), NEW f, \A x \in D : f[x] \in Nat
  PROVE  SumsUp([s \in SUBSET D |-> Cardinality(Units(f, s))], f, D)
  <1> DEFINE count == [s \in SUBSET D |-> Cardinality(Units(f, s))]
  <1> SUFFICES ASSUME NEW s \in SUBSET D
               PROVE  count[s] = IF s = {} THEN 0
                                 ELSE f[CHOOSE x \in s : TRUE]
                                        + count[s \ {CHOOSE x \in s : TRUE}]
    BY DEF SumsUp
  <1>1. CASE s = {}
    <2>1. Units(f, s) = {}
      BY <1>1 DEF Units
    <2>2. QED
      BY <1>1, <2>1, FS_EmptySet
  <1>2. CASE s # {}
    <2>1. PICK x : x = CHOOSE y \in s : TRUE
      OBVIOUS
    <2>2. x \in s /\ f[x] \in Nat
      BY <1>2, <2>1
    <2>3. IsFiniteSet(Units(f, s \ {x}))
      BY UnitsFinite
    <2>4. Cardinality(Units(f, s)) = f[x] + Cardinality(Units(f, s \ {x}))
      BY <2>2, <2>3, UnitsAdd
    <2>5. s \ {x} \in SUBSET D
      OBVIOUS
    <2>6. count[s] = f[x] + count[s \ {x}]
      BY <2>4, <2>5
    <2> HIDE DEF count
    <2>7. QED
      BY <1>2, <2>1, <2>6
  <1>3. QED
    BY <1>1, <1>2

\* Whatever sums up, in whatever order, counts.
LEMMA SumIsCount ==
  ASSUME NEW D, IsFiniteSet(D), NEW f, \A x \in D : f[x] \in Nat,
         NEW g, SumsUp(g, f, D)
  PROVE  g[D] = Cardinality(Units(f, D))
  <1> DEFINE count == [s \in SUBSET D |-> Cardinality(Units(f, s))]
             W == {s \in SUBSET D : g[s] # count[s]}
  <1>1. W = {}
    <2> SUFFICES ASSUME W # {} PROVE FALSE
      OBVIOUS
    <2>1. W \in SUBSET (SUBSET D)
      OBVIOUS
    <2>2. PICK T \in W : \A U \in W : U \subseteq T => U = T
      <3> HIDE DEF W
      <3> QED
        BY <2>1, LeastSubset
    <2>3. PICK x : x = CHOOSE y \in T : TRUE
      OBVIOUS
    <2>4. T \in SUBSET D /\ g[T] # count[T]
      OBVIOUS
    <2>5. SumsUp(count, f, D)
      BY CountSumsUp
    <2> HIDE DEF count
    <2>6. g[T] = IF T = {} THEN 0 ELSE f[x] + g[T \ {x}]
      BY <2>3, <2>4 DEF SumsUp
    <2>7. count[T] = IF T = {} THEN 0 ELSE f[x] + count[T \ {x}]
      BY <2>3, <2>4, <2>5 DEF SumsUp
    <2>8. T # {}
      BY <2>4, <2>6, <2>7
    <2>9. x \in T
      BY <2>8, <2>3
    <2>10. T \ {x} \in SUBSET D /\ T \ {x} # T /\ T \ {x} \subseteq T
      BY <2>9
    <2>11. g[T \ {x}] = count[T \ {x}]
      BY <2>10, <2>2
    <2>12. QED
      BY <2>4, <2>6, <2>7, <2>8, <2>11
  <1>2. g[D] = count[D]
    BY <1>1
  <1>3. QED
    BY <1>2

\* The candidates of a set of batches, as units.
KeptUnits(S) == Units([b \in Batch |-> b.kept], S)
VetoedUnits(S) == Units([b \in Batch |-> b.vetoed], S)

LEMMA KeptIsCount ==
  ASSUME NEW S \in SUBSET Batch
  PROVE  IsFiniteSet(KeptUnits(S)) /\ KeptOf(S) = Cardinality(KeptUnits(S))
<1> DEFINE f == [b \in Batch |-> b.kept]
           First(s) == CHOOSE b \in s : TRUE
           It(g) == g = [s \in SUBSET S |->
                           IF s = {} THEN 0 ELSE First(s).kept + g[s \ {First(s)}]]
           iter == CHOOSE g : It(g)
<1>1. KeptOf(S) = iter[S]
  BY DEF KeptOf, MapThenSumSet, MapThenFoldSet
<1>2. IsFiniteSet(S) /\ \A b \in S : f[b] \in Nat
  BY FS_Subset
<1>3. ASSUME NEW g
      PROVE  It(g) <=> SumsUp(g, f, S)
  <2>1. ASSUME NEW s \in SUBSET S
        PROVE  (IF s = {} THEN 0 ELSE First(s).kept + g[s \ {First(s)}])
               = (IF s = {} THEN 0 ELSE f[First(s)] + g[s \ {First(s)}])
    <3>1. s # {} => f[First(s)] = First(s).kept
      OBVIOUS
    <3> QED
      BY <3>1
  <2> QED
    BY <2>1 DEF SumsUp
<1>4. \E g : It(g)
  BY <1>2, <1>3, CountSumsUp
<1>5. SumsUp(iter, f, S)
  BY <1>3, <1>4
<1>6. KeptUnits(S) = Units(f, S)
  BY DEF KeptUnits
<1> HIDE DEF f, iter
<1>7. iter[S] = Cardinality(Units(f, S)) /\ IsFiniteSet(Units(f, S))
  BY <1>2, <1>5, SumIsCount, UnitsFinite
<1> QED
  BY <1>1, <1>6, <1>7

LEMMA VetoedIsCount ==
  ASSUME NEW S \in SUBSET Batch
  PROVE  IsFiniteSet(VetoedUnits(S)) /\ VetoedOf(S) = Cardinality(VetoedUnits(S))
<1> DEFINE f == [b \in Batch |-> b.vetoed]
           First(s) == CHOOSE b \in s : TRUE
           It(g) == g = [s \in SUBSET S |->
                           IF s = {} THEN 0 ELSE First(s).vetoed + g[s \ {First(s)}]]
           iter == CHOOSE g : It(g)
<1>1. VetoedOf(S) = iter[S]
  BY DEF VetoedOf, MapThenSumSet, MapThenFoldSet
<1>2. IsFiniteSet(S) /\ \A b \in S : f[b] \in Nat
  BY FS_Subset
<1>3. ASSUME NEW g
      PROVE  It(g) <=> SumsUp(g, f, S)
  <2>1. ASSUME NEW s \in SUBSET S
        PROVE  (IF s = {} THEN 0 ELSE First(s).vetoed + g[s \ {First(s)}])
               = (IF s = {} THEN 0 ELSE f[First(s)] + g[s \ {First(s)}])
    <3>1. s # {} => f[First(s)] = First(s).vetoed
      OBVIOUS
    <3> QED
      BY <3>1
  <2> QED
    BY <2>1 DEF SumsUp
<1>4. \E g : It(g)
  BY <1>2, <1>3, CountSumsUp
<1>5. SumsUp(iter, f, S)
  BY <1>3, <1>4
<1>6. VetoedUnits(S) = Units(f, S)
  BY DEF VetoedUnits
<1> HIDE DEF f, iter
<1>7. iter[S] = Cardinality(Units(f, S)) /\ IsFiniteSet(Units(f, S))
  BY <1>2, <1>5, SumIsCount, UnitsFinite
<1> QED
  BY <1>1, <1>6, <1>7

LEMMA SumsAdd ==
  ASSUME NEW S \in SUBSET Batch, NEW b \in Batch, b \notin S
  PROVE  /\ KeptOf(S) \in Nat /\ VetoedOf(S) \in Nat
         /\ VetoedOf(S \union {b}) = VetoedOf(S) + b.vetoed
<1> DEFINE T == S \union {b}
           vetoed == [c \in Batch |-> c.vetoed]
<1>1. /\ T \in SUBSET Batch /\ b \in T /\ T \ {b} = S
      /\ vetoed[b] = b.vetoed /\ vetoed[b] \in Nat
  OBVIOUS
<1>2. /\ IsFiniteSet(VetoedUnits(S)) /\ VetoedOf(S) = Cardinality(VetoedUnits(S))
      /\ IsFiniteSet(KeptUnits(S)) /\ KeptOf(S) = Cardinality(KeptUnits(S))
      /\ VetoedOf(T) = Cardinality(VetoedUnits(T))
  BY <1>1, KeptIsCount, VetoedIsCount
<1>3. VetoedUnits(S) = Units(vetoed, S) /\ VetoedUnits(T) = Units(vetoed, T)
  BY DEF VetoedUnits
<1>4. VetoedOf(S) \in Nat /\ KeptOf(S) \in Nat
  BY <1>2, FS_CardinalityType
<1> HIDE DEF T, vetoed
<1>5. IsFiniteSet(Units(vetoed, T \ {b}))
  BY <1>1, <1>2, <1>3
<1>6. Cardinality(Units(vetoed, T)) = vetoed[b] + Cardinality(Units(vetoed, T \ {b}))
  <2>1. b \in T /\ vetoed[b] \in Nat
    BY <1>1
  <2> QED
    BY <2>1, <1>5, UnitsAdd
<1>7. VetoedOf(T) = b.vetoed + VetoedOf(S)
  BY <1>1, <1>2, <1>3, <1>6
<1>8. VetoedOf(T) = VetoedOf(S) + b.vetoed
  BY <1>4, <1>7
<1> QED
  BY <1>4, <1>8 DEF T

LEMMA SumsType ==
  ASSUME NEW S \in SUBSET Batch
  PROVE  KeptOf(S) \in Nat /\ VetoedOf(S) \in Nat
  BY KeptIsCount, VetoedIsCount, FS_CardinalityType

LEMMA VetoedOfNone == VetoedOf({}) = 0
<1>1. VetoedUnits({}) = {}
  BY DEF VetoedUnits, Units
<1> QED
  BY <1>1, VetoedIsCount, FS_EmptySet

(***************************************************************************)
(* What an entry's veto count stands for.  A key whose start time cannot   *)
(* be read is out of step, its vetoed candidates being counted before the  *)
(* reading raises; but then nothing of it is kept and it gets no row.      *)
(***************************************************************************)
AccountInv ==
  /\ \A k \in Key : k \notin BadStart => pendingVetoed[k] = VetoedOf(pending[k])
  /\ \A k \in BadStart : \A b \in pending[k] : b.kept = 0
  /\ \A g \in Groups : /\ g.cands = KeptOf(g.from) + VetoedOf(g.from)
                       /\ g.vetoed = VetoedOf(g.from)
                       /\ g.shed <= KeptOf(g.from)

LEMMA AccountInit == Init => AccountInv
  BY VetoedOfNone DEF Init, AccountInv, Groups

LEMMA ShedWithin ==
  ASSUME NEW n \in Nat, NEW shed \in ShedChoices(n)
  PROVE  shed <= n
  BY DEF ShedChoices

LEMMA AccountStep == TypeOK /\ FateInv /\ AccountInv /\ [Next]_vars => AccountInv'
<1> SUFFICES ASSUME TypeOK, FateInv, AccountInv, [Next]_vars
             PROVE  AccountInv'
  OBVIOUS
<1> USE DEF AccountInv
<1>1. ASSUME NEW b \in Batch, Handle(b)
      PROVE  AccountInv'
  <2>1. b.key \in Key /\ b \notin pending[b.key] /\ pending[b.key] \in SUBSET Batch
    BY <1>1 DEF Handle, CanArrive, Taken, Unsent, FateInv, HeldPart, TypeOK
  <2>2. VetoedOf(pending[b.key] \union {b}) = VetoedOf(pending[b.key]) + b.vetoed
    BY <2>1, SumsAdd
  <2>3. /\ pending' = [pending EXCEPT ![b.key] = pending[b.key] \union {b}]
        /\ pendingVetoed' = [pendingVetoed EXCEPT ![b.key] = pendingVetoed[b.key] + b.vetoed]
        /\ Groups' = Groups
        /\ b.key \in BadStart => b.kept = 0
    BY <1>1 DEF Handle, CountVetoed, Groups
  <2>4. \A k \in Key : k \notin BadStart => pendingVetoed'[k] = VetoedOf(pending'[k])
    BY <2>1, <2>2, <2>3 DEF TypeOK
  <2>5. \A k \in BadStart : \A c \in pending'[k] : c.kept = 0
    BY <2>1, <2>3 DEF TypeOK
  <2> QED
    BY <2>3, <2>4, <2>5
<1>2. ASSUME NEW b \in Batch, HandleRaises(b)
      PROVE  AccountInv'
  <2>1. /\ b.key \in BadStart /\ pending' = pending /\ Groups' = Groups
        /\ pendingVetoed' = [pendingVetoed EXCEPT ![b.key] = @ + b.vetoed]
    BY <1>2 DEF HandleRaises, CountVetoed, Groups
  <2> QED
    BY <2>1 DEF TypeOK
<1>3. ASSUME NEW k \in Key, Flush(k)
      PROVE  /\ \A j \in Key : j \notin BadStart => pendingVetoed'[j] = VetoedOf(pending'[j])
             /\ \A j \in BadStart : \A b \in pending'[j] : b.kept = 0
  BY <1>3, VetoedOfNone DEF Flush, PopEntry, TypeOK
<1>4. ASSUME NEW k \in Key, k \notin BadStart, NEW o, NEW shed, shed <= KeptOf(pending[k])
      PROVE  LET r == RowOf(k, o, shed) IN
             /\ r.cands = KeptOf(r.from) + VetoedOf(r.from)
             /\ r.vetoed = VetoedOf(r.from)
             /\ r.shed <= KeptOf(r.from)
  BY <1>4 DEF RowOf
<1>5. ASSUME NEW k \in Key, FlushSkipped(k) \/ FlushQuiet(k)
      PROVE  AccountInv'
  <2>1. PICK o : Groups' = Groups \union {RowOf(k, o, 0)}
    BY <1>5 DEF FlushSkipped, FlushQuiet, Groups
  <2>2. Flush(k) /\ k \notin BadStart
    BY <1>5 DEF FlushSkipped, FlushQuiet
  <2>3. 0 <= KeptOf(pending[k])
    BY SumsType DEF TypeOK
  <2> QED
    BY <1>3, <1>4, <2>1, <2>2, <2>3
<1>6. ASSUME NEW k \in Key, FlushToClustering(k)
      PROVE  AccountInv'
  <2>1. PICK shed \in ShedChoices(KeptOf(pending[k])) :
          Groups' = Groups \union {RowOf(k, "clustered", shed)}
    BY <1>6 DEF FlushToClustering, Groups
  <2>2. Flush(k) /\ k \notin BadStart
    BY <1>6 DEF FlushToClustering, Quiet
  <2>3. KeptOf(pending[k]) \in Nat
    BY SumsType DEF TypeOK
  <2>4. shed <= KeptOf(pending[k])
    BY <2>3, ShedWithin
  <2> QED
    BY <1>3, <1>4, <2>1, <2>2, <2>4
<1>7. ASSUME NEW k \in Key, FlushRaises(k)
      PROVE  AccountInv'
  BY <1>3, <1>7 DEF FlushRaises, Groups
<1>8. ASSUME NEW t \in tasks, ClusteringEnds(t) \/ ClusteringRaises(t)
      PROVE  AccountInv'
  BY <1>8 DEF ClusteringEnds, ClusteringRaises, memory, Groups
<1>9. CASE Restart
  BY <1>9, VetoedOfNone DEF Restart, Groups
<1>10. ASSUME NEW b \in Batch, ReadFails(b)
       PROVE  AccountInv'
  BY <1>10 DEF ReadFails, memory, Groups
<1>11. ASSUME NEW k \in Key, Sleep(k)
       PROVE  AccountInv'
  BY <1>11 DEF Sleep, Groups
<1>12. CASE Tick \/ UNCHANGED vars
  BY <1>12 DEF Tick, vars, memory, Groups
<1> QED
  BY <1>1, <1>2, <1>5, <1>6, <1>7, <1>8, <1>9, <1>10, <1>11, <1>12 DEF Next, RunWaiter

(***************************************************************************)
(* A row accounts for the batches it was made of, no more and no less:     *)
(* jobs, raw and vetoed candidates.                                        *)
(***************************************************************************)
THEOREM RowsAccountCorrect == Spec => []RowsAccountForBatches
<1>1. CountInv /\ AccountInv => RowsAccountForBatches
  BY DEF CountInv, AccountInv, RowsAccountForBatches
<1> QED
  BY <1>1, TypeInit, TypeStep, FateInit, FateStep, CountInit, CountStep, AccountInit,
     AccountStep, PTL DEF Spec

================================================================================
