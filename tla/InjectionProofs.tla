---------------------------- MODULE InjectionProofs ----------------------------
(***************************************************************************)
(* Theorems about the injection bot, for every set of manual shots and     *)
(* spots and every cadence, window, day length and streak.                 *)
(***************************************************************************)
EXTENDS Injection, FiniteSetTheorems, SequenceTheorems, TLAPS

-----------------------------------------------------------------------------
(***************************************************************************)
(* Rows                                                                    *)
(***************************************************************************)

\* One row more, at the end.
Added(r) ==
  /\ ledger' \in Seq(Row) /\ Len(ledger') = Len(ledger) + 1
  /\ \A i \in Id : ledger'[i] = ledger[i]
  /\ ledger'[Len(ledger) + 1] = r

\* One row changed, in its outcome or in its dump.
Edited(i) ==
  /\ ledger' \in Seq(Row) /\ Len(ledger') = Len(ledger)
  /\ \A j \in Id \ {i} : ledger'[j] = ledger[j]
  /\ ledger'[i].name = ledger[i].name /\ ledger'[i].at = ledger[i].at
  /\ ledger'[i].spot = ledger[i].spot /\ ledger'[i].by = ledger[i].by

LEMMA AddRowAdds ==
  ASSUME ledger \in Seq(Row), NEW r \in Row, AddRow(r)
  PROVE  Added(r)
  BY AppendProperties DEF AddRow, Added, Id

LEMMA RowType ==
  ASSUME ledger \in Seq(Row), NEW i \in Id
  PROVE  /\ ledger[i] \in Row
         /\ ledger[i].name \in Nat \X Nat /\ ledger[i].at \in Nat /\ ledger[i].spot \in Spot
         /\ ledger[i].by \in Bot /\ ledger[i].outcome \in Outcome \union {None}
         /\ ledger[i].dump \in Dump
<1>1. ledger[i] \in Row
  BY ElementOfSeq DEF Id
<1> QED
  BY <1>1 DEF Row

LEMMA OutcomeEdits ==
  ASSUME ledger \in Seq(Row), NEW i \in Id, NEW o \in Outcome,
         ledger' = [ledger EXCEPT ![i].outcome = o]
  PROVE  /\ Edited(i)
         /\ ledger'[i].outcome = o /\ ledger'[i].dump = ledger[i].dump
<1>1. ledger[i] \in Row
  BY RowType
<1>2. PICK r \in Row : ledger[i] = r
  BY <1>1
<1> DEFINE new == [name |-> r.name, at |-> r.at, spot |-> r.spot, by |-> r.by,
                               outcome |-> o, dump |-> r.dump]
<1>3. new \in Row /\ [r EXCEPT !.outcome = o] = new
  BY DEF Row
<1>4. ledger' = [ledger EXCEPT ![i] = [ledger[i] EXCEPT !.outcome = o]]
  BY Zenon
<1>5. ledger' = [ledger EXCEPT ![i] = new]
  BY <1>2, <1>3, <1>4, Zenon
<1>6. /\ ledger' \in Seq(Row) /\ Len(ledger') = Len(ledger)
      /\ \A j \in Id : ledger'[j] = IF j = i THEN new ELSE ledger[j]
  <2> HIDE DEF new
  <2> QED
    BY <1>3, <1>5, ExceptSeq DEF Id
<1> QED
  BY <1>2, <1>6 DEF Edited

LEMMA DumpEdits ==
  ASSUME ledger \in Seq(Row), NEW i \in Id, NEW w \in Dump,
         ledger' = [ledger EXCEPT ![i].dump = w]
  PROVE  /\ Edited(i)
         /\ ledger'[i].outcome = ledger[i].outcome /\ ledger'[i].dump = w
<1>1. ledger[i] \in Row
  BY RowType
<1>2. PICK r \in Row : ledger[i] = r
  BY <1>1
<1> DEFINE new == [name |-> r.name, at |-> r.at, spot |-> r.spot, by |-> r.by,
                               outcome |-> r.outcome, dump |-> w]
<1>3. new \in Row /\ [r EXCEPT !.dump = w] = new
  BY DEF Row
<1>4. ledger' = [ledger EXCEPT ![i] = [ledger[i] EXCEPT !.dump = w]]
  BY Zenon
<1>5. ledger' = [ledger EXCEPT ![i] = new]
  BY <1>2, <1>3, <1>4, Zenon
<1>6. /\ ledger' \in Seq(Row) /\ Len(ledger') = Len(ledger)
      /\ \A j \in Id : ledger'[j] = IF j = i THEN new ELSE ledger[j]
  <2> HIDE DEF new
  <2> QED
    BY <1>3, <1>5, ExceptSeq DEF Id
<1> QED
  BY <1>2, <1>6 DEF Edited

-----------------------------------------------------------------------------
(***************************************************************************)
(* Types                                                                   *)
(***************************************************************************)

\* Rows are in the order of their times, and none is of the future.
AtPart ==
  /\ now \in Nat
  /\ \A i \in Id : ledger[i].at <= now
  /\ \A i, j \in Id : i <= j => ledger[i].at <= ledger[j].at

\* The numbers of a day have a highest one.
NumberPart ==
  \A d \in Nat : \E n \in Nat :
    /\ n = 0 \/ \E i \in Id : ledger[i].name = <<d, n>>
    /\ \A i \in Id : ledger[i].name[1] = d => ledger[i].name[2] <= n

SpotPart == \A b \in Bot : pc[b] \in Underway => spot[b] \in Spot

TypeInv == TypeOK /\ AtPart /\ NumberPart /\ SpotPart

LEMMA MaxIs ==
  ASSUME NEW S, S \subseteq Int, NEW m \in S, \A x \in S : x <= m
  PROVE  Max(S) = m
<1>1. Max(S) \in S /\ \A y \in S : Max(S) >= y
  BY DEF Max
<1>2. Max(S) >= m /\ Max(S) <= m
  BY <1>1
<1>3. Max(S) \in Int /\ m \in Int
  BY <1>1
<1> QED
  BY <1>2, <1>3

LEMMA MinIs ==
  ASSUME NEW S, S \subseteq Int, NEW m \in S, \A x \in S : m <= x
  PROVE  Min(S) = m
<1>1. Min(S) \in S /\ \A y \in S : Min(S) <= y
  BY DEF Min
<1>2. Min(S) >= m /\ Min(S) <= m
  BY <1>1
<1>3. Min(S) \in Int /\ m \in Int
  BY <1>1
<1> QED
  BY <1>2, <1>3

LEMMA MinOfTwo ==
  ASSUME NEW m \in Int, NEW n \in Int
  PROVE  Min({m, n}) = IF m <= n THEN m ELSE n
<1>1. CASE m <= n
  BY <1>1, MinIs
<1>2. CASE n < m
  BY <1>2, MinIs
<1> QED
  BY <1>1, <1>2

LEMMA MaxOfTwo ==
  ASSUME NEW m \in Int, NEW n \in Int
  PROVE  Max({m, n}) = IF m <= n THEN n ELSE m
<1>1. CASE m <= n
  BY <1>1, MaxIs
<1>2. CASE n < m
  BY <1>2, MaxIs
<1> QED
  BY <1>1, <1>2

LEMMA AfterShotType == AfterShot \in Nat /\ AfterShot >= MinRest
  BY BoundAssumption, MaxOfTwo DEF AfterShot

LEMMA TodayType ==
  ASSUME now \in Nat
  PROVE  Today \in Nat
  BY BoundAssumption, SMT DEF Today

\* A restart waits out the cadence from the newest row.
LEMMA FirstShotAtIs ==
  ASSUME TypeInv
  PROVE  /\ FirstShotAt \in Nat /\ FirstShotAt >= now
         /\ \A i \in Id : FirstShotAt >= ledger[i].at + Cadence
<1>1. /\ ledger \in Seq(Row) /\ now \in Nat /\ Cadence \in Nat
      /\ \A i, j \in Id : i <= j => ledger[i].at <= ledger[j].at
  BY BoundAssumption DEF TypeInv, TypeOK, AtPart
<1>2. CASE ledger = <<>>
  BY <1>1, <1>2 DEF FirstShotAt, Id
<1>3. CASE ledger # <<>>
  <2> DEFINE last == ledger[Len(ledger)].at
             S == {r.at : r \in Range(ledger)}
  <2>1. Len(ledger) \in Id /\ DOMAIN ledger = Id
    BY <1>1, <1>3, EmptySeq, LenProperties DEF Id
  <2>2. S = {ledger[i].at : i \in Id}
    BY <2>1 DEF Range
  <2>3. \A i \in Id : i <= Len(ledger) /\ ledger[i].at \in Nat
    BY <1>1, RowType DEF Id
  <2>4. S \subseteq Int /\ last \in S /\ \A x \in S : x <= last
    <3> HIDE DEF S
    <3>1. \A i \in Id : ledger[i].at <= last /\ ledger[i].at \in Int
      BY <1>1, <2>1, <2>3
    <3> QED
      BY <2>1, <2>2, <3>1
  <2>5. Max(S) = last /\ last \in Nat
    <3> HIDE DEF S, last
    <3>1. Max(S) = last
      BY <2>4, MaxIs
    <3> QED
      BY <2>1, <2>3, <3>1 DEF last
  <2>6. FirstShotAt = Max({now, last + Cadence})
    BY <1>3, <2>5 DEF FirstShotAt
  <2>7. FirstShotAt = IF now <= last + Cadence THEN last + Cadence ELSE now
    <3> HIDE DEF last
    <3> QED
      BY <1>1, <2>5, <2>6, MaxOfTwo
  <2>8. \A i \in Id : ledger[i].at <= last /\ ledger[i].at \in Nat
    BY <2>2, <2>3, <2>4
  <2> QED
    <3> HIDE DEF last
    <3> QED
      BY <1>1, <2>5, <2>7, <2>8
<1> QED
  BY <1>2, <1>3

\* next_file_id gives a name that no row has.
LEMMA NextNameIsNew ==
  ASSUME TypeInv
  PROVE  /\ NextName \in Nat \X Nat /\ NextName[1] = Today /\ NextName[2] > 0
         /\ \A i \in Id : ledger[i].name # NextName
<1>1. ledger \in Seq(Row) /\ Today \in Nat
  BY TodayType DEF TypeInv, TypeOK, AtPart
<1>2. PICK n \in Nat :
        /\ n = 0 \/ \E i \in Id : ledger[i].name = <<Today, n>>
        /\ \A i \in Id : ledger[i].name[1] = Today => ledger[i].name[2] <= n
  BY <1>1 DEF TypeInv, NumberPart
<1> DEFINE S == {0} \union {r.name[2] : r \in {q \in Range(ledger) : q.name[1] = Today}}
<1>3. DOMAIN ledger = Id
  BY <1>1, LenProperties DEF Id
<1>4. S = {0} \union {ledger[i].name[2] : i \in {j \in Id : ledger[j].name[1] = Today}}
  BY <1>3 DEF Range
<1>5. \A i \in Id : ledger[i].name \in Nat \X Nat
  BY <1>1, RowType
<1>6. S \subseteq Int /\ n \in S /\ \A x \in S : x <= n
  <2> HIDE DEF S
  <2>1. \A i \in Id : ledger[i].name[2] \in Int
    BY <1>5
  <2>2. n \in S
    BY <1>2, <1>4
  <2> QED
    BY <1>2, <1>4, <2>1, <2>2
<1>7. Max(S) = n
  <2> HIDE DEF S
  <2> QED
    BY <1>6, MaxIs
<1>8. NextName = <<Today, 1 + n>>
  BY <1>7 DEF NextName
<1> QED
  BY <1>1, <1>2, <1>5, <1>8


-----------------------------------------------------------------------------
(***************************************************************************)
(* The type invariant, in parts                                            *)
(***************************************************************************)

ProcPart ==
  /\ pc \in [Bot -> {"down", "asleep", "drawing", "exited"} \union Underway]
  /\ wakeAt \in [Bot -> Nat] /\ spot \in [Bot -> Spot \union {None}]
  /\ name \in [Bot -> Nat \X Nat] /\ hasDump \in [Bot -> BOOLEAN]
  /\ shot \in [Bot -> Nat]

TablePart == ledger \in Seq(Row) /\ alerts \in Seq([n: Nat, id: Id])

\* What a process's place says of its shot.
ShotOf(b) ==
  /\ shot[b] <= Len(ledger)
  /\ pc[b] \in Underway \ {"making"} <=> shot[b] # 0
  /\ shot[b] # 0 =>
       (ledger[shot[b]].outcome = None <=> pc[b] \notin {"reporting", "completing"})
  /\ hasDump[b] => shot[b] # 0 /\ ledger[shot[b]].dump # <<>>

SkyPart == (\A p \in pulses : p.id \in Id) /\ late \subseteq clusters

\* No two processes are at one shot.
Distinct == \A b, c \in Bot : b # c /\ shot[b] # 0 => shot[b] # shot[c]

BotInv == TypeInv /\ Distinct

Parts == ProcPart /\ TablePart /\ SkyPart /\ \A b \in Bot : ShotOf(b)

LEMMA PartsType == ASSUME Parts PROVE TypeOK
<1>1. Len(ledger) \in Nat
  BY LenProperties DEF Parts, TablePart
<1>2. shot \in [Bot -> 0 .. Len(ledger)]
  BY <1>1 DEF Parts, ProcPart, ShotOf
<1> QED
  BY <1>2 DEF TypeOK, Parts, ProcPart, TablePart, SkyPart, ShotOf

LEMMA PartsTypeNext == ASSUME Parts' PROVE TypeOK'
<1>1. Len(ledger') \in Nat
  BY LenProperties DEF Parts, TablePart
<1>2. shot' \in [Bot -> 0 .. Len(ledger')]
  BY <1>1 DEF Parts, ProcPart, ShotOf
<1> QED
  BY <1>2 DEF TypeOK, Parts, ProcPart, TablePart, SkyPart, ShotOf

LEMMA TypeParts ==
  TypeOK <=> ProcPart /\ TablePart /\ SkyPart /\ \A b \in Bot : ShotOf(b)
<1>1. ASSUME TypeOK
      PROVE  ProcPart /\ TablePart /\ SkyPart /\ \A b \in Bot : ShotOf(b)
  BY <1>1 DEF TypeOK, ProcPart, TablePart, SkyPart, ShotOf
<1>2. ASSUME ProcPart, TablePart, SkyPart, \A b \in Bot : ShotOf(b)
      PROVE  TypeOK
  BY <1>2, PartsType DEF Parts
<1> QED
  BY <1>1, <1>2

\* A step of b leaves the other processes alone.
OthersKeep(b) ==
  \A c \in Bot \ {b} :
    /\ pc'[c] = pc[c] /\ wakeAt'[c] = wakeAt[c] /\ shot'[c] = shot[c]
    /\ spot'[c] = spot[c] /\ name'[c] = name[c] /\ hasDump'[c] = hasDump[c]

LEMMA RestEnds ==
  ASSUME ProcPart, now \in Nat, NEW b \in Bot, NEW d \in Nat, Rest(b, d)
  PROVE  /\ ProcPart' /\ OthersKeep(b)
         /\ pc'[b] = (IF b = Service THEN "asleep" ELSE "exited")
         /\ wakeAt'[b] = (IF b = Service THEN now + d ELSE 0)
         /\ shot'[b] = 0 /\ hasDump'[b] = FALSE
<1>1. NoName \in Nat \X Nat
  BY DEF NoName
<1>2. pc' \in [Bot -> {"down", "asleep", "drawing", "exited"} \union Underway]
  BY DEF Rest, ProcPart
<1>3. /\ wakeAt' \in [Bot -> Nat] /\ shot' \in [Bot -> Nat]
      /\ spot' \in [Bot -> Spot \union {None}] /\ hasDump' \in [Bot -> BOOLEAN]
      /\ name' \in [Bot -> Nat \X Nat]
  BY <1>1 DEF Rest, Forgets, ProcPart
<1> QED
  BY <1>2, <1>3 DEF Rest, Forgets, ProcPart, OthersKeep

\* The rows of the other processes' shots stay as they are.
Rows(b) ==
  \/ UNCHANGED ledger
  \/ \E r \in Row : Added(r)
  \/ shot[b] # 0 /\ Edited(shot[b])

LEMMA RowsKeep ==
  ASSUME BotInv, NEW b \in Bot, Rows(b)
  PROVE  /\ ledger' \in Seq(Row) /\ Len(ledger') \in Nat /\ Len(ledger) \in Nat
         /\ Len(ledger') >= Len(ledger) /\ Id \subseteq Id'
         /\ \A i \in Id : i # shot[b] => ledger'[i] = ledger[i]
<1>1. ledger \in Seq(Row) /\ Len(ledger) \in Nat
  BY LenProperties, TypeParts DEF BotInv, TypeInv, TablePart
<1>2. shot[b] # 0 => shot[b] \in Id
  BY <1>1, TypeParts DEF BotInv, TypeInv, ShotOf, ProcPart, Id
<1> QED
  BY <1>1, <1>2 DEF Rows, Added, Edited, Id

\* What a step of b has to show for the type invariant.
LEMMA BotStep ==
  ASSUME BotInv, NEW b \in Bot, ProcPart', OthersKeep(b), Rows(b), ShotOf(b)',
         shot'[b] \in {0, shot[b]} \/ shot'[b] = Len(ledger) + 1
  PROVE  (\A c \in Bot : ShotOf(c)') /\ Distinct'
<1>1. /\ Len(ledger') \in Nat /\ Len(ledger) \in Nat /\ Len(ledger') >= Len(ledger)
      /\ \A i \in Id : i # shot[b] => ledger'[i] = ledger[i]
  BY RowsKeep
<1>2. /\ \A c \in Bot : ShotOf(c) /\ shot[c] \in Nat /\ shot'[c] \in Nat
      /\ Distinct
  BY TypeParts DEF BotInv, TypeInv, ProcPart
<1>3. ASSUME NEW c \in Bot \ {b}
      PROVE  ShotOf(c)'
  <2>1. /\ pc'[c] = pc[c] /\ shot'[c] = shot[c] /\ hasDump'[c] = hasDump[c]
        /\ ShotOf(c) /\ shot[c] \in Nat
    BY <1>2 DEF OthersKeep
  <2>2. shot[c] # 0 => shot[c] \in Id /\ ledger'[shot[c]] = ledger[shot[c]]
    BY <1>1, <1>2, <2>1 DEF ShotOf, Id, Distinct
  <2> QED
    BY <1>1, <2>1, <2>2 DEF ShotOf
<1>4. Distinct'
  BY <1>1, <1>2 DEF Distinct, OthersKeep, ShotOf
<1> QED
  BY <1>3, <1>4


\* The parts of the type invariant that a step of b may disturb beside ShotOf.
LEMMA PartsStep ==
  ASSUME BotInv, NEW b \in Bot, ProcPart', OthersKeep(b), Rows(b), ShotOf(b)',
         shot'[b] \in {0, shot[b]} \/ shot'[b] = Len(ledger) + 1,
         alerts' \in Seq([n: Nat, id: Id]),
         (\A p \in pulses' : p.id \in Id) /\ late' \subseteq clusters'
  PROVE  TypeOK' /\ Distinct'
<1>1. ledger' \in Seq(Row) /\ Id \subseteq Id'
  BY RowsKeep
<1>2. [n: Nat, id: Id] \subseteq [n: Nat, id: Id']
  BY <1>1
<1>3. alerts' \in Seq([n: Nat, id: Id'])
  BY <1>2, SeqMonotonic
<1>4. TablePart' /\ SkyPart'
  BY <1>1, <1>3 DEF TablePart, SkyPart
<1>5. (\A c \in Bot : ShotOf(c)') /\ Distinct'
  BY BotStep
<1> QED
  BY <1>4, <1>5, PartsTypeNext DEF Parts

\* The other parts, for each way the rows may change.
LEMMA AddedKeeps ==
  ASSUME TypeInv, NEW r \in Row, Added(r), r.at = now, UNCHANGED now
  PROVE  AtPart' /\ NumberPart'
<1>1. /\ ledger \in Seq(Row) /\ Len(ledger) \in Nat /\ now \in Nat
      /\ Id' = Id \union {Len(ledger) + 1}
      /\ \A i \in Id : ledger'[i] = ledger[i] /\ i < Len(ledger) + 1
      /\ ledger'[Len(ledger) + 1] = r
  BY LenProperties DEF TypeInv, TypeOK, AtPart, Added, Id
<1>2. \A i \in Id : ledger[i].name \in Nat \X Nat /\ ledger[i].at \in Nat
  BY <1>1, RowType
<1>3. r.name \in Nat \X Nat /\ r.at \in Nat
  BY DEF Row
<1>4. AtPart'
  <2>1. \A i \in Id' : ledger'[i].at <= now
    BY <1>1, <1>2, <1>3 DEF TypeInv, AtPart
  <2>2. \A i, j \in Id' : i <= j => ledger'[i].at <= ledger'[j].at
    <3> TAKE i \in Id', j \in Id'
    <3> HAVE i <= j
    <3>1. CASE j \in Id
      <4>1. i \in Id
        BY <1>1, <3>1 DEF Id
      <4> QED
        BY <1>1, <3>1, <4>1 DEF TypeInv, AtPart
    <3>2. CASE j = Len(ledger) + 1
      BY <1>1, <2>1, <3>2
    <3> QED
      BY <1>1, <3>1, <3>2
  <2> QED
    BY <1>1, <2>1, <2>2 DEF AtPart
<1>5. ASSUME NEW d \in Nat
      PROVE  \E n \in Nat :
               /\ n = 0 \/ \E i \in Id' : ledger'[i].name = <<d, n>>
               /\ \A i \in Id' : ledger'[i].name[1] = d => ledger'[i].name[2] <= n
  <2>1. PICK n \in Nat :
          /\ n = 0 \/ \E i \in Id : ledger[i].name = <<d, n>>
          /\ \A i \in Id : ledger[i].name[1] = d => ledger[i].name[2] <= n
    BY DEF TypeInv, NumberPart
  <2>2. n = 0 \/ \E i \in Id' : ledger'[i].name = <<d, n>>
    BY <1>1, <2>1
  <2>3. CASE r.name[1] = d /\ r.name[2] > n
    <3>1. r.name = <<d, r.name[2]>> /\ r.name[2] \in Nat
      BY <1>3, <2>3
    <3>2. \A i \in Id : ledger'[i].name[1] = d => ledger'[i].name[2] <= r.name[2]
      BY <1>1, <1>2, <2>1, <2>3, <3>1
    <3>3. \E i \in Id' : ledger'[i].name = <<d, r.name[2]>>
      BY <1>1, <3>1
    <3>4. \A i \in Id' : ledger'[i].name[1] = d => ledger'[i].name[2] <= r.name[2]
      BY <1>1, <3>1, <3>2
    <3> QED
      BY <3>1, <3>3, <3>4
  <2>4. CASE ~ (r.name[1] = d /\ r.name[2] > n)
    <3>1. r.name[1] = d => r.name[2] <= n
      BY <1>3, <2>1, <2>4
    <3>2. \A i \in Id' : ledger'[i].name[1] = d => ledger'[i].name[2] <= n
      BY <1>1, <2>1, <3>1
    <3> QED
      BY <2>1, <2>2, <3>2
  <2> QED
    BY <2>3, <2>4
<1> QED
  BY <1>4, <1>5 DEF NumberPart

LEMMA EditedKeeps ==
  ASSUME TypeInv, NEW i \in Id, Edited(i), UNCHANGED now
  PROVE  AtPart' /\ NumberPart'
<1>1. /\ Id' = Id
      /\ \A j \in Id : ledger'[j].at = ledger[j].at /\ ledger'[j].name = ledger[j].name
  BY DEF Edited, Id
<1>2. AtPart'
  BY <1>1 DEF TypeInv, AtPart
<1>3. ASSUME NEW d \in Nat
      PROVE  \E n \in Nat :
               /\ n = 0 \/ \E j \in Id' : ledger'[j].name = <<d, n>>
               /\ \A j \in Id' : ledger'[j].name[1] = d => ledger'[j].name[2] <= n
  <2>1. PICK n \in Nat :
          /\ n = 0 \/ \E j \in Id : ledger[j].name = <<d, n>>
          /\ \A j \in Id : ledger[j].name[1] = d => ledger[j].name[2] <= n
    BY DEF TypeInv, NumberPart
  <2>2. \A j \in Id : ledger'[j].name = ledger[j].name
    BY <1>1
  <2>3. n = 0 \/ \E j \in Id' : ledger'[j].name = <<d, n>>
    BY <1>1, <2>1, <2>2
  <2>4. \A j \in Id' : ledger'[j].name[1] = d => ledger'[j].name[2] <= n
    BY <1>1, <2>1, <2>2
  <2> QED
    BY <2>1, <2>3, <2>4
<1> QED
  BY <1>2, <1>3 DEF NumberPart

LEMMA SameKeeps ==
  ASSUME TypeInv, UNCHANGED <<ledger, now>>
  PROVE  AtPart' /\ NumberPart'
<1>1. Id' = Id /\ ledger' = ledger /\ now' = now
  BY DEF Id
<1>2. AtPart'
  BY <1>1 DEF TypeInv, AtPart
<1>3. ASSUME NEW d \in Nat
      PROVE  \E n \in Nat :
               /\ n = 0 \/ \E j \in Id' : ledger'[j].name = <<d, n>>
               /\ \A j \in Id' : ledger'[j].name[1] = d => ledger'[j].name[2] <= n
  <2>1. PICK n \in Nat :
          /\ n = 0 \/ \E j \in Id : ledger[j].name = <<d, n>>
          /\ \A j \in Id : ledger[j].name[1] = d => ledger[j].name[2] <= n
    BY DEF TypeInv, NumberPart
  <2>2. \A j \in Id : ledger'[j].name = ledger[j].name
    BY <1>1
  <2>3. n = 0 \/ \E j \in Id' : ledger'[j].name = <<d, n>>
    BY <1>1, <2>1, <2>2
  <2>4. \A j \in Id' : ledger'[j].name[1] = d => ledger'[j].name[2] <= n
    BY <1>1, <2>1, <2>2
  <2> QED
    BY <2>1, <2>3, <2>4
<1> QED
  BY <1>2, <1>3 DEF NumberPart

\* What a step of b changes of the rows, with the time of a new one.
RowsNow(b) ==
  \/ UNCHANGED ledger
  \/ \E r \in Row : Added(r) /\ r.at = now
  \/ shot[b] # 0 /\ Edited(shot[b])

LEMMA BotInvStep ==
  ASSUME BotInv, NEW b \in Bot, ProcPart', OthersKeep(b), RowsNow(b), ShotOf(b)',
         shot'[b] \in {0, shot[b]} \/ shot'[b] = Len(ledger) + 1,
         pc'[b] \in Underway => spot'[b] \in Spot,
         alerts' \in Seq([n: Nat, id: Id]),
         (\A p \in pulses' : p.id \in Id) /\ late' \subseteq clusters',
         UNCHANGED now
  PROVE  BotInv'
<1>1. Rows(b)
  BY DEF RowsNow, Rows
<1>2. TypeOK' /\ Distinct'
  BY <1>1, PartsStep
<1>3. TypeInv /\ (shot[b] # 0 => shot[b] \in Id)
  BY TypeParts, LenProperties DEF BotInv, TypeInv, ShotOf, ProcPart, TablePart, Id
<1>4. AtPart' /\ NumberPart'
  BY <1>3, AddedKeeps, EditedKeeps, SameKeeps DEF RowsNow
<1>5. SpotPart'
  BY <1>3 DEF TypeInv, SpotPart, OthersKeep
<1> QED
  BY <1>2, <1>4, <1>5 DEF BotInv, TypeInv

\* The facts of the invariant that the steps need.
LEMMA BotFacts ==
  ASSUME BotInv, NEW b \in Bot
  PROVE  /\ ProcPart /\ TablePart /\ SkyPart /\ ShotOf(b) /\ now \in Nat
         /\ Len(ledger) \in Nat /\ ledger \in Seq(Row)
         /\ shot[b] # 0 => shot[b] \in Id /\ ledger[shot[b]].at \in Nat
         /\ pc[b] \in Underway => spot[b] \in Spot
<1>1. ProcPart /\ TablePart /\ SkyPart /\ ShotOf(b) /\ now \in Nat
  BY TypeParts DEF BotInv, TypeInv, AtPart
<1>2. Len(ledger) \in Nat /\ ledger \in Seq(Row)
  BY <1>1, LenProperties DEF TablePart
<1>3. shot[b] # 0 => shot[b] \in Id
  BY <1>1, <1>2 DEF ShotOf, ProcPart, Id
<1> QED
  BY <1>1, <1>2, <1>3, RowType DEF BotInv, TypeInv, SpotPart

\* A turn of the loop that ends, whatever it did to the rows and the sky.
LEMMA RestKeeps ==
  ASSUME BotInv, NEW b \in Bot, NEW d \in Nat, Rest(b, d), RowsNow(b),
         UNCHANGED <<alerts, pulses, clusters, late, now>>
  PROVE  BotInv'
<1>1. /\ ProcPart' /\ OthersKeep(b) /\ shot'[b] = 0 /\ hasDump'[b] = FALSE
      /\ pc'[b] \in {"asleep", "exited"}
  BY BotFacts, RestEnds
<1>2. Len(ledger') \in Nat
  BY RowsKeep DEF RowsNow, Rows
<1>3. ShotOf(b)'
  BY <1>1, <1>2 DEF ShotOf, Underway
<1>4. alerts' \in Seq([n: Nat, id: Id]) /\ (\A p \in pulses' : p.id \in Id)
      /\ late' \subseteq clusters'
  BY BotFacts DEF TablePart, SkyPart
<1>5. pc'[b] \notin Underway
  BY <1>1 DEF Underway
<1> QED
  BY <1>1, <1>3, <1>4, <1>5, BotInvStep

LEMMA RowOfType ==
  ASSUME BotInv, NEW b \in Bot, NEW s \in Spot, NEW n \in Nat \X Nat,
         NEW o \in Outcome \union {None}
  PROVE  /\ RowOf(b, s, n, o) \in Row /\ RowOf(b, s, n, o).at = now
         /\ RowOf(b, s, n, o).name = n /\ RowOf(b, s, n, o).outcome = o
         /\ RowOf(b, s, n, o).by = b /\ RowOf(b, s, n, o).spot = s
         /\ RowOf(b, s, n, o).dump = <<>>
<1>1. now \in Nat
  BY BotFacts
<1> QED
  BY <1>1 DEF RowOf, Row, Dump

LEMMA NumberTypes ==
  /\ Cadence \in Nat /\ ReconcileWait \in Nat /\ AfterShot \in Nat
  /\ DumpPre \in Nat /\ DumpPost \in Nat /\ StreakEvery \in Nat \ {0}
  /\ StreakLimit \in Nat /\ DumpPost <= DumpPre /\ Margin \in Nat
  BY BoundAssumption, AfterShotType

LEMMA DumpWindowIs ==
  ASSUME BotInv, NEW b \in Bot, shot[b] # 0
  PROVE  /\ DumpWindow(b) \in Dump /\ DumpWindow(b) # <<>>
         /\ DumpWindow(b)[1] = ledger[shot[b]].at - DumpPre
         /\ DumpWindow(b)[2] <= ledger[shot[b]].at - DumpPost
         /\ DumpWindow(b)[2] \in Int
<1>1. now \in Nat /\ ledger[shot[b]].at \in Nat
  BY BotFacts
<1> DEFINE at == ledger[shot[b]].at
<1>2. at - DumpPre \in Int /\ at - DumpPost \in Int
  BY <1>1, NumberTypes
<1>3. Min({at - DumpPost, now}) \in Int /\ Min({at - DumpPost, now}) <= at - DumpPost
  <2> HIDE DEF at
  <2>1. now \in Int
    BY <1>1
  <2>2. Min({at - DumpPost, now}) = IF at - DumpPost <= now THEN at - DumpPost ELSE now
    BY <1>2, <2>1, MinOfTwo
  <2> QED
    BY <1>2, <2>1, <2>2
<1>4. DumpWindow(b) = <<at - DumpPre, Min({at - DumpPost, now})>>
  BY DEF DumpWindow
<1> QED
  <2> HIDE DEF at
  <2>1. DumpWindow(b) \in Int \X Int /\ DumpWindow(b) # <<>>
    BY <1>2, <1>3, <1>4
  <2> QED
    BY <1>3, <1>4, <2>1 DEF Dump, at

LEMMA StreakType ==
  ASSUME NEW id \in Nat
  PROVE  Streak(id) \in Nat
<1> DEFINE others == {i \in Resolved(id) : ledger[i].outcome # "missed"}
           run == {i \in Resolved(id) : \A o \in others : i > o}
<1>1. run \subseteq 1 .. id
  BY DEF Resolved
<1>2. IsFiniteSet(1 .. id)
  BY FS_Interval
<1>3. Cardinality(run) \in Nat
  <2> HIDE DEF run
  <2> QED
    BY <1>1, <1>2, FS_Subset, FS_CardinalityType
<1>4. Streak(id) = Min({Cardinality(run), StreakLimit})
  BY DEF Streak
<1> QED
  <2> HIDE DEF run
  <2>1. Cardinality(run) \in Int /\ StreakLimit \in Int
    BY <1>3, NumberTypes
  <2> QED
    BY <1>3, <1>4, <2>1, NumberTypes, MinOfTwo

LEMMA TypeInit == Init => BotInv
<1> SUFFICES ASSUME Init PROVE BotInv
  OBVIOUS
<1>1. /\ ledger = <<>> /\ alerts = <<>> /\ Len(ledger) = 0 /\ Id = {}
      /\ ledger \in Seq(Row) /\ alerts \in Seq([n: Nat, id: Id])
  BY EmptySeq DEF Init, Id
<1>2. ProcPart
  BY DEF Init, ProcPart, NoName
<1>3. \A b \in Bot : ShotOf(b) /\ pc[b] \notin Underway /\ shot[b] = 0
  BY <1>1 DEF Init, ShotOf, Underway
<1>4. TypeOK
  BY <1>1, <1>2, <1>3, TypeParts DEF Init, TablePart, SkyPart
<1>5. AtPart /\ NumberPart /\ SpotPart /\ Distinct
  BY <1>1, <1>3 DEF Init, AtPart, NumberPart, SpotPart, Distinct
<1> QED
  BY <1>4, <1>5 DEF BotInv, TypeInv

\* The quiet steps: b moves on, and no row and nothing in the sky changes.
LEMMA MoveKeeps ==
  ASSUME BotInv, NEW b \in Bot, ProcPart', OthersKeep(b),
         shot'[b] = shot[b], hasDump'[b] = hasDump[b],
         pc[b] \in Underway \ {"making"} <=> pc'[b] \in Underway \ {"making"},
         pc[b] \in {"reporting", "completing"} <=> pc'[b] \in {"reporting", "completing"},
         pc'[b] \in Underway => spot'[b] \in Spot,
         alerts' \in Seq([n: Nat, id: Id]),
         UNCHANGED <<ledger, now>>,
         (\A p \in pulses' : p.id \in Id) /\ late' \subseteq clusters'
  PROVE  BotInv'
<1>1. ShotOf(b)'
  BY BotFacts DEF ShotOf
<1>2. RowsNow(b)
  BY DEF RowsNow
<1> QED
  BY <1>1, <1>2, BotInvStep

\* The steps of the environment leave the processes and the rows alone.
LEMMA StillKeeps ==
  ASSUME BotInv, UNCHANGED <<pc, wakeAt, shot, spot, name, hasDump, ledger, alerts, pulses, now>>,
         late' \subseteq clusters'
  PROVE  BotInv'
<1>1. Id' = Id /\ TypeInv /\ Distinct
  BY DEF Id, BotInv
<1>2. TypeOK'
  BY <1>1 DEF TypeInv, TypeOK
<1>3. SpotPart' /\ Distinct'
  BY <1>1 DEF TypeInv, SpotPart, Distinct
<1> QED
  BY <1>1, <1>2, <1>3, SameKeeps DEF BotInv, TypeInv

LEMMA TypeStep == BotInv /\ [Next]_vars => BotInv'
<1> SUFFICES ASSUME BotInv, [Next]_vars PROVE BotInv'
  OBVIOUS
<1>1. ASSUME NEW b \in Bot, Start(b)
      PROVE  BotInv'
  <2>1. FirstShotAt \in Nat
    BY FirstShotAtIs DEF BotInv
  <2>2. ProcPart /\ TablePart /\ SkyPart
    BY BotFacts
  <2>3. ProcPart'
    BY <1>1, <2>1, <2>2 DEF Start, ProcPart
  <2>4. OthersKeep(b) /\ pc[b] = "down" /\ pc'[b] \in {"asleep", "drawing"}
    BY <1>1, <2>2 DEF Start, ProcPart, OthersKeep
  <2>5. /\ shot' = shot /\ hasDump' = hasDump /\ alerts' = alerts /\ UNCHANGED <<ledger, now>>
        /\ pulses' = pulses /\ clusters' = clusters /\ late' = late
    BY <1>1 DEF Start, tables, sky, history
  <2>6. pc'[b] \notin Underway /\ pc[b] \notin Underway
    BY <2>4 DEF Underway
  <2> QED
    BY <2>2, <2>3, <2>4, <2>5, <2>6, MoveKeeps DEF TablePart, SkyPart
<1>2. ASSUME NEW b \in Bot, Wake(b)
      PROVE  BotInv'
  <2>1. ProcPart /\ TablePart /\ SkyPart
    BY BotFacts
  <2>2. ProcPart'
    BY <1>2, <2>1 DEF Wake, ProcPart
  <2>3. OthersKeep(b) /\ pc[b] = "asleep" /\ pc'[b] = "drawing"
    BY <1>2, <2>1 DEF Wake, ProcPart, OthersKeep
  <2>4. /\ shot' = shot /\ hasDump' = hasDump /\ alerts' = alerts /\ UNCHANGED <<ledger, now>>
        /\ pulses' = pulses /\ clusters' = clusters /\ late' = late
    BY <1>2 DEF Wake, tables, sky, history
  <2>5. pc'[b] \notin Underway /\ pc[b] \notin Underway
    BY <2>3 DEF Underway
  <2> QED
    BY <2>1, <2>2, <2>3, <2>4, <2>5, MoveKeeps DEF TablePart, SkyPart
<1>3. ASSUME NEW b \in Bot, StdStale(b)
      PROVE  BotInv'
  <2>1. PICK s \in Spot : AddRow(RowOf(b, s, NoName, "fire_failed"))
    BY <1>3 DEF StdStale
  <2> DEFINE r == RowOf(b, s, NoName, "fire_failed")
  <2>2. r \in Row /\ r.at = now
    BY RowOfType DEF NoName, Outcome
  <2>3. Added(r)
    <3> HIDE DEF r
    <3> QED
      BY <2>1, <2>2, BotFacts, AddRowAdds DEF r
  <2>4. RowsNow(b)
    <3> HIDE DEF r
    <3> QED
      BY <2>2, <2>3 DEF RowsNow
  <2>5. Rest(b, Cadence) /\ UNCHANGED <<alerts, pulses, clusters, late, now>>
    BY <1>3 DEF StdStale, sky
  <2> QED
    BY <2>4, <2>5, RestKeeps, NumberTypes
<1>4. ASSUME NEW b \in Bot, Draw(b)
      PROVE  BotInv'
  <2>1. ProcPart /\ TablePart /\ SkyPart
    BY BotFacts
  <2>2. NextName \in Nat \X Nat
    BY NextNameIsNew DEF BotInv
  <2>3. PICK s \in Spot : spot' = [spot EXCEPT ![b] = s]
    BY <1>4 DEF Draw
  <2>4. /\ name' = [name EXCEPT ![b] = NextName] /\ pc' = [pc EXCEPT ![b] = "making"]
        /\ pc[b] = "drawing"
        /\ shot' = shot /\ hasDump' = hasDump /\ alerts' = alerts /\ UNCHANGED <<ledger, now>>
        /\ pulses' = pulses /\ clusters' = clusters /\ late' = late /\ wakeAt' = wakeAt
    BY <1>4 DEF Draw, tables, sky
  <2>5. "making" \in Underway
    BY DEF Underway
  <2>6. ProcPart'
    BY <2>1, <2>2, <2>3, <2>4, <2>5 DEF ProcPart
  <2>7. OthersKeep(b) /\ pc'[b] = "making" /\ spot'[b] = s
    BY <2>1, <2>3, <2>4 DEF ProcPart, OthersKeep
  <2>8. pc[b] \notin Underway
    BY <2>4 DEF Underway
  <2> QED
    BY <2>1, <2>4, <2>6, <2>7, <2>8, MoveKeeps DEF TablePart, SkyPart
<1>5. ASSUME NEW b \in Bot, GenerationFails(b)
      PROVE  BotInv'
  <2>1. Rest(b, Cadence) /\ UNCHANGED <<ledger, alerts, pulses, clusters, late, now>>
    BY <1>5 DEF GenerationFails, tables, sky, history
  <2> QED
    BY <2>1, RestKeeps, NumberTypes DEF RowsNow
<1>6. ASSUME NEW b \in Bot, CommitRow(b)
      PROVE  BotInv'
  <2>1. /\ ProcPart /\ TablePart /\ SkyPart /\ ledger \in Seq(Row) /\ Len(ledger) \in Nat
        /\ pc[b] = "making" /\ spot[b] \in Spot /\ name[b] \in Nat \X Nat /\ ShotOf(b)
    BY <1>6, BotFacts DEF CommitRow, Underway, ProcPart
  <2> DEFINE r == RowOf(b, spot[b], name[b], None)
  <2>2. r \in Row /\ r.at = now /\ r.outcome = None
    BY <2>1, RowOfType
  <2>3. Added(r)
    <3> HIDE DEF r
    <3> QED
      BY <1>6, <2>1, <2>2, AddRowAdds DEF CommitRow, r
  <2>4. RowsNow(b) /\ Len(ledger') = Len(ledger) + 1 /\ ledger'[Len(ledger) + 1].outcome = None
    <3> HIDE DEF r
    <3> QED
      BY <2>2, <2>3 DEF RowsNow, Added
  <2>5. /\ shot' = [shot EXCEPT ![b] = Len(ledger) + 1] /\ pc' = [pc EXCEPT ![b] = "firing"]
        /\ hasDump' = hasDump /\ alerts' = alerts /\ UNCHANGED now
        /\ pulses' = pulses /\ clusters' = clusters /\ late' = late
        /\ wakeAt' = wakeAt /\ spot' = spot /\ name' = name
    BY <1>6 DEF CommitRow, sky
  <2>6. ProcPart'
    BY <2>1, <2>5 DEF ProcPart, Underway
  <2>7. /\ OthersKeep(b) /\ pc'[b] = "firing" /\ shot'[b] = Len(ledger) + 1
        /\ spot'[b] \in Spot /\ hasDump'[b] = hasDump[b]
    BY <2>1, <2>5 DEF ProcPart, OthersKeep
  <2>8. hasDump[b] = FALSE
    BY <2>1 DEF ShotOf, Underway, ProcPart
  <2>9. ShotOf(b)'
    BY <2>1, <2>4, <2>7, <2>8 DEF ShotOf, Underway
  <2> QED
    BY <2>1, <2>4, <2>5, <2>6, <2>7, <2>9, BotInvStep DEF TablePart, SkyPart
<1>7. ASSUME NEW b \in Bot, FifoWritten(b)
      PROVE  BotInv'
  <2>1. ProcPart /\ TablePart /\ SkyPart /\ ShotOf(b) /\ pc[b] = "firing"
    BY <1>7, BotFacts DEF FifoWritten
  <2>2. shot[b] # 0 /\ shot[b] \in Id /\ spot[b] \in Spot
    BY <2>1, BotFacts DEF ShotOf, Underway
  <2>3. PICK lead \in 0 .. MaxLead :
          pulses' = pulses \union {[id |-> shot[b], spot |-> spot[b], at |-> now - lead]}
    BY <1>7 DEF FifoWritten
  <2>4. \A p \in pulses' : p.id \in Id
    BY <2>1, <2>2, <2>3 DEF SkyPart
  <2>5. /\ pc' = [pc EXCEPT ![b] = "dumping"]
        /\ UNCHANGED <<wakeAt, shot, spot, name, hasDump, ledger, alerts, clusters, late, now>>
    BY <1>7 DEF FifoWritten, tables, history
  <2>6. ProcPart'
    BY <2>1, <2>5 DEF ProcPart, Underway
  <2>7. OthersKeep(b) /\ pc'[b] = "dumping"
    BY <2>1, <2>5 DEF ProcPart, OthersKeep
  <2>8. /\ pc[b] \in Underway \ {"making"} <=> pc'[b] \in Underway \ {"making"}
        /\ pc[b] \in {"reporting", "completing"} <=> pc'[b] \in {"reporting", "completing"}
    BY <2>1, <2>7 DEF Underway
  <2> QED
    BY <2>1, <2>2, <2>4, <2>5, <2>6, <2>7, <2>8, MoveKeeps DEF TablePart, SkyPart
<1>8. ASSUME NEW b \in Bot, FifoFails(b)
      PROVE  BotInv'
  <2>1. shot[b] # 0 /\ shot[b] \in Id /\ ledger \in Seq(Row)
    BY <1>8, BotFacts DEF FifoFails, ShotOf, Underway
  <2>2. ledger' = [ledger EXCEPT ![shot[b]].outcome = "fire_failed"]
    BY <1>8 DEF FifoFails
  <2>3. Edited(shot[b])
    BY <2>1, <2>2, OutcomeEdits DEF Outcome
  <2>4. Rest(b, Cadence) /\ UNCHANGED <<alerts, pulses, clusters, late, now>>
    BY <1>8 DEF FifoFails, sky, history
  <2> QED
    BY <2>1, <2>3, <2>4, RestKeeps, NumberTypes DEF RowsNow
<1>9. ASSUME NEW b \in Bot, DumpTaken(b) \/ DumpFails(b)
      PROVE  BotInv'
  <2>1. /\ ProcPart /\ TablePart /\ SkyPart /\ ShotOf(b) /\ pc[b] = "dumping" /\ now \in Nat
        /\ ledger \in Seq(Row) /\ Len(ledger) \in Nat
    BY <1>9, BotFacts DEF DumpTaken, DumpFails
  <2>2. shot[b] # 0 /\ shot[b] \in Id /\ spot[b] \in Spot /\ ledger[shot[b]].outcome = None
    BY <2>1, BotFacts DEF ShotOf, Underway
  <2>3. /\ Waits(b)
        /\ UNCHANGED <<shot, spot, name, alerts, pulses, clusters, late, now>>
    BY <1>9 DEF DumpTaken, DumpFails, sky, history
  <2>4. wakeAt' \in [Bot -> Nat]
    BY <2>1, <2>3, NumberTypes DEF Waits, ProcPart
  <2>5. hasDump' \in [Bot -> BOOLEAN] /\ \A c \in Bot \ {b} : hasDump'[c] = hasDump[c]
    BY <1>9, <2>1 DEF DumpTaken, DumpFails, ProcPart
  <2>6. ProcPart' /\ OthersKeep(b) /\ pc'[b] = "waiting"
    BY <2>1, <2>3, <2>4, <2>5 DEF Waits, ProcPart, OthersKeep, Underway
  <2>7. CASE DumpTaken(b)
    <3>1. DumpWindow(b) \in Dump /\ DumpWindow(b) # <<>>
      BY <2>2, DumpWindowIs
    <3>2. ledger' = [ledger EXCEPT ![shot[b]].dump = DumpWindow(b)]
      BY <2>7 DEF DumpTaken
    <3>3. /\ Edited(shot[b]) /\ ledger'[shot[b]].outcome = None
          /\ ledger'[shot[b]].dump # <<>>
      BY <2>1, <2>2, <3>1, <3>2, DumpEdits
    <3>4. ShotOf(b)'
      BY <2>1, <2>2, <2>3, <2>6, <3>3 DEF ShotOf, Underway, Edited
    <3> QED
      BY <2>1, <2>2, <2>3, <2>6, <3>3, <3>4, BotInvStep DEF RowsNow, TablePart, SkyPart
  <2>8. CASE DumpFails(b)
    <3>1. UNCHANGED ledger /\ hasDump' = hasDump
      BY <2>8 DEF DumpFails
    <3>2. ShotOf(b)'
      BY <2>1, <2>2, <2>3, <2>6, <3>1 DEF ShotOf, Underway
    <3> QED
      BY <2>1, <2>2, <2>3, <2>6, <3>1, <3>2, BotInvStep DEF RowsNow, TablePart, SkyPart
  <2> QED
    BY <1>9, <2>7, <2>8
<1>10. ASSUME NEW b \in Bot, Reconcile(b)
      PROVE  BotInv'
  <2>1. /\ ProcPart /\ TablePart /\ SkyPart /\ ShotOf(b) /\ pc[b] = "waiting"
        /\ ledger \in Seq(Row) /\ Len(ledger) \in Nat
    BY <1>10, BotFacts DEF Reconcile
  <2>2. shot[b] # 0 /\ shot[b] \in Id /\ spot[b] \in Spot
    BY <2>1, BotFacts DEF ShotOf, Underway
  <2>3. OutcomeOf(shot[b]) \in Outcome /\ OutcomeOf(shot[b]) # None
    BY NoneAssumption DEF OutcomeOf, Outcome
  <2>4. /\ ledger' = [ledger EXCEPT ![shot[b]].outcome = OutcomeOf(shot[b])]
        /\ pc' = [pc EXCEPT ![b] = "reporting"] /\ wakeAt' = [wakeAt EXCEPT ![b] = 0]
        /\ UNCHANGED <<shot, spot, name, hasDump, alerts, pulses, clusters, late, now>>
    BY <1>10 DEF Reconcile, sky, history
  <2>5. /\ Edited(shot[b]) /\ ledger'[shot[b]].outcome # None
        /\ ledger'[shot[b]].dump = ledger[shot[b]].dump
    BY <2>1, <2>2, <2>3, <2>4, OutcomeEdits
  <2>6. ProcPart' /\ OthersKeep(b) /\ pc'[b] = "reporting"
    BY <2>1, <2>4 DEF ProcPart, OthersKeep, Underway
  <2>7. ShotOf(b)'
    BY <2>1, <2>2, <2>4, <2>5, <2>6 DEF ShotOf, Underway, Edited
  <2> QED
    BY <2>1, <2>2, <2>4, <2>5, <2>6, <2>7, BotInvStep DEF RowsNow, TablePart, SkyPart
<1>11. ASSUME NEW b \in Bot, ReconcileRaises(b) \/ ReplayRaises(b)
      PROVE  BotInv'
  <2>1. Rest(b, AfterShot) /\ UNCHANGED <<ledger, alerts, pulses, clusters, late, now>>
    BY <1>11 DEF ReconcileRaises, ReplayRaises, tables, sky, history
  <2> QED
    BY <2>1, RestKeeps, NumberTypes DEF RowsNow
<1>12. ASSUME NEW b \in Bot, Report(b) \/ ReportRaises(b)
      PROVE  BotInv'
  <2>1. ProcPart /\ TablePart /\ SkyPart /\ ShotOf(b) /\ pc[b] = "reporting"
    BY <1>12, BotFacts DEF Report, ReportRaises
  <2>2. shot[b] # 0 /\ shot[b] \in Id /\ shot[b] \in Nat /\ spot[b] \in Spot
    BY <2>1, BotFacts DEF ShotOf, Underway, ProcPart
  <2>3. /\ pc' = [pc EXCEPT ![b] = "completing"]
        /\ UNCHANGED <<wakeAt, shot, spot, name, hasDump, ledger, pulses, clusters, late, now>>
    BY <1>12 DEF Report, ReportRaises, tables, sky, history
  <2>4. alerts' \in Seq([n: Nat, id: Id])
    <3>1. Streak(shot[b]) \in Nat
      BY <2>2, StreakType
    <3>2. [n |-> Streak(shot[b]), id |-> shot[b]] \in [n: Nat, id: Id]
      BY <2>2, <3>1
    <3>3. \/ alerts' = alerts
          \/ alerts' = Append(alerts, [n |-> Streak(shot[b]), id |-> shot[b]])
      BY <1>12 DEF Report, ReportRaises, tables
    <3> DEFINE S == [n: Nat, id: Id]
               e == [n |-> Streak(shot[b]), id |-> shot[b]]
    <3>4. alerts \in Seq(S) /\ e \in S
      BY <2>1, <3>2 DEF TablePart
    <3>5. Append(alerts, e) \in Seq(S)
      <4> HIDE DEF S, e
      <4> QED
        BY <3>4, AppendProperties
    <3> QED
      BY <3>3, <3>4, <3>5
  <2>5. ProcPart' /\ OthersKeep(b) /\ pc'[b] = "completing"
    BY <2>1, <2>3 DEF ProcPart, OthersKeep, Underway
  <2>6. /\ pc[b] \in Underway \ {"making"} <=> pc'[b] \in Underway \ {"making"}
        /\ pc[b] \in {"reporting", "completing"} <=> pc'[b] \in {"reporting", "completing"}
    BY <2>1, <2>5 DEF Underway
  <2> QED
    BY <2>1, <2>2, <2>3, <2>4, <2>5, <2>6, MoveKeeps DEF SkyPart
<1>13. ASSUME NEW b \in Bot, Complete(b)
      PROVE  BotInv'
  <2>1. Rest(b, AfterShot) /\ UNCHANGED <<ledger, alerts, pulses, clusters, late, now>>
    BY <1>13 DEF Complete, sky
  <2> QED
    BY <2>1, RestKeeps, NumberTypes DEF RowsNow
<1>14. ASSUME NEW b \in Bot, Crash(b)
      PROVE  BotInv'
  <2>1. ProcPart /\ TablePart /\ SkyPart
    BY BotFacts
  <2>2. ProcPart' /\ OthersKeep(b)
    BY <1>14, <2>1 DEF Crash, Forgets, ProcPart, OthersKeep, NoName
  <2>3. /\ shot'[b] = 0 /\ hasDump'[b] = FALSE /\ pc'[b] \in {"down", "exited"}
        /\ UNCHANGED <<ledger, alerts, pulses, clusters, late, now>>
    BY <1>14, <2>1 DEF Crash, Forgets, ProcPart, tables, sky
  <2>4. ShotOf(b)' /\ pc'[b] \notin Underway
    BY <2>3, BotFacts DEF ShotOf, Underway
  <2> QED
    BY <2>1, <2>2, <2>3, <2>4, BotInvStep DEF RowsNow, TablePart, SkyPart
<1>15. ASSUME NEW p \in pulses, T2Stores(p)
      PROVE  BotInv'
  <2>1. UNCHANGED <<bot, ledger, alerts, pulses, now>> /\ late' \subseteq clusters'
    BY <1>15, TypeParts DEF T2Stores, tables, BotInv, TypeInv, SkyPart
  <2> QED
    BY <2>1, StillKeeps DEF bot
<1>16. ASSUME T2Dumps \/ UNCHANGED vars
      PROVE  BotInv'
  <2>1. UNCHANGED <<bot, ledger, alerts, pulses, clusters, late, now>>
    BY <1>16 DEF T2Dumps, vars, sky, tables, history
  <2>2. late' \subseteq clusters'
    BY <2>1, TypeParts DEF BotInv, TypeInv, SkyPart
  <2> QED
    BY <2>1, <2>2, StillKeeps DEF bot
<1>17. ASSUME Tick
      PROVE  BotInv'
  <2>1. /\ UNCHANGED <<bot, ledger, alerts, pulses, clusters, late>>
        /\ now' = now + 1 /\ now \in Nat /\ ledger \in Seq(Row)
    BY <1>17, TypeParts DEF Tick, tables, sky, history, BotInv, TypeInv, AtPart, TablePart
  <2>2. AtPart'
    BY <2>1, RowType DEF BotInv, TypeInv, AtPart, Id
  <2> QED
    BY <2>1, <2>2 DEF BotInv, TypeInv, TypeOK, NumberPart, SpotPart, Distinct, bot, Id
<1> QED
  BY <1>1, <1>2, <1>3, <1>4, <1>5, <1>6, <1>7, <1>8, <1>9, <1>10, <1>11, <1>12, <1>13,
     <1>14, <1>15, <1>16, <1>17 DEF Next

(***************************************************************************)
(* The type invariant: rows, shots and messages have their types, a        *)
(* process past CommitRow is at a row, and the shot it is at has no        *)
(* outcome before its Reconcile.                                           *)
(***************************************************************************)
THEOREM TypeCorrect == Spec => []TypeOK
<1>1. BotInv => TypeOK
  BY DEF BotInv, TypeInv
<1> QED
  BY <1>1, TypeInit, TypeStep, PTL DEF Spec

-----------------------------------------------------------------------------
(***************************************************************************)
(* What the steps of one process leave as it was                           *)
(***************************************************************************)

Acts(b) ==
  \/ Start(b) \/ Wake(b) \/ StdStale(b) \/ Draw(b) \/ GenerationFails(b)
  \/ CommitRow(b) \/ FifoWritten(b) \/ FifoFails(b) \/ DumpTaken(b) \/ DumpFails(b)
  \/ Reconcile(b) \/ ReconcileRaises(b) \/ Report(b) \/ ReportRaises(b)
  \/ Complete(b) \/ ReplayRaises(b) \/ Crash(b)

Rests(b) ==
  StdStale(b) \/ GenerationFails(b) \/ FifoFails(b) \/ ReconcileRaises(b) \/ Complete(b)
  \/ ReplayRaises(b)

\* The turn of b has ended, by Rest or by a crash.
Ended(b) ==
  /\ shot'[b] = 0 /\ hasDump'[b] = FALSE
  /\ pc'[b] \in {"down", "asleep", "exited"} /\ pc'[b] \notin Underway

LEMMA RestIsRest ==
  ASSUME BotInv, NEW b \in Bot, Rests(b)
  PROVE  /\ OthersKeep(b) /\ Ended(b) /\ pc'[b] # "down"
         /\ \E d \in {Cadence, AfterShot} :
              wakeAt'[b] = (IF b = Service THEN now + d ELSE 0)
<1>1. PICK d \in {Cadence, AfterShot} : Rest(b, d)
  BY DEF Rests, StdStale, GenerationFails, FifoFails, ReconcileRaises, Complete, ReplayRaises
<1>2. /\ OthersKeep(b) /\ shot'[b] = 0 /\ hasDump'[b] = FALSE
      /\ pc'[b] = (IF b = Service THEN "asleep" ELSE "exited")
      /\ wakeAt'[b] = (IF b = Service THEN now + d ELSE 0)
  BY <1>1, BotFacts, RestEnds, NumberTypes
<1> QED
  BY <1>2 DEF Ended, Underway

LEMMA CrashIsEnd ==
  ASSUME BotInv, NEW b \in Bot, Crash(b)
  PROVE  OthersKeep(b) /\ Ended(b) /\ pc'[b] # "asleep"
<1>1. ProcPart
  BY BotFacts
<1>2. OthersKeep(b)
  BY <1>1 DEF Crash, Forgets, ProcPart, OthersKeep
<1>3. shot'[b] = 0 /\ hasDump'[b] = FALSE /\ pc'[b] \in {"down", "exited"}
  BY <1>1 DEF Crash, Forgets, ProcPart
<1> QED
  BY <1>2, <1>3 DEF Ended, Underway

\* The steps on the way, with the place that each goes to.
Ways(b) ==
  \/ Start(b) /\ pc'[b] \in {"asleep", "drawing"}
  \/ Wake(b) /\ pc'[b] = "drawing"
  \/ Draw(b) /\ pc'[b] = "making"
  \/ CommitRow(b) /\ pc'[b] = "firing"
  \/ FifoWritten(b) /\ pc'[b] = "dumping"
  \/ (DumpTaken(b) \/ DumpFails(b)) /\ pc'[b] = "waiting"
  \/ Reconcile(b) /\ pc'[b] = "reporting"
  \/ (Report(b) \/ ReportRaises(b)) /\ pc'[b] = "completing"

LEMMA WayKeeps ==
  ASSUME BotInv, NEW b \in Bot, Acts(b)
  PROVE  OthersKeep(b) /\ (Rests(b) \/ Crash(b) \/ Ways(b))
<1>1. ProcPart
  BY BotFacts
<1>2. CASE Rests(b) \/ Crash(b)
  BY <1>2, RestIsRest, CrashIsEnd
<1>3. CASE Start(b)
  BY <1>1, <1>3 DEF Start, ProcPart, OthersKeep, Ways
<1>4. CASE Wake(b)
  BY <1>1, <1>4 DEF Wake, ProcPart, OthersKeep, Ways
<1>5. CASE Draw(b)
  <2>1. PICK s \in Spot : spot' = [spot EXCEPT ![b] = s]
    BY <1>5 DEF Draw
  <2> QED
    BY <1>1, <1>5, <2>1 DEF Draw, ProcPart, OthersKeep, Ways
<1>6. CASE CommitRow(b)
  BY <1>1, <1>6 DEF CommitRow, ProcPart, OthersKeep, Ways
<1>7. CASE FifoWritten(b)
  BY <1>1, <1>7 DEF FifoWritten, ProcPart, OthersKeep, Ways
<1>8. CASE DumpTaken(b)
  BY <1>1, <1>8 DEF DumpTaken, Waits, ProcPart, OthersKeep, Ways
<1>9. CASE DumpFails(b)
  BY <1>1, <1>9 DEF DumpFails, Waits, ProcPart, OthersKeep, Ways
<1>10. CASE Reconcile(b)
  BY <1>1, <1>10 DEF Reconcile, ProcPart, OthersKeep, Ways
<1>11. CASE Report(b) \/ ReportRaises(b)
  BY <1>1, <1>11 DEF Report, ReportRaises, ProcPart, OthersKeep, Ways
<1> QED
  BY <1>2, <1>3, <1>4, <1>5, <1>6, <1>7, <1>8, <1>9, <1>10, <1>11 DEF Acts, Rests

\* How each kind of step changes the rows.
LEMMA RowsStep ==
  ASSUME BotInv, [Next]_vars
  PROVE  \/ UNCHANGED ledger
         \/ \E b \in Bot, s \in Spot :
              StdStale(b) /\ Added(RowOf(b, s, NoName, "fire_failed"))
         \/ \E b \in Bot :
              /\ CommitRow(b) /\ Added(RowOf(b, spot[b], name[b], None))
              /\ pc[b] = "making" /\ shot'[b] = Len(ledger) + 1
         \/ \E b \in Bot :
              /\ DumpTaken(b) /\ pc[b] = "dumping" /\ shot[b] \in Id /\ Edited(shot[b])
              /\ ledger'[shot[b]].outcome = ledger[shot[b]].outcome
              /\ ledger'[shot[b]].dump = DumpWindow(b)
         \/ \E b \in Bot :
              /\ FifoFails(b) /\ pc[b] = "firing" /\ shot[b] \in Id /\ Edited(shot[b])
              /\ ledger[shot[b]].outcome = None
              /\ ledger'[shot[b]].outcome = "fire_failed"
              /\ ledger'[shot[b]].dump = ledger[shot[b]].dump
         \/ \E b \in Bot :
              /\ Reconcile(b) /\ pc[b] = "waiting" /\ shot[b] \in Id /\ Edited(shot[b])
              /\ ledger[shot[b]].outcome = None
              /\ ledger'[shot[b]].outcome = OutcomeOf(shot[b])
              /\ ledger'[shot[b]].dump = ledger[shot[b]].dump
<1>1. ASSUME NEW b \in Bot, StdStale(b)
      PROVE  \E s \in Spot : Added(RowOf(b, s, NoName, "fire_failed"))
  <2>1. PICK s \in Spot : AddRow(RowOf(b, s, NoName, "fire_failed"))
    BY <1>1 DEF StdStale
  <2>2. RowOf(b, s, NoName, "fire_failed") \in Row
    BY RowOfType DEF NoName, Outcome
  <2> QED
    BY <1>1, <2>1, <2>2, BotFacts, AddRowAdds
<1>2. ASSUME NEW b \in Bot, CommitRow(b)
      PROVE  /\ Added(RowOf(b, spot[b], name[b], None))
             /\ pc[b] = "making" /\ shot'[b] = Len(ledger) + 1
  <2>1. /\ AddRow(RowOf(b, spot[b], name[b], None)) /\ pc[b] = "making"
        /\ shot' = [shot EXCEPT ![b] = Len(ledger) + 1]
    BY <1>2 DEF CommitRow
  <2>2. name[b] \in Nat \X Nat /\ spot[b] \in Spot /\ shot \in [Bot -> Nat]
    BY <2>1, BotFacts DEF Underway, ProcPart
  <2>3. RowOf(b, spot[b], name[b], None) \in Row
    BY <2>2, RowOfType
  <2>4. Added(RowOf(b, spot[b], name[b], None))
    BY <2>1, <2>3, BotFacts, AddRowAdds
  <2> QED
    BY <2>1, <2>2, <2>4
<1>3. ASSUME NEW b \in Bot, pc[b] \in {"firing", "dumping", "waiting"}
      PROVE  shot[b] # 0 /\ shot[b] \in Id /\ ledger \in Seq(Row) /\ ledger[shot[b]].outcome = None
  BY <1>3, BotFacts DEF ShotOf, Underway
<1>4. ASSUME NEW b \in Bot, DumpTaken(b)
      PROVE  /\ pc[b] = "dumping" /\ shot[b] \in Id /\ Edited(shot[b])
             /\ ledger'[shot[b]].outcome = ledger[shot[b]].outcome
             /\ ledger'[shot[b]].dump = DumpWindow(b)
  <2>1. pc[b] = "dumping" /\ ledger' = [ledger EXCEPT ![shot[b]].dump = DumpWindow(b)]
    BY <1>4 DEF DumpTaken
  <2>2. shot[b] # 0 /\ shot[b] \in Id /\ ledger \in Seq(Row)
    BY <1>3, <2>1
  <2> QED
    BY <2>1, <2>2, DumpWindowIs, DumpEdits
<1>5. ASSUME NEW b \in Bot, FifoFails(b)
      PROVE  /\ pc[b] = "firing" /\ shot[b] \in Id /\ Edited(shot[b])
             /\ ledger[shot[b]].outcome = None
             /\ ledger'[shot[b]].outcome = "fire_failed"
             /\ ledger'[shot[b]].dump = ledger[shot[b]].dump
  <2>1. pc[b] = "firing" /\ ledger' = [ledger EXCEPT ![shot[b]].outcome = "fire_failed"]
    BY <1>5 DEF FifoFails
  <2>2. "fire_failed" \in Outcome
    BY DEF Outcome
  <2> QED
    BY <1>3, <2>1, <2>2, OutcomeEdits
<1>6. ASSUME NEW b \in Bot, Reconcile(b)
      PROVE  /\ pc[b] = "waiting" /\ shot[b] \in Id /\ Edited(shot[b])
             /\ ledger[shot[b]].outcome = None
             /\ ledger'[shot[b]].outcome = OutcomeOf(shot[b])
             /\ ledger'[shot[b]].dump = ledger[shot[b]].dump
  <2>1. pc[b] = "waiting" /\ ledger' = [ledger EXCEPT ![shot[b]].outcome = OutcomeOf(shot[b])]
    BY <1>6 DEF Reconcile
  <2>2. OutcomeOf(shot[b]) \in Outcome
    BY DEF Outcome, OutcomeOf
  <2> QED
    BY <1>3, <2>1, <2>2, OutcomeEdits
<1>7. \/ UNCHANGED ledger
      \/ \E b \in Bot : StdStale(b) \/ CommitRow(b) \/ DumpTaken(b) \/ FifoFails(b) \/ Reconcile(b)
  BY DEF Next, vars, tables, Start, Wake, Draw, GenerationFails, FifoWritten, DumpFails,
         ReconcileRaises, Report, ReportRaises, Complete, ReplayRaises, Crash, T2Stores, T2Dumps,
         Tick
<1> QED
  BY <1>1, <1>2, <1>4, <1>5, <1>6, <1>7

-----------------------------------------------------------------------------
(***************************************************************************)
(* Names                                                                   *)
(***************************************************************************)

\* A shot that is being made has a name that no row has.
MakingNew ==
  \A b \in Bot : pc[b] = "making" =>
    name[b] # NoName /\ \A i \in Id : ledger[i].name # name[b]

Alone == \A b, c \in Bot : b # c /\ pc[b] \in Underway => pc[c] \notin Underway

\* While no two shots crossed.
NamesInv ==
  ~ crossed =>
    /\ \A i, j \in Id :
         i # j /\ ledger[i].name # NoName => ledger[i].name # ledger[j].name
    /\ MakingNew /\ Alone

LEMMA UnderwayStep ==
  ASSUME BotInv, NEW b \in Bot, Acts(b), ~ Draw(b)
  PROVE  /\ OthersKeep(b) /\ crossed' = crossed
         /\ pc'[b] # "making" /\ (pc'[b] \in Underway => pc[b] \in Underway)
<1>1. crossed' = crossed
  BY DEF Acts, history, Start, Wake, StdStale, GenerationFails, CommitRow, FifoWritten, FifoFails,
         DumpTaken, DumpFails, Reconcile, ReconcileRaises, Report, ReportRaises, Complete,
         ReplayRaises, Crash
<1>2. OthersKeep(b) /\ (Rests(b) \/ Crash(b) \/ Ways(b))
  BY WayKeeps
<1>3. CASE Rests(b) \/ Crash(b)
  BY <1>1, <1>2, <1>3, RestIsRest, CrashIsEnd DEF Ended
<1>4. CASE Ways(b)
  BY <1>1, <1>2, <1>4 DEF Ways, Underway, CommitRow, FifoWritten, DumpTaken, DumpFails, Reconcile,
     Report, ReportRaises
<1> QED
  BY <1>2, <1>3, <1>4

LEMMA DrawIs ==
  ASSUME BotInv, NEW b \in Bot, Draw(b)
  PROVE  /\ OthersKeep(b) /\ pc'[b] = "making" /\ name'[b] = NextName /\ ledger' = ledger
         /\ ~ crossed' => ~ crossed /\ \A c \in Bot \ {b} : pc[c] \notin Underway
<1>1. ProcPart
  BY BotFacts
<1>2. PICK s \in Spot : spot' = [spot EXCEPT ![b] = s]
  BY DEF Draw
<1> QED
  BY <1>1, <1>2 DEF Draw, ProcPart, OthersKeep, tables

\* The steps of the environment.
Around == (\E p \in pulses : T2Stores(p)) \/ T2Dumps \/ Tick \/ UNCHANGED vars

LEMMA NextIs ==
  ASSUME [Next]_vars
  PROVE  (\E b \in Bot : Acts(b)) \/ Around
  BY DEF Next, Acts, Around

LEMMA AroundKeeps ==
  ASSUME Around
  PROVE  UNCHANGED <<pc, wakeAt, shot, spot, name, hasDump, ledger, alerts, pulses, crossed, deleted>>
  BY DEF Around, T2Stores, T2Dumps, Tick, vars, bot, tables, sky, history

LEMMA NamesInit == Init => NamesInv
<1>1. Init => Id = {}
  BY DEF Init, Id
<1> QED
  BY <1>1 DEF Init, NamesInv, MakingNew, Alone, Underway

LEMMA NamesStep == BotInv /\ NamesInv /\ [Next]_vars => NamesInv'
<1> SUFFICES ASSUME BotInv, NamesInv, [Next]_vars, ~ crossed'
             PROVE  /\ \A i, j \in Id' :
                         i # j /\ ledger'[i].name # NoName => ledger'[i].name # ledger'[j].name
                    /\ MakingNew' /\ Alone'
  BY DEF NamesInv
<1>1. CASE \E b \in Bot : Draw(b)
  <2>1. PICK b \in Bot : Draw(b)
    BY <1>1
  <2>2. /\ OthersKeep(b) /\ pc'[b] = "making" /\ name'[b] = NextName /\ ledger' = ledger
        /\ ~ crossed /\ \A c \in Bot \ {b} : pc[c] \notin Underway
    BY <2>1, DrawIs
  <2>3. NextName # NoName /\ \A i \in Id : ledger[i].name # NextName
    BY NextNameIsNew DEF BotInv, NoName
  <2>4. Id' = Id
    BY <2>2 DEF Id
  <2>5. MakingNew'
    BY <2>2, <2>3, <2>4 DEF MakingNew, OthersKeep, Underway
  <2>6. Alone'
    BY <2>2 DEF Alone, OthersKeep
  <2> QED
    BY <2>2, <2>4, <2>5, <2>6 DEF NamesInv
<1>2. CASE ~ \E b \in Bot : Draw(b)
  <2>1. /\ ~ crossed
        /\ \A c \in Bot :
             /\ pc'[c] \in Underway => pc[c] \in Underway
             /\ pc'[c] = "making" => pc[c] = "making" /\ name'[c] = name[c]
    <3>1. ASSUME NEW b \in Bot, Acts(b)
          PROVE  /\ OthersKeep(b) /\ crossed' = crossed
                 /\ pc'[b] # "making" /\ (pc'[b] \in Underway => pc[b] \in Underway)
      BY <1>2, <3>1, UnderwayStep
    <3>2. CASE \E b \in Bot : Acts(b)
      BY <3>1, <3>2 DEF OthersKeep
    <3>3. CASE Around
      BY <3>3, AroundKeeps
    <3> QED
      BY <3>2, <3>3, NextIs
  <2>3. /\ \A i, j \in Id :
             i # j /\ ledger[i].name # NoName => ledger[i].name # ledger[j].name
        /\ MakingNew /\ Alone
    BY <2>1, Zenon DEF NamesInv
  <2>2. Alone'
    <3> SUFFICES ASSUME NEW b \in Bot, NEW c \in Bot, b # c, pc'[b] \in Underway
                 PROVE  pc'[c] \notin Underway
      BY DEF Alone
    <3>1. pc[b] \in Underway /\ pc[c] \notin Underway
      BY <2>1, <2>3 DEF Alone
    <3> QED
      BY <2>1, <3>1
  <2>4. ASSUME Id' = Id, \A i \in Id : ledger'[i].name = ledger[i].name
        PROVE  /\ \A i, j \in Id' :
                    i # j /\ ledger'[i].name # NoName => ledger'[i].name # ledger'[j].name
               /\ MakingNew'
    BY <2>1, <2>3, <2>4 DEF MakingNew
  <2>5. ASSUME NEW b \in Bot, NEW s \in Spot, Added(RowOf(b, s, NoName, "fire_failed"))
        PROVE  /\ \A i, j \in Id' :
                    i # j /\ ledger'[i].name # NoName => ledger'[i].name # ledger'[j].name
               /\ MakingNew'
    <3> DEFINE r == RowOf(b, s, NoName, "fire_failed")
    <3>1. r.name = NoName
      BY DEF RowOf
    <3>2. /\ Len(ledger) \in Nat /\ Id' = Id \union {Len(ledger) + 1}
          /\ \A i \in Id : ledger'[i] = ledger[i] /\ i # Len(ledger) + 1
          /\ ledger'[Len(ledger) + 1].name = NoName
      <4> HIDE DEF r
      <4> QED
        BY <2>5, <3>1, BotFacts DEF Added, Id, r
    <3> QED
      BY <2>1, <2>3, <3>2 DEF MakingNew
  <2>6. ASSUME NEW b \in Bot, CommitRow(b), Added(RowOf(b, spot[b], name[b], None)),
               pc[b] = "making"
        PROVE  /\ \A i, j \in Id' :
                    i # j /\ ledger'[i].name # NoName => ledger'[i].name # ledger'[j].name
               /\ MakingNew'
    <3> DEFINE r == RowOf(b, spot[b], name[b], None)
    <3>1. r.name = name[b]
      BY DEF RowOf
    <3>2. /\ Len(ledger) \in Nat /\ Id' = Id \union {Len(ledger) + 1}
          /\ \A i \in Id : ledger'[i] = ledger[i] /\ i # Len(ledger) + 1
          /\ ledger'[Len(ledger) + 1].name = name[b]
      <4> HIDE DEF r
      <4> QED
        BY <2>6, <3>1, BotFacts DEF Added, Id, r
    <3>3. \A c \in Bot : pc'[c] # "making"
      <4>1. pc'[b] # "making"
        BY <1>2, <2>6, UnderwayStep DEF Acts
      <4> QED
        BY <2>1, <2>3, <2>6, <4>1 DEF Alone, Underway
    <3>4. \A i \in Id : ledger[i].name # name[b]
      BY <2>3, <2>6 DEF MakingNew
    <3> QED
      BY <2>3, <3>2, <3>3, <3>4 DEF MakingNew
  <2>7. ASSUME NEW i \in Id, Edited(i)
        PROVE  Id' = Id /\ \A j \in Id : ledger'[j].name = ledger[j].name
    BY <2>7 DEF Edited, Id
  <2>8. ASSUME UNCHANGED ledger
        PROVE  Id' = Id /\ \A j \in Id : ledger'[j].name = ledger[j].name
    BY <2>8 DEF Id
  <2> QED
    BY <2>2, <2>4, <2>5, <2>6, <2>7, <2>8, RowsStep
<1> QED
  BY <1>1, <1>2

(***************************************************************************)
(* No two shots have one display name, whatever the processes, the days    *)
(* and the crashes, unless two of them had a shot under way at once:       *)
(* next_file_id reads the table when the shot is named, and the row is     *)
(* committed before the next shot is.                                      *)
(***************************************************************************)
THEOREM NamesCorrect == Spec => []NamesUnique
<1>1. NamesInv => NamesUnique
  BY DEF NamesInv, NamesUnique
<1> QED
  BY <1>1, TypeInit, TypeStep, NamesInit, NamesStep, PTL DEF Spec

-----------------------------------------------------------------------------
(***************************************************************************)
(* Spacing                                                                 *)
(***************************************************************************)

\* What the service's shots are apart.
Apart == Min({Cadence, ReconcileWait + AfterShot})

LEMMA ApartIs == Apart \in Nat /\ Apart <= Cadence /\ Apart <= ReconcileWait + AfterShot
<1>1. Cadence \in Int /\ ReconcileWait + AfterShot \in Int
  BY NumberTypes
<1>2. Apart = IF Cadence <= ReconcileWait + AfterShot THEN Cadence ELSE ReconcileWait + AfterShot
  BY <1>1, MinOfTwo DEF Apart
<1> QED
  BY <1>2, NumberTypes

\* What the service's place says of the time since a row of its own.
Since(at) ==
  /\ pc[Service] = "asleep" => wakeAt[Service] >= at + Apart
  /\ pc[Service] \in {"drawing", "making"} => now >= at + Apart
  /\ pc[Service] = "waiting" => wakeAt[Service] >= at + ReconcileWait
  /\ pc[Service] \in {"reporting", "completing"} => now >= at + ReconcileWait

SpaceInv == \A i \in Id : ledger[i].by = Service => Since(ledger[i].at)

\* A row keeps its time and its process, and a new one is of now.
LEMMA AtStep ==
  ASSUME BotInv, [Next]_vars, NEW i \in Id'
  PROVE  \/ i \in Id /\ ledger'[i].at = ledger[i].at /\ ledger'[i].by = ledger[i].by
         \/ /\ i = Len(ledger) + 1 /\ i \notin Id /\ Id' = Id \union {i}
            /\ ledger'[i].at = now
            /\ \E b \in Bot : ledger'[i].by = b /\ (StdStale(b) \/ CommitRow(b))
<1>1. ASSUME NEW b \in Bot, StdStale(b) \/ CommitRow(b), NEW s, NEW n, NEW o,
             Added(RowOf(b, s, n, o))
      PROVE  \/ i \in Id /\ ledger'[i].at = ledger[i].at /\ ledger'[i].by = ledger[i].by
             \/ /\ i = Len(ledger) + 1 /\ i \notin Id /\ Id' = Id \union {i}
                /\ ledger'[i].at = now
                /\ \E c \in Bot : ledger'[i].by = c /\ (StdStale(c) \/ CommitRow(c))
  <2> DEFINE r == RowOf(b, s, n, o)
  <2>1. r.at = now /\ r.by = b
    BY DEF RowOf
  <2>2. Added(r)
    BY <1>1
  <2> HIDE DEF r
  <2>3. /\ Len(ledger) \in Nat /\ Id' = Id \union {Len(ledger) + 1} /\ Len(ledger) + 1 \notin Id
        /\ \A j \in Id : ledger'[j] = ledger[j]
        /\ ledger'[Len(ledger) + 1] = r
    <3>1. Len(ledger) \in Nat
      BY <1>1, BotFacts
    <3> QED
      BY <2>2, <3>1 DEF Added, Id
  <2>4. CASE i \in Id
    BY <2>3, <2>4
  <2>5. CASE i = Len(ledger) + 1
    BY <1>1, <2>1, <2>3, <2>5
  <2> QED
    BY <2>3, <2>4, <2>5
<1>2. ASSUME NEW j \in Id, Edited(j)
      PROVE  i \in Id /\ ledger'[i].at = ledger[i].at /\ ledger'[i].by = ledger[i].by
  BY <1>2 DEF Edited, Id
<1>3. ASSUME UNCHANGED ledger
      PROVE  i \in Id /\ ledger'[i].at = ledger[i].at /\ ledger'[i].by = ledger[i].by
  BY <1>3 DEF Id
<1> QED
  BY <1>1, <1>2, <1>3, RowsStep

LEMMA RestIsLong ==
  ASSUME BotInv, NEW b \in Bot, b = Service
  PROVE  /\ StdStale(b) \/ GenerationFails(b) \/ FifoFails(b) =>
              pc'[b] = "asleep" /\ wakeAt'[b] = now + Cadence
         /\ ReconcileRaises(b) \/ Complete(b) \/ ReplayRaises(b) =>
              pc'[b] = "asleep" /\ wakeAt'[b] = now + AfterShot
<1>1. \A d \in Nat : Rest(b, d) => pc'[b] = "asleep" /\ wakeAt'[b] = now + d
  BY BotFacts, RestEnds
<1> QED
  BY <1>1, NumberTypes
     DEF StdStale, GenerationFails, FifoFails, ReconcileRaises, Complete, ReplayRaises

\* Where each step starts.
LEMMA Places ==
  ASSUME NEW b \in Bot
  PROVE  /\ StdStale(b) \/ Draw(b) => pc[b] = "drawing"
         /\ GenerationFails(b) \/ CommitRow(b) => pc[b] = "making"
         /\ FifoWritten(b) \/ FifoFails(b) => pc[b] = "firing"
         /\ DumpTaken(b) \/ DumpFails(b) => pc[b] = "dumping"
         /\ Reconcile(b) \/ ReconcileRaises(b) => pc[b] = "waiting" /\ now >= wakeAt[b]
         /\ Report(b) \/ ReportRaises(b) => pc[b] = "reporting"
         /\ Complete(b) \/ ReplayRaises(b) => pc[b] = "completing"
  BY Zenon DEF StdStale, Draw, GenerationFails, CommitRow, FifoWritten, FifoFails, DumpTaken, DumpFails,
     Reconcile, ReconcileRaises, Report, ReportRaises, Complete, ReplayRaises

LEMMA ServiceIsBot == Service \in Bot
  BY DEF Bot

LEMMA NowStep ==
  ASSUME BotInv, NEW b \in Bot, Acts(b)
  PROVE  now' = now
  BY DEF Acts, history, Start, Wake, StdStale, Draw, GenerationFails, CommitRow, FifoWritten,
         FifoFails, DumpTaken, DumpFails, Reconcile, ReconcileRaises, Report, ReportRaises,
         Complete, ReplayRaises, Crash

\* The service's own step, for a row it has and for one of now.
LEMMA SinceStep ==
  ASSUME BotInv, Acts(Service), NEW at \in Nat, at <= now,
         Since(at) \/ (at = now /\ (StdStale(Service) \/ CommitRow(Service))),
         Start(Service) => FirstShotAt >= at + Cadence
  PROVE  Since(at)'
<1> DEFINE S == Service
<1>1. /\ S \in Bot /\ ProcPart /\ now \in Nat /\ now' = now /\ wakeAt[S] \in Nat
      /\ pc'[S] \in {"down", "asleep", "exited"} \/ Ways(S)
  BY ServiceIsBot, BotFacts, NowStep, WayKeeps, RestIsRest, CrashIsEnd DEF ProcPart, Ended
<1>2. Apart \in Nat /\ Apart <= Cadence /\ Apart <= ReconcileWait + AfterShot
      /\ Cadence \in Nat /\ ReconcileWait \in Nat /\ AfterShot \in Nat
  BY ApartIs, NumberTypes
<1>3. CASE StdStale(S) \/ GenerationFails(S) \/ FifoFails(S)
  BY <1>1, <1>2, <1>3, RestIsLong DEF Since
<1>4. CASE ReconcileRaises(S) \/ Complete(S) \/ ReplayRaises(S)
  <2>1. pc'[S] = "asleep" /\ wakeAt'[S] = now + AfterShot
    BY <1>1, <1>4, RestIsLong
  <2>2. Since(at) \/ (at = now /\ CommitRow(S))
    BY <1>1, <1>4, Places
  <2>3. now >= at + ReconcileWait
    <3>1. (pc[S] = "waiting" /\ now >= wakeAt[S]) \/ pc[S] = "completing"
      BY <1>1, <1>4, Places
    <3>2. Since(at)
      BY <1>1, <2>2, <3>1, Places
    <3> QED
      BY <1>1, <1>2, <3>1, <3>2 DEF Since
  <2> QED
    BY <1>1, <1>2, <2>1, <2>3 DEF Since
<1>5. CASE Crash(S)
  BY <1>1, <1>5, CrashIsEnd DEF Since, Ended
<1>6. CASE Start(S)
  <2>1. pc'[S] = "asleep" /\ wakeAt'[S] = FirstShotAt
    BY <1>1, <1>6 DEF Start, ProcPart
  <2> QED
    BY <1>1, <1>2, <1>6, <2>1, FirstShotAtIs DEF Since, BotInv
<1>7. CASE Wake(S)
  BY <1>1, <1>2, <1>7 DEF Ways, Since, Wake, StdStale, CommitRow, ProcPart
<1>8. CASE Draw(S)
  <2>1. pc[S] = "drawing" /\ pc'[S] = "making"
    BY <1>1, <1>8, DrawIs DEF Draw
  <2>2. Since(at) \/ (at = now /\ StdStale(S))
    BY <1>1, <2>1, Places
  <2>3. CASE Since(at)
    BY <1>1, <2>1, <2>3 DEF Since
  <2>4. CASE StdStale(S)
    BY <1>1, <1>2, <2>4, RestIsLong, <2>1
  <2> QED
    BY <2>2, <2>3, <2>4
<1>9. CASE CommitRow(S)
  <2>1. pc'[S] = "firing"
    BY <1>1, <1>9 DEF CommitRow, ProcPart
  <2> QED
    BY <2>1 DEF Since
<1>10. CASE FifoWritten(S)
  <2>1. pc'[S] = "dumping"
    BY <1>1, <1>10 DEF FifoWritten, ProcPart
  <2> QED
    BY <2>1 DEF Since
<1>11. CASE DumpTaken(S) \/ DumpFails(S)
  <2>1. pc'[S] = "waiting" /\ wakeAt'[S] = now + ReconcileWait
    BY <1>1, <1>11 DEF DumpTaken, DumpFails, Waits, ProcPart
  <2> QED
    BY <1>1, <1>2, <2>1 DEF Since
<1>12. CASE Reconcile(S)
  <2>1. pc'[S] = "reporting" /\ pc[S] = "waiting" /\ now >= wakeAt[S]
    BY <1>1, <1>12 DEF Reconcile, ProcPart
  <2>2. Since(at)
    BY <2>1 DEF StdStale, CommitRow
  <2> QED
    BY <1>1, <1>2, <2>1, <2>2 DEF Since
<1>13. CASE Report(S) \/ ReportRaises(S)
  <2>1. pc'[S] = "completing" /\ pc[S] = "reporting"
    BY <1>1, <1>13 DEF Report, ReportRaises, ProcPart
  <2>2. Since(at)
    BY <2>1 DEF StdStale, CommitRow
  <2> QED
    BY <1>1, <1>2, <2>1, <2>2 DEF Since
<1> QED
  BY <1>3, <1>4, <1>5, <1>6, <1>7, <1>8, <1>9, <1>10, <1>11, <1>12, <1>13 DEF Acts

LEMMA SpaceInit == Init => SpaceInv /\ ShotsSpaced
<1>1. Init => Id = {}
  BY DEF Init, Id
<1> QED
  BY <1>1 DEF SpaceInv, ShotsSpaced

LEMMA SpaceStep ==
  BotInv /\ SpaceInv /\ ShotsSpaced /\ [Next]_vars => SpaceInv' /\ ShotsSpaced'
<1> SUFFICES ASSUME BotInv, SpaceInv, ShotsSpaced, [Next]_vars
             PROVE  SpaceInv' /\ ShotsSpaced'
  OBVIOUS
<1>1. /\ ledger \in Seq(Row) /\ now \in Nat /\ \A i \in Id : ledger[i].at \in Nat
      /\ \A i \in Id : ledger[i].at <= now
  BY TypeParts, RowType DEF BotInv, TypeInv, AtPart, TablePart
<1>2. SpaceInv'
  <2> SUFFICES ASSUME NEW i \in Id', ledger'[i].by = Service, NEW at, at = ledger'[i].at
               PROVE  Since(at)'
    BY DEF SpaceInv, Since
  <2>1. CASE Acts(Service)
    <3>1. at \in Nat /\ at <= now
      BY <1>1, AtStep
    <3>2. \/ i \in Id /\ at = ledger[i].at /\ Since(at)
          \/ at = now /\ (StdStale(Service) \/ CommitRow(Service))
      BY AtStep DEF SpaceInv
    <3>3. Start(Service) => FirstShotAt >= at + Cadence
      <4>1. ASSUME Start(Service) PROVE UNCHANGED ledger
        BY <4>1 DEF Start, tables
      <4> QED
        BY <4>1, FirstShotAtIs DEF BotInv, Id
    <3> QED
      BY <2>1, <3>1, <3>2, <3>3, SinceStep
  <2>2. CASE ~ Acts(Service)
    <3>1. i \in Id /\ at = ledger[i].at /\ Since(at)
      BY <2>2, AtStep DEF SpaceInv, Acts
    <3>2. /\ pc'[Service] = pc[Service] /\ wakeAt'[Service] = wakeAt[Service]
          /\ now' \in Nat /\ now' >= now
      <4>1. ASSUME NEW b \in Bot, Acts(b)
            PROVE  pc'[Service] = pc[Service] /\ wakeAt'[Service] = wakeAt[Service] /\ now' = now
        BY <2>2, <4>1, WayKeeps, NowStep, ServiceIsBot DEF OthersKeep
      <4>2. ASSUME Around
            PROVE  UNCHANGED <<pc, wakeAt>> /\ (now' = now \/ now' = now + 1)
        BY <4>2 DEF Around, T2Stores, T2Dumps, Tick, vars, bot
      <4> QED
        BY <1>1, <4>1, <4>2, NextIs
    <3> QED
      BY <1>1, <3>1, <3>2, ApartIs, NumberTypes DEF Since
  <2> QED
    BY <2>1, <2>2
<1>3. ShotsSpaced'
  <2> SUFFICES ASSUME NEW i \in Id', NEW j \in Id', i < j,
                      ledger'[i].by = Service, ledger'[j].by = Service
               PROVE  ledger'[j].at - ledger'[i].at >= Apart
    BY DEF ShotsSpaced, Apart
  <2>1. Len(ledger) \in Nat
    BY <1>1, LenProperties
  <2>2. i \in Id /\ ledger'[i].at = ledger[i].at /\ ledger[i].by = Service
    BY <2>1, AtStep DEF Id
  <2>3. CASE j \in Id /\ ledger'[j].at = ledger[j].at /\ ledger[j].by = Service
    BY <2>2, <2>3 DEF ShotsSpaced, Apart
  <2>4. CASE ledger'[j].at = now /\ (StdStale(Service) \/ CommitRow(Service))
    <3>1. now >= ledger[i].at + Apart
      BY <2>2, <2>4 DEF SpaceInv, Since, StdStale, CommitRow
    <3> QED
      BY <1>1, <2>2, <2>4, <3>1, ApartIs
  <2> QED
    BY <2>3, <2>4, AtStep
<1> QED
  BY <1>2, <1>3

(***************************************************************************)
(* The service's shots are the cadence or a whole turn of the loop apart,  *)
(* across crashes at any step, failures of any stage and manual shots.     *)
(***************************************************************************)
THEOREM SpacingCorrect == Spec => []ShotsSpaced
  BY TypeInit, TypeStep, SpaceInit, SpaceStep, PTL DEF Spec

-----------------------------------------------------------------------------
(***************************************************************************)
(* Outcomes                                                                *)
(***************************************************************************)

\* What one step does to a process and its shot.
ShotMoves(c) ==
  \/ shot'[c] = 0 /\ pc'[c] \notin Underway \ {"making"}
  \/ /\ CommitRow(c) /\ pc'[c] = "firing"
     /\ shot'[c] = Len(ledger) + 1 /\ spot'[c] = spot[c]
  \/ /\ shot[c] # 0 /\ shot'[c] = shot[c] /\ spot'[c] = spot[c]
     /\ \/ pc'[c] = pc[c] /\ hasDump'[c] = hasDump[c] /\ ~ Acts(c)
        \/ FifoWritten(c) /\ pc[c] = "firing" /\ pc'[c] = "dumping"
        \/ (DumpTaken(c) \/ DumpFails(c)) /\ pc[c] = "dumping" /\ pc'[c] = "waiting"
        \/ Reconcile(c) /\ pc[c] = "waiting" /\ pc'[c] = "reporting"
        \/ (Report(c) \/ ReportRaises(c)) /\ pc[c] = "reporting" /\ pc'[c] = "completing"

LEMMA ShotStep ==
  ASSUME BotInv, [Next]_vars, NEW c \in Bot
  PROVE  ShotMoves(c)
<1>1. ProcPart /\ ShotOf(c) /\ (pc[c] \in Underway \ {"making"} <=> shot[c] # 0)
  BY BotFacts DEF ShotOf
<1>2. CASE Acts(c)
  <2>1. Rests(c) \/ Crash(c) \/ Ways(c)
    BY <1>2, WayKeeps
  <2>2. CASE Rests(c) \/ Crash(c)
    BY <2>2, RestIsRest, CrashIsEnd DEF Ended, ShotMoves
  <2>3. CASE Start(c) \/ Wake(c) \/ Draw(c)
    <3>1. shot' = shot /\ pc[c] \in {"down", "asleep", "drawing"}
          /\ pc'[c] \in {"asleep", "drawing", "making"}
      BY <1>1, <2>3 DEF Start, Wake, Draw, ProcPart
    <3> QED
      BY <1>1, <3>1 DEF ShotMoves, Underway
  <2>4. CASE CommitRow(c)
    BY <1>1, <2>4 DEF CommitRow, ProcPart, ShotMoves
  <2>5. CASE FifoWritten(c)
    BY <1>1, <2>5 DEF FifoWritten, ProcPart, ShotMoves, Underway
  <2>6. CASE DumpTaken(c) \/ DumpFails(c)
    BY <1>1, <2>6 DEF DumpTaken, DumpFails, Waits, ProcPart, ShotMoves, Underway
  <2>7. CASE Reconcile(c)
    BY <1>1, <2>7 DEF Reconcile, ProcPart, ShotMoves, Underway
  <2>8. CASE Report(c) \/ ReportRaises(c)
    BY <1>1, <2>8 DEF Report, ReportRaises, ProcPart, ShotMoves, Underway
  <2> QED
    BY <2>1, <2>2, <2>3, <2>4, <2>5, <2>6, <2>7, <2>8 DEF Ways
<1>3. CASE ~ Acts(c)
  <2>1. pc'[c] = pc[c] /\ shot'[c] = shot[c] /\ spot'[c] = spot[c] /\ hasDump'[c] = hasDump[c]
    <3>1. ASSUME NEW b \in Bot, Acts(b)
          PROVE  /\ pc'[c] = pc[c] /\ shot'[c] = shot[c] /\ spot'[c] = spot[c]
                 /\ hasDump'[c] = hasDump[c]
      BY <1>3, <3>1, WayKeeps DEF OthersKeep
    <3> QED
      BY <3>1, NextIs, AroundKeeps
  <2> QED
    BY <1>1, <1>3, <2>1 DEF ShotMoves
<1> QED
  BY <1>2, <1>3

\* The pulses of the stream are of rows, at their spots; a shot that is fired
\* has none yet and one that was fired has one.
PulsesInv ==
  /\ \A p \in pulses : p.id \in Id /\ p.at \in Int /\ p.spot = ledger[p.id].spot
  /\ \A b \in Bot :
       /\ pc[b] = "firing" => \A p \in pulses : p.id # shot[b]
       /\ pc[b] \in {"dumping", "waiting", "reporting", "completing"} =>
            \E p \in pulses : p.id = shot[b]
       /\ shot[b] # 0 => spot[b] = ledger[shot[b]].spot

LEMMA PulsesStep ==
  ASSUME BotInv, [Next]_vars
  PROVE  \/ UNCHANGED pulses
         \/ \E b \in Bot, lead \in 0 .. MaxLead :
              /\ FifoWritten(b) /\ pc[b] = "firing" /\ shot[b] \in Id /\ pc'[b] = "dumping"
              /\ UNCHANGED <<ledger, clusters, late>>
              /\ pulses' = pulses \union
                   {[id |-> shot[b], spot |-> spot[b], at |-> now - lead]}
<1>1. ASSUME NEW b \in Bot, FifoWritten(b)
      PROVE  \E lead \in 0 .. MaxLead :
              /\ FifoWritten(b) /\ pc[b] = "firing" /\ shot[b] \in Id /\ pc'[b] = "dumping"
              /\ UNCHANGED <<ledger, clusters, late>>
              /\ pulses' = pulses \union
                   {[id |-> shot[b], spot |-> spot[b], at |-> now - lead]}
  <2>1. PICK lead \in 0 .. MaxLead :
          pulses' = pulses \union {[id |-> shot[b], spot |-> spot[b], at |-> now - lead]}
    BY <1>1 DEF FifoWritten
  <2>2. pc[b] = "firing" /\ pc'[b] = "dumping" /\ UNCHANGED <<ledger, clusters, late>>
    BY <1>1, BotFacts DEF FifoWritten, tables, history, ProcPart
  <2>3. shot[b] \in Id
    BY <2>2, BotFacts DEF ShotOf, Underway
  <2> QED
    BY <1>1, <2>1, <2>2, <2>3
<1>2. UNCHANGED pulses \/ \E b \in Bot : FifoWritten(b)
  BY DEF Next, vars, sky, Start, Wake, StdStale, Draw, GenerationFails, CommitRow, FifoFails,
     DumpTaken, DumpFails, Reconcile, ReconcileRaises, Report, ReportRaises, Complete, ReplayRaises,
     Crash, T2Stores, T2Dumps, Tick
<1> QED
  BY <1>1, <1>2

\* A row keeps its time, its spot and its process.
LEMMA RowStays ==
  ASSUME BotInv, [Next]_vars
  PROVE  \A i \in Id :
           /\ i \in Id' /\ ledger'[i].at = ledger[i].at /\ ledger'[i].spot = ledger[i].spot
           /\ ledger'[i].by = ledger[i].by
<1>1. Len(ledger) \in Nat
  BY TypeParts, LenProperties DEF BotInv, TypeInv, TablePart
<1>2. ASSUME NEW r, Added(r)
      PROVE  \A i \in Id : i \in Id' /\ ledger'[i] = ledger[i]
  BY <1>1, <1>2 DEF Added, Id
<1>3. ASSUME NEW j \in Id, Edited(j)
      PROVE  \A i \in Id :
               /\ i \in Id' /\ ledger'[i].at = ledger[i].at /\ ledger'[i].spot = ledger[i].spot
               /\ ledger'[i].by = ledger[i].by
  BY <1>3 DEF Edited, Id
<1>4. UNCHANGED ledger \/ (\E r : Added(r)) \/ \E j \in Id : Edited(j)
  BY RowsStep
<1>5. CASE UNCHANGED ledger
  BY <1>5 DEF Id
<1> QED
  BY <1>2, <1>3, <1>4, <1>5

LEMMA CommitIs ==
  ASSUME BotInv, [Next]_vars, NEW c \in Bot, CommitRow(c)
  PROVE  /\ Len(ledger) \in Nat /\ Len(ledger) + 1 \notin Id /\ UNCHANGED pulses
         /\ Id' = Id \union {Len(ledger) + 1}
         /\ ledger'[Len(ledger) + 1].spot = spot[c] /\ ledger'[Len(ledger) + 1].outcome = None
         /\ \A i \in Id : ledger'[i] = ledger[i]
<1> DEFINE r == RowOf(c, spot[c], name[c], None)
<1>1. r.spot = spot[c] /\ r.outcome = None
  BY DEF RowOf
<1>2. name[c] \in Nat \X Nat /\ spot[c] \in Spot /\ Len(ledger) \in Nat /\ ledger \in Seq(Row)
  BY BotFacts, Places DEF Underway, ProcPart
<1>3. Added(r)
  BY <1>2, RowOfType, AddRowAdds DEF CommitRow
<1> HIDE DEF r
<1>4. UNCHANGED pulses
  BY DEF CommitRow, sky
<1> QED
  BY <1>1, <1>2, <1>3, <1>4 DEF Added, Id

LEMMA PulsesInit == Init => PulsesInv
  BY DEF Init, PulsesInv

LEMMA PulsesInvStep == BotInv /\ PulsesInv /\ [Next]_vars => PulsesInv'
<1> SUFFICES ASSUME BotInv, PulsesInv, [Next]_vars PROVE PulsesInv'
  OBVIOUS
<1>1. pulses \subseteq pulses'
  BY PulsesStep
<1>2. ASSUME NEW p \in pulses'
      PROVE  p.id \in Id /\ p.at \in Int /\ p.spot = ledger[p.id].spot
  <2>1. CASE p \in pulses
    BY <2>1 DEF PulsesInv
  <2>2. CASE p \notin pulses
    <3>1. PICK b \in Bot, lead \in 0 .. MaxLead :
            /\ shot[b] \in Id /\ pc[b] = "firing"
            /\ p = [id |-> shot[b], spot |-> spot[b], at |-> now - lead]
      BY <2>2, PulsesStep
    <3>2. shot[b] # 0 /\ now \in Nat
      BY <3>1, BotFacts DEF ShotOf, Underway
    <3>3. spot[b] = ledger[shot[b]].spot /\ now - lead \in Int
      BY <3>2 DEF PulsesInv
    <3> QED
      BY <3>1, <3>3
  <2> QED
    BY <2>1, <2>2
<1>3. \A p \in pulses' : p.id \in Id' /\ p.at \in Int /\ p.spot = ledger'[p.id].spot
  BY <1>2, RowStays
<1>4. ASSUME NEW c \in Bot
      PROVE  /\ pc'[c] = "firing" => \A p \in pulses' : p.id # shot'[c]
             /\ pc'[c] \in {"dumping", "waiting", "reporting", "completing"} =>
                  \E p \in pulses' : p.id = shot'[c]
             /\ shot'[c] # 0 => spot'[c] = ledger'[shot'[c]].spot
  <2>1. CASE shot'[c] = 0 /\ pc'[c] \notin Underway \ {"making"}
    BY <2>1 DEF Underway
  <2>2. CASE /\ CommitRow(c) /\ pc'[c] = "firing"
             /\ shot'[c] = Len(ledger) + 1 /\ spot'[c] = spot[c]
    BY <1>2, <2>2, CommitIs
  <2>3. CASE shot[c] # 0 /\ shot'[c] = shot[c] /\ spot'[c] = spot[c]
    <3>1. shot[c] \in Id /\ ShotMoves(c)
      BY <2>3, BotFacts, ShotStep
    <3>2. shot'[c] # 0 => spot'[c] = ledger'[shot'[c]].spot
      BY <2>3, <3>1, RowStays DEF PulsesInv
    <3>3. ASSUME pc'[c] = "firing"
          PROVE  \A p \in pulses' : p.id # shot'[c]
      <4>1. pc[c] = "firing"
        BY <2>3, <3>1, <3>3, CommitIs DEF ShotMoves
      <4>2. \A p \in pulses : p.id # shot[c]
        BY <4>1 DEF PulsesInv
      <4>3. ASSUME NEW b \in Bot, shot[b] \in Id, pc'[b] = "dumping"
            PROVE  shot[b] # shot[c]
        BY <2>3, <3>3, <4>3 DEF BotInv, Distinct
      <4> QED
        BY <2>3, <4>2, <4>3, PulsesStep
    <3>4. ASSUME pc'[c] \in {"dumping", "waiting", "reporting", "completing"}
          PROVE  \E p \in pulses' : p.id = shot'[c]
      <4>1. CASE pc[c] \in {"dumping", "waiting", "reporting", "completing"}
        BY <1>1, <2>3, <4>1 DEF PulsesInv
      <4>2. CASE FifoWritten(c)
        <5>1. PICK lead \in 0 .. MaxLead :
                pulses' = pulses \union {[id |-> shot[c], spot |-> spot[c], at |-> now - lead]}
          BY <4>2 DEF FifoWritten
        <5>2. [id |-> shot[c], spot |-> spot[c], at |-> now - lead].id = shot[c]
          OBVIOUS
        <5> QED
          BY <2>3, <5>1, <5>2
      <4> QED
        BY <2>3, <3>1, <3>4, <4>1, <4>2, CommitIs DEF ShotMoves
    <3> QED
      BY <3>2, <3>3, <3>4
  <2> QED
    BY <2>1, <2>2, <2>3, ShotStep DEF ShotMoves
<1> QED
  BY <1>3, <1>4 DEF PulsesInv

Fired(i) == \E p \in pulses : p.id = i
Near(i) == {p \in pulses : p.at \in ledger[i].at - WindowLo .. ledger[i].at + WindowHi}

\* OutcomeTrue, of one row.
Truth(i) ==
  /\ ledger[i].outcome = "fire_failed" => ~ Fired(i)
  /\ ledger[i].outcome = "missed" =>
       Fired(i) /\ ((\E p \in Near(i) : p.id = i) /\ i \in clusters => i \in late)
  /\ ledger[i].outcome = "recovered" =>
       Fired(i) /\ ((\A p \in Near(i) : p.id = i) => i \in clusters)

TruthInv == \A i \in Id : Truth(i)

LEMMA TruthIsTrue == ASSUME BotInv, TruthInv PROVE OutcomeTrue
<1> SUFFICES ASSUME NEW i \in Id
             PROVE  CASE ledger[i].outcome = None -> TRUE
                      [] ledger[i].outcome = "fire_failed" -> ~ Fired(i)
                      [] ledger[i].outcome = "missed" ->
                           /\ Fired(i)
                           /\ (\E p \in Near(i) : p.id = i) /\ i \in clusters => i \in late
                      [] OTHER -> Fired(i) /\ ((\A p \in Near(i) : p.id = i) => i \in clusters)
  BY DEF OutcomeTrue, Fired, Near
<1>1. Truth(i) /\ ledger[i].outcome \in Outcome \union {None}
  BY TypeParts, RowType DEF TruthInv, BotInv, TypeInv, TablePart
<1>2. None \notin Outcome
  BY NoneAssumption
<1> QED
  BY <1>1, <1>2 DEF Truth, Outcome

\* Matching and Near are of one window.
LEMMA MatchingIs ==
  ASSUME BotInv, PulsesInv, NEW i \in Id
  PROVE  /\ \A p \in Near(i) : p.id = i => i \in Matching(i)
         /\ \A k \in Matching(i) : \E p \in Near(i) : p.id = k
<1>1. ledger[i].at \in Nat /\ WindowLo \in Nat /\ WindowHi \in Nat
  BY TypeParts, RowType, BoundAssumption DEF BotInv, TypeInv, TablePart
<1>2. \A p \in pulses : p.at \in Int /\ p.spot = ledger[p.id].spot
  BY DEF PulsesInv
<1>3. \A p \in pulses : p \in Near(i) <=> InWindow(ledger[i], p.at)
  BY <1>1, <1>2 DEF Near, InWindow
<1> QED
  BY <1>2, <1>3 DEF Matching, Near

LEMMA ClustersStep ==
  ASSUME [Next]_vars
  PROVE  /\ clusters \subseteq clusters' /\ late \subseteq late'
         /\ \A i \in clusters' \ clusters : ledger[i].outcome # None => i \in late'
<1>1. UNCHANGED <<clusters, late>> \/ \E p \in pulses : T2Stores(p)
  BY DEF Next, vars, sky, history, Start, Wake, StdStale, Draw, GenerationFails, CommitRow, FifoWritten,
     FifoFails, DumpTaken, DumpFails, Reconcile, ReconcileRaises, Report, ReportRaises, Complete,
     ReplayRaises, Crash, T2Dumps, Tick
<1>2. ASSUME NEW p \in pulses, T2Stores(p)
      PROVE  /\ clusters \subseteq clusters' /\ late \subseteq late'
             /\ \A i \in clusters' \ clusters : ledger[i].outcome # None => i \in late'
  BY <1>2 DEF T2Stores
<1> QED
  BY <1>1, <1>2

\* How the outcome of a row that was there may change.
LEMMA OutcomeStep ==
  ASSUME BotInv, [Next]_vars, NEW i \in Id
  PROVE  \/ ledger'[i].outcome = ledger[i].outcome
         \/ /\ ledger[i].outcome = None /\ ledger'[i].outcome = "fire_failed"
            /\ UNCHANGED <<pulses, clusters, late>>
            /\ \E b \in Bot : FifoFails(b) /\ pc[b] = "firing" /\ shot[b] = i
         \/ /\ ledger[i].outcome = None /\ ledger'[i].outcome = OutcomeOf(i)
            /\ UNCHANGED <<pulses, clusters, late>>
            /\ \E b \in Bot : Reconcile(b) /\ pc[b] = "waiting" /\ shot[b] = i
<1>1. Len(ledger) \in Nat
  BY TypeParts, LenProperties DEF BotInv, TypeInv, TablePart
<1>2. ASSUME NEW r, Added(r)
      PROVE  ledger'[i] = ledger[i]
  BY <1>1, <1>2 DEF Added
<1>3. ASSUME NEW b \in Bot, FifoFails(b) \/ Reconcile(b)
      PROVE  UNCHANGED <<pulses, clusters, late>>
  BY <1>3 DEF FifoFails, Reconcile, sky, history
<1>4. ASSUME NEW j \in Id, Edited(j), i # j
      PROVE  ledger'[i] = ledger[i]
  BY <1>4 DEF Edited
<1>5. CASE UNCHANGED ledger \/ \E r : Added(r)
  BY <1>2, <1>5
<1>6. CASE \E b \in Bot :
              /\ shot[b] \in Id /\ Edited(shot[b])
              /\ ledger'[shot[b]].outcome = ledger[shot[b]].outcome
  BY <1>4, <1>6
<1>7. CASE \E b \in Bot :
              /\ FifoFails(b) /\ pc[b] = "firing" /\ shot[b] \in Id /\ Edited(shot[b])
              /\ ledger[shot[b]].outcome = None
              /\ ledger'[shot[b]].outcome = "fire_failed"
  BY <1>3, <1>4, <1>7
<1>8. CASE \E b \in Bot :
              /\ Reconcile(b) /\ pc[b] = "waiting" /\ shot[b] \in Id /\ Edited(shot[b])
              /\ ledger[shot[b]].outcome = None
              /\ ledger'[shot[b]].outcome = OutcomeOf(shot[b])
  BY <1>3, <1>4, <1>8
<1> QED
  BY <1>5, <1>6, <1>7, <1>8, RowsStep

\* A row that enters the ledger is open, or of a shot that was not fired.
LEMMA NewRow ==
  ASSUME BotInv, [Next]_vars, NEW i \in Id', i \notin Id
  PROVE  /\ ledger'[i].outcome \in {None, "fire_failed"} /\ UNCHANGED pulses
         /\ i = Len(ledger) + 1 /\ Len(ledger') = Len(ledger) + 1
<1>1. ASSUME NEW r, Added(r)
      PROVE  i = Len(ledger) + 1 /\ Len(ledger') = Len(ledger) + 1 /\ ledger'[i] = r
  <2>1. Len(ledger) \in Nat
    BY TypeParts, LenProperties DEF BotInv, TypeInv, TablePart
  <2> QED
    BY <1>1, <2>1 DEF Added, Id
<1>2. ASSUME NEW j \in Id, Edited(j)
      PROVE  FALSE
  BY <1>2 DEF Edited, Id
<1>3. ledger' # ledger
  BY DEF Id
<1>4. \A b, s, n, o : RowOf(b, s, n, o).outcome = o
  BY DEF RowOf
<1>5. \E b \in Bot : \E s, n : \E o \in {None, "fire_failed"} :
        (StdStale(b) \/ CommitRow(b)) /\ Added(RowOf(b, s, n, o))
  BY <1>2, <1>3, RowsStep
<1>6. PICK b \in Bot : \E s, n : \E o \in {None, "fire_failed"} :
        (StdStale(b) \/ CommitRow(b)) /\ Added(RowOf(b, s, n, o))
  BY <1>5
<1>7. PICK s, n, o :
        /\ o \in {None, "fire_failed"}
        /\ (StdStale(b) \/ CommitRow(b)) /\ Added(RowOf(b, s, n, o))
  BY <1>6
<1>8. UNCHANGED pulses
  BY <1>7 DEF StdStale, CommitRow, sky
<1> QED
  BY <1>1, <1>4, <1>7, <1>8

LEMMA TruthInit == Init => TruthInv
<1>1. Init => Id = {}
  BY DEF Init, Id
<1> QED
  BY <1>1 DEF TruthInv

LEMMA TruthStep == BotInv /\ PulsesInv /\ TruthInv /\ [Next]_vars => TruthInv'
<1> SUFFICES ASSUME BotInv, PulsesInv, TruthInv, [Next]_vars, NEW i \in Id'
             PROVE  Truth(i)'
  BY DEF TruthInv
<1>1. CASE i \notin Id
  <2>1. ledger'[i].outcome \in {None, "fire_failed"} /\ UNCHANGED pulses
    BY <1>1, NewRow
  <2>2. ~ Fired(i)'
    BY <1>1, <2>1 DEF Fired, PulsesInv
  <2>3. None # "missed" /\ None # "recovered"
    BY NoneAssumption DEF Outcome
  <2> QED
    BY <2>1, <2>2, <2>3 DEF Truth
<1>2. CASE i \in Id
  <2>1. Truth(i) /\ ledger'[i].at = ledger[i].at
    BY <1>2, RowStays DEF TruthInv
  <2>2. None \notin Outcome
    BY NoneAssumption
  <2>3. CASE /\ ledger[i].outcome = None /\ ledger'[i].outcome = "fire_failed"
             /\ UNCHANGED <<pulses, clusters, late>>
             /\ \E b \in Bot : FifoFails(b) /\ pc[b] = "firing" /\ shot[b] = i
    BY <2>3 DEF Truth, Fired, PulsesInv
  <2>4. CASE /\ ledger[i].outcome = None /\ ledger'[i].outcome = OutcomeOf(i)
             /\ UNCHANGED <<pulses, clusters, late>>
             /\ \E b \in Bot : Reconcile(b) /\ pc[b] = "waiting" /\ shot[b] = i
    <3>1. Fired(i)
      BY <2>4 DEF Fired, PulsesInv
    <3>2. Fired(i)' /\ Near(i)' = Near(i)
      BY <2>1, <2>4, <3>1 DEF Fired, Near
    <3>3. CASE Matching(i) \intersect clusters # {}
      <4>1. ledger'[i].outcome = "recovered"
        BY <2>4, <3>3 DEF OutcomeOf
      <4>2. PICK k \in Matching(i) : k \in clusters
        BY <3>3
      <4>3. (\A p \in Near(i) : p.id = i) => i \in clusters
        BY <1>2, <4>2, MatchingIs
      <4> QED
        BY <2>4, <3>2, <4>1, <4>3 DEF Truth
    <3>4. CASE Matching(i) \intersect clusters = {}
      <4>1. ledger'[i].outcome = "missed"
        BY <2>4, <3>4 DEF OutcomeOf
      <4>2. ~ ((\E p \in Near(i) : p.id = i) /\ i \in clusters)
        BY <1>2, <3>4, MatchingIs
      <4> QED
        BY <2>4, <3>2, <4>1, <4>2 DEF Truth
    <3> QED
      BY <3>3, <3>4
  <2>5. CASE ledger'[i].outcome = ledger[i].outcome
    <3>1. CASE ledger[i].outcome = None
      BY <2>2, <2>5, <3>1 DEF Truth, Outcome
    <3>2. CASE ledger[i].outcome # None
      <4>1. pulses \subseteq pulses' /\ \A p \in pulses' \ pulses : p.id # i
        <5>1. ASSUME NEW b \in Bot, pc[b] = "firing"
              PROVE  shot[b] # i
          BY <3>2, <5>1, BotFacts DEF ShotOf, Underway
        <5> QED
          BY <5>1, PulsesStep
      <4>2. Fired(i)' <=> Fired(i)
        BY <4>1 DEF Fired
      <4>3. /\ (\E p \in Near(i)' : p.id = i) <=> (\E p \in Near(i) : p.id = i)
            /\ (\A p \in Near(i)' : p.id = i) => (\A p \in Near(i) : p.id = i)
        BY <2>1, <4>1 DEF Near
      <4>4. /\ clusters \subseteq clusters' /\ late \subseteq late'
            /\ i \in clusters' \ clusters => i \in late'
        BY <3>2, ClustersStep
      <4> QED
        BY <2>1, <2>5, <4>2, <4>3, <4>4 DEF Truth
    <3> QED
      BY <3>1, <3>2
  <2> QED
    BY <1>2, <2>3, <2>4, <2>5, OutcomeStep
<1> QED
  BY <1>1, <1>2

(***************************************************************************)
(* The outcome of a shot is what happened to it, whatever process died     *)
(* where and however late the FIFO write and the cluster came.             *)
(***************************************************************************)
THEOREM OutcomeCorrect == Spec => []OutcomeTrue
<1>1. BotInv /\ TruthInv => OutcomeTrue
  BY TruthIsTrue
<1> QED
  BY <1>1, TypeInit, TypeStep, PulsesInit, PulsesInvStep, TruthInit, TruthStep, PTL DEF Spec

-----------------------------------------------------------------------------
(***************************************************************************)
(* The life of a shot                                                      *)
(***************************************************************************)

Alerted == {alerts[k].id : k \in DOMAIN alerts}
Cleaners == {d.after : d \in deleted}

\* Messages are about shots that have an outcome, the shot whose message is
\* due has none, and the shots under way have deleted nothing.
LifeInv ==
  /\ \A i \in Alerted : i \in Id /\ ledger[i].outcome # None
  /\ \A i \in Cleaners : i \in Id
  /\ \A b \in Bot : /\ pc[b] = "reporting" => shot[b] \notin Alerted
                  /\ shot[b] \notin Cleaners

\* A shot whose outcome is not a miss ends the streak.
LEMMA DueIsMissed ==
  ASSUME BotInv, NEW i \in Id, ledger[i].outcome # None, AttentionDue(Streak(i))
  PROVE  ledger[i].outcome = "missed"
<1> SUFFICES ASSUME ledger[i].outcome # "missed" PROVE FALSE
  OBVIOUS
<1> DEFINE others == {j \in Resolved(i) : ledger[j].outcome # "missed"}
           run == {j \in Resolved(i) : \A o \in others : j > o}
<1>1. i \in Nat /\ i \in Resolved(i) /\ i \in others
  BY DEF Resolved, Id
<1>2. run = {}
  BY <1>1 DEF Resolved
<1>3. Streak(i) = Min({Cardinality(run), StreakLimit})
  BY DEF Streak
<1>4. Streak(i) = Min({0, StreakLimit})
  <2> HIDE DEF run
  <2> QED
    BY <1>2, <1>3, FS_EmptySet
<1>5. Streak(i) = 0
  BY <1>4, MinOfTwo, NumberTypes
<1> QED
  BY <1>5 DEF AttentionDue

LEMMA AlertsStep ==
  ASSUME BotInv, [Next]_vars
  PROVE  \/ UNCHANGED alerts
         \/ \E b \in Bot :
              /\ Report(b) /\ pc[b] = "reporting" /\ pc'[b] = "completing" /\ shot[b] \in Id
              /\ shot'[b] = shot[b] /\ shot[b] # 0
              /\ AttentionDue(Streak(shot[b])) /\ ledger[shot[b]].outcome = "missed"
              /\ UNCHANGED <<ledger, pulses, deleted, crossed>>
              /\ alerts' = Append(alerts, [n |-> Streak(shot[b]), id |-> shot[b]])
              /\ Len(alerts') = Len(alerts) + 1 /\ DOMAIN alerts = 1 .. Len(alerts)
              /\ DOMAIN alerts' = 1 .. Len(alerts) + 1 /\ Len(alerts) \in Nat
              /\ \A k \in DOMAIN alerts : alerts'[k] = alerts[k]
              /\ alerts'[Len(alerts) + 1].id = shot[b]
              /\ alerts'[Len(alerts) + 1].n = Streak(shot[b])
              /\ Alerted' = Alerted \union {shot[b]}
<1>1. ASSUME NEW b \in Bot, Report(b), AttentionDue(Streak(shot[b]))
      PROVE  /\ pc[b] = "reporting" /\ pc'[b] = "completing" /\ shot[b] \in Id
             /\ shot'[b] = shot[b] /\ shot[b] # 0
             /\ ledger[shot[b]].outcome = "missed"
             /\ UNCHANGED <<ledger, pulses, deleted, crossed>>
             /\ alerts' = Append(alerts, [n |-> Streak(shot[b]), id |-> shot[b]])
             /\ Len(alerts') = Len(alerts) + 1 /\ DOMAIN alerts = 1 .. Len(alerts)
             /\ DOMAIN alerts' = 1 .. Len(alerts) + 1 /\ Len(alerts) \in Nat
             /\ \A k \in DOMAIN alerts : alerts'[k] = alerts[k]
             /\ alerts'[Len(alerts) + 1].id = shot[b]
             /\ alerts'[Len(alerts) + 1].n = Streak(shot[b])
             /\ Alerted' = Alerted \union {shot[b]}
  <2> DEFINE e == [n |-> Streak(shot[b]), id |-> shot[b]]
             S == [n: Nat, id: Id]
  <2>1. /\ pc[b] = "reporting" /\ pc'[b] = "completing" /\ shot'[b] = shot[b]
        /\ UNCHANGED <<ledger, pulses, deleted, crossed>> /\ alerts' = Append(alerts, e)
    BY <1>1, BotFacts DEF Report, ProcPart, sky, history
  <2>2. shot[b] \in Id /\ shot[b] # 0 /\ ledger[shot[b]].outcome # None /\ shot[b] \in Nat
    BY <2>1, BotFacts DEF ShotOf, Underway, ProcPart
  <2>3. e \in S /\ alerts \in Seq(S)
    BY <2>2, BotFacts, StreakType DEF TablePart
  <2>4. /\ alerts' \in Seq(S) /\ Len(alerts') = Len(alerts) + 1
        /\ Len(alerts) \in Nat /\ DOMAIN alerts = 1 .. Len(alerts)
        /\ DOMAIN alerts' = 1 .. Len(alerts')
        /\ \A k \in DOMAIN alerts : alerts'[k] = alerts[k]
        /\ alerts'[Len(alerts) + 1] = e
    <3> HIDE DEF e, S
    <3> QED
      BY <2>1, <2>3, AppendProperties, LenProperties
  <2>5. e.id = shot[b] /\ e.n = Streak(shot[b])
    OBVIOUS
  <2>6. Alerted' = Alerted \union {shot[b]}
    <3> HIDE DEF e, S
    <3>1. DOMAIN alerts' = DOMAIN alerts \union {Len(alerts) + 1}
      BY <2>4
    <3> QED
      BY <2>4, <2>5, <3>1 DEF Alerted
  <2> QED
    <3> HIDE DEF S
    <3>1. ledger[shot[b]].outcome = "missed"
      BY <1>1, <2>2, DueIsMissed
    <3> QED
      BY <2>1, <2>2, <2>4, <2>5, <2>6, <3>1
<1>2. UNCHANGED alerts \/ \E b \in Bot : Report(b)
  BY DEF Next, vars, tables, Start, Wake, StdStale, Draw, GenerationFails, CommitRow, FifoWritten,
     FifoFails, DumpTaken, DumpFails, Reconcile, ReconcileRaises, ReportRaises, Complete,
     ReplayRaises, Crash, T2Stores, T2Dumps, Tick
<1>3. ASSUME NEW b \in Bot, Report(b), ~ AttentionDue(Streak(shot[b]))
      PROVE  UNCHANGED alerts
  BY <1>3 DEF Report
<1> QED
  BY <1>1, <1>2, <1>3

LEMMA AlertedStep ==
  ASSUME BotInv, [Next]_vars
  PROVE  \/ UNCHANGED Alerted
         \/ \E b \in Bot :
              /\ pc[b] = "reporting" /\ pc'[b] = "completing" /\ shot[b] \in Id /\ shot[b] # 0
              /\ ledger[shot[b]].outcome = "missed" /\ UNCHANGED ledger
              /\ Alerted' = Alerted \union {shot[b]}
<1>1. CASE UNCHANGED alerts
  BY <1>1 DEF Alerted
<1>2. CASE ~ UNCHANGED alerts
  BY <1>2, AlertsStep
<1> QED
  BY <1>1, <1>2

\* What a completion deletes, it deletes after a recovered shot.
LEMMA DeletedStep ==
  ASSUME BotInv, PulsesInv, TruthInv, [Next]_vars
  PROVE  \/ UNCHANGED deleted
         \/ \E b \in Bot :
              /\ Complete(b) /\ shot[b] \in Id /\ shot[b] # 0 /\ shot'[b] = 0
              /\ UNCHANGED <<ledger, alerts, pulses>>
              /\ ledger[shot[b]].outcome = "recovered"
              /\ ledger[shot[b]].dump # <<>>
              /\ Cleaned(b) = Overlapping(ledger[shot[b]].dump)
              /\ deleted' = deleted \union
                   {[owner |-> f.owner, after |-> shot[b]] : f \in Cleaned(b)}
              /\ Cleaners' = Cleaners \union {shot[b]}
<1>1. ASSUME NEW b \in Bot, Complete(b), Cleaned(b) # {}
      PROVE  /\ shot[b] \in Id /\ shot[b] # 0 /\ shot'[b] = 0
             /\ UNCHANGED <<ledger, alerts, pulses>>
             /\ ledger[shot[b]].outcome = "recovered"
             /\ ledger[shot[b]].dump # <<>>
             /\ Cleaned(b) = Overlapping(ledger[shot[b]].dump)
             /\ deleted' = deleted \union
                  {[owner |-> f.owner, after |-> shot[b]] : f \in Cleaned(b)}
             /\ Cleaners' = Cleaners \union {shot[b]}
  <2>1. /\ pc[b] = "completing" /\ UNCHANGED <<ledger, alerts, pulses>>
        /\ deleted' = deleted \union
             {[owner |-> f.owner, after |-> shot[b]] : f \in Cleaned(b)}
    BY <1>1 DEF Complete, sky
  <2>2. shot'[b] = 0
    BY <1>1, RestIsRest DEF Rests, Ended
  <2>3. shot[b] \in Id /\ shot[b] # 0 /\ ledger[shot[b]].outcome # None
    BY <2>1, BotFacts DEF ShotOf, Underway
  <2>4. /\ ~ KeptForMiss(ledger[shot[b]]) /\ ledger[shot[b]].dump # <<>>
        /\ Cleaned(b) = Overlapping(ledger[shot[b]].dump)
    BY <1>1 DEF Cleaned
  <2>5. Fired(shot[b])
    BY <2>1 DEF PulsesInv, Fired
  <2>6. ledger[shot[b]].outcome \in Outcome
    BY <2>3, BotFacts, RowType
  <2>7. ledger[shot[b]].outcome = "recovered"
    BY <2>3, <2>4, <2>5, <2>6 DEF TruthInv, Truth, KeptForMiss, Outcome
  <2>8. Cleaners' = Cleaners \union {shot[b]}
    <3> DEFINE D == {[owner |-> f.owner, after |-> shot[b]] : f \in Cleaned(b)}
    <3>1. D # {} /\ \A d \in D : d.after = shot[b]
      <4>1. PICK f \in Cleaned(b) : TRUE
        BY <1>1
      <4>2. \A g : [owner |-> g.owner, after |-> shot[b]].after = shot[b]
        OBVIOUS
      <4>3. [owner |-> f.owner, after |-> shot[b]] \in D
        BY <4>1
      <4>4. \A d \in D : d.after = shot[b]
        <5> TAKE d \in D
        <5>1. PICK g \in Cleaned(b) : d = [owner |-> g.owner, after |-> shot[b]]
          OBVIOUS
        <5> QED
          BY <4>2, <5>1
      <4> QED
        BY <4>3, <4>4
    <3>2. deleted' = deleted \union D
      BY <2>1
    <3> HIDE DEF D
    <3>3. PICK d \in D : d.after = shot[b]
      BY <3>1
    <3> QED
      BY <3>1, <3>2, <3>3 DEF Cleaners
  <2> QED
    BY <2>1, <2>2, <2>3, <2>4, <2>7, <2>8
<1>2. UNCHANGED deleted \/ \E b \in Bot : Complete(b)
  BY DEF Next, vars, history, Start, Wake, StdStale, Draw, GenerationFails, CommitRow, FifoWritten,
     FifoFails, DumpTaken, DumpFails, Reconcile, ReconcileRaises, Report, ReportRaises,
     ReplayRaises, Crash, T2Stores, T2Dumps, Tick
<1>3. ASSUME NEW b \in Bot, Complete(b), Cleaned(b) = {}
      PROVE  UNCHANGED deleted
  BY <1>3 DEF Complete
<1> QED
  BY <1>1, <1>2, <1>3

LEMMA LifeInit == Init => LifeInv
<1> SUFFICES ASSUME Init PROVE LifeInv
  OBVIOUS
<1>1. DOMAIN alerts = {} /\ deleted = {}
  BY DEF Init
<1>2. Alerted = {} /\ Cleaners = {}
  BY <1>1 DEF Alerted, Cleaners
<1> QED
  BY <1>2 DEF LifeInv

LEMMA LifeStep == BotInv /\ PulsesInv /\ TruthInv /\ LifeInv /\ [Next]_vars => LifeInv'
<1> SUFFICES ASSUME BotInv, PulsesInv, TruthInv, LifeInv, [Next]_vars PROVE LifeInv'
  OBVIOUS
<1>1. ASSUME NEW i \in Id, ledger[i].outcome # None
      PROVE  i \in Id' /\ ledger'[i].outcome # None
  BY <1>1, RowStays, OutcomeStep
<1>3. ASSUME UNCHANGED deleted
      PROVE  Cleaners' = Cleaners
  BY <1>3 DEF Cleaners
<1>4. None # "missed"
  BY NoneAssumption DEF Outcome
<1>5. \A i \in Alerted' : i \in Id' /\ ledger'[i].outcome # None
  BY <1>1, <1>4, AlertedStep DEF LifeInv
<1>6. \A i \in Cleaners' : i \in Id
  BY <1>3, DeletedStep DEF LifeInv
<1>7. ASSUME NEW c \in Bot
      PROVE  /\ pc'[c] = "reporting" => shot'[c] \notin Alerted'
             /\ shot'[c] \notin Cleaners'
  <2>1. CASE shot'[c] = 0 /\ pc'[c] \notin Underway \ {"making"}
    <3>1. shot'[c] \notin Id
      BY <2>1 DEF Id
    <3> QED
      BY <1>6, <2>1, <3>1 DEF Underway
  <2>2. CASE CommitRow(c) /\ pc'[c] = "firing" /\ shot'[c] = Len(ledger) + 1
    BY <1>6, <2>2, CommitIs
  <2>3. CASE shot[c] # 0 /\ shot'[c] = shot[c]
    <3>1. shot'[c] \notin Cleaners'
      BY <1>3, <2>3, DeletedStep DEF LifeInv, BotInv, Distinct
    <3>2. ASSUME pc'[c] = "reporting"
          PROVE  shot'[c] \notin Alerted'
      <4>1. shot[c] \notin Alerted
        <5>1. CASE pc[c] = "reporting"
          BY <5>1 DEF LifeInv
        <5>2. CASE pc[c] = "waiting"
          <6>1. ledger[shot[c]].outcome = None
            BY <5>2, BotFacts DEF ShotOf, Underway
          <6> QED
            BY <6>1 DEF LifeInv
        <5> QED
          BY <2>3, <3>2, <5>1, <5>2, ShotStep DEF ShotMoves, Underway
      <4>2. ASSUME NEW b \in Bot, shot[b] # 0, pc'[b] = "completing"
            PROVE  shot[b] # shot[c]
        BY <2>3, <3>2, <4>2 DEF BotInv, Distinct
      <4> QED
        BY <2>3, <4>1, <4>2, AlertedStep
    <3> QED
      BY <3>1, <3>2
  <2> QED
    BY <2>1, <2>2, <2>3, ShotStep DEF ShotMoves
<1> QED
  <2>1. Id \subseteq Id'
    BY RowStays
  <2> QED
    BY <1>5, <1>6, <1>7, <2>1 DEF LifeInv

-----------------------------------------------------------------------------
(***************************************************************************)
(* The refinement of ShotLife                                              *)
(***************************************************************************)

Results == {"open"} \union Outcome

ResultOf(row) == IF row.outcome = None THEN "open" ELSE row.outcome

LEMMA OutcomesOfType ==
  ASSUME ledger \in Seq(Row)
  PROVE  /\ OutcomesOf \in Seq(Results) /\ Len(OutcomesOf) = Len(ledger)
         /\ DOMAIN OutcomesOf = Id /\ \A i \in Id : OutcomesOf[i] = ResultOf(ledger[i])
<1>1. Len(ledger) \in Nat
  BY LenProperties
<1>2. \A i \in Id : ResultOf(ledger[i]) \in Results
  BY RowType DEF ResultOf, Results
<1>3. OutcomesOf = [i \in Id |-> ResultOf(ledger[i])]
  BY DEF OutcomesOf, ResultOf
<1>4. OutcomesOf \in [1 .. Len(ledger) -> Results]
  BY <1>2, <1>3 DEF Id
<1>5. OutcomesOf \in Seq(Results)
  BY <1>1, <1>4, SeqDef
<1>6. Len(OutcomesOf) \in Nat /\ 1 .. Len(OutcomesOf) = 1 .. Len(ledger)
  BY <1>4, <1>5, LenProperties
<1>7. Len(OutcomesOf) = Len(ledger)
  <2> DEFINE m == Len(OutcomesOf)
             n == Len(ledger)
  <2>1. m \in Nat /\ n \in Nat /\ \A k \in Nat : k \in 1 .. m <=> k \in 1 .. n
    BY <1>1, <1>6
  <2> HIDE DEF m, n
  <2>2. ~ m < n
    BY <2>1
  <2>3. ~ n < m
    BY <2>1
  <2>4. m = n
    BY <2>1, <2>2, <2>3
  <2> QED
    BY <2>4 DEF m, n
<1> QED
  BY <1>3, <1>5, <1>7

LEMMA OutcomesOfTypeNext ==
  ASSUME ledger' \in Seq(Row)
  PROVE  /\ OutcomesOf' \in Seq(Results) /\ Len(OutcomesOf') = Len(ledger')
         /\ DOMAIN OutcomesOf' = Id' /\ \A i \in Id' : OutcomesOf'[i] = ResultOf(ledger'[i])
<1>1. Len(ledger') \in Nat
  BY LenProperties
<1>2. \A i \in Id' : ledger'[i] \in Row
  BY ElementOfSeq DEF Id
<1>3. \A i \in Id' : ResultOf(ledger'[i]) \in Results
  BY <1>2 DEF ResultOf, Results, Row
<1>4. OutcomesOf' = [i \in Id' |-> ResultOf(ledger'[i])]
  BY DEF OutcomesOf, ResultOf
<1>5. OutcomesOf' \in [1 .. Len(ledger') -> Results]
  BY <1>3, <1>4 DEF Id
<1>6. OutcomesOf' \in Seq(Results)
  BY <1>1, <1>5, SeqDef
<1>7. Len(OutcomesOf') \in Nat /\ 1 .. Len(OutcomesOf') = 1 .. Len(ledger')
  BY <1>5, <1>6, LenProperties
<1>8. Len(OutcomesOf') = Len(ledger')
  <2> DEFINE m == Len(OutcomesOf')
             n == Len(ledger')
  <2>1. m \in Nat /\ n \in Nat /\ \A k \in Nat : k \in 1 .. m <=> k \in 1 .. n
    BY <1>1, <1>7
  <2> HIDE DEF m, n
  <2>2. ~ m < n
    BY <2>1
  <2>3. ~ n < m
    BY <2>1
  <2>4. m = n
    BY <2>1, <2>2, <2>3
  <2> QED
    BY <2>4 DEF m, n
<1> QED
  BY <1>4, <1>6, <1>8

\* A new row is a shot that enters.
LEMMA EnterMaps ==
  ASSUME ledger \in Seq(Row), NEW r, Added(r), r.outcome \in {None, "fire_failed"},
         UNCHANGED <<pulses, alerts, deleted>>
  PROVE  Life!LifeNext
<1>1. /\ OutcomesOf \in Seq(Results) /\ Len(OutcomesOf) = Len(ledger)
      /\ \A i \in Id : OutcomesOf[i] = ResultOf(ledger[i])
      /\ OutcomesOf' \in Seq(Results) /\ Len(OutcomesOf') = Len(ledger')
      /\ \A i \in Id' : OutcomesOf'[i] = ResultOf(ledger'[i])
  BY OutcomesOfType, OutcomesOfTypeNext DEF Added
<1> DEFINE first == ResultOf(r)
           new == Append(OutcomesOf, first)
<1>2. first \in {"open", "fire_failed"}
  BY DEF ResultOf
<1>3. first \in Results
  BY <1>2 DEF Results, Outcome
<1>4. /\ new \in Seq(Results) /\ Len(new) = Len(ledger) + 1
      /\ \A i \in Id : new[i] = OutcomesOf[i]
      /\ new[Len(ledger) + 1] = first
  <2>1. OutcomesOf \in Seq(Results)
    BY <1>1
  <2>2. \A e \in Results : LET t == Append(OutcomesOf, e)
                          IN  /\ t \in Seq(Results) /\ Len(t) = Len(OutcomesOf) + 1
                              /\ \A i \in 1 .. Len(OutcomesOf) : t[i] = OutcomesOf[i]
                              /\ t[Len(OutcomesOf) + 1] = e
    BY <2>1, AppendProperties
  <2>3. /\ new \in Seq(Results) /\ Len(new) = Len(OutcomesOf) + 1
        /\ \A i \in 1 .. Len(OutcomesOf) : new[i] = OutcomesOf[i]
        /\ new[Len(OutcomesOf) + 1] = first
    <3> HIDE DEF first
    <3> QED
      BY <1>3, <2>2
  <2> HIDE DEF first, new
  <2> QED
    BY <1>1, <2>3 DEF Id
<1>5. /\ Len(ledger) \in Nat /\ Len(ledger') = Len(ledger) + 1
      /\ Id' = Id \union {Len(ledger) + 1} /\ Id' = 1 .. Len(ledger')
      /\ \A i \in Id : ledger'[i] = ledger[i]
      /\ ledger'[Len(ledger) + 1] = r
  BY LenProperties DEF Added, Id
<1>6. \A i \in Id' : OutcomesOf'[i] = new[i]
  <2> HIDE DEF first, new
  <2>1. OutcomesOf'[Len(ledger) + 1] = first
    BY <1>1, <1>5 DEF first
  <2>2. \A i \in Id : OutcomesOf'[i] = OutcomesOf[i]
    BY <1>1, <1>5
  <2> QED
    BY <1>4, <1>5, <2>1, <2>2
<1>7. OutcomesOf' = new
  <2> HIDE DEF new
  <2>1. Len(OutcomesOf') = Len(new) /\ \A i \in 1 .. Len(OutcomesOf') : OutcomesOf'[i] = new[i]
    BY <1>1, <1>4, <1>5, <1>6
  <2> QED
    BY <1>1, <1>4, <2>1, SeqEqual
<1>8. Life!Enter
  <2> HIDE DEF first
  <2>1. UNCHANGED <<{p.id : p \in pulses}, {alerts[k].id : k \in DOMAIN alerts},
                    {d.after : d \in deleted}>>
    OBVIOUS
  <2> QED
    BY <1>2, <1>7, <2>1 DEF Life!Enter
<1> QED
  BY <1>8 DEF Life!LifeNext

\* A row whose outcome is set is a shot that is resolved.
LEMMA ResolveMaps ==
  ASSUME ledger \in Seq(Row), NEW i \in Id, NEW o \in Outcome, Edited(i),
         ledger[i].outcome = None, ledger'[i].outcome = o,
         IF Fired(i) THEN o \in {"recovered", "missed"} ELSE o = "fire_failed",
         UNCHANGED <<pulses, alerts, deleted>>
  PROVE  Life!LifeNext
<1>1. /\ OutcomesOf \in Seq(Results) /\ Len(OutcomesOf) = Len(ledger) /\ DOMAIN OutcomesOf = Id
      /\ \A j \in Id : OutcomesOf[j] = ResultOf(ledger[j])
      /\ OutcomesOf' \in Seq(Results) /\ Len(OutcomesOf') = Len(ledger')
      /\ \A j \in Id' : OutcomesOf'[j] = ResultOf(ledger'[j])
  BY OutcomesOfType, OutcomesOfTypeNext DEF Edited
<1>2. /\ Id' = Id /\ Id = 1 .. Len(ledger) /\ Len(ledger') = Len(ledger)
      /\ \A j \in Id \ {i} : ledger'[j] = ledger[j]
  BY DEF Edited, Id
<1>3. o # None /\ o \in Results
  BY NoneAssumption DEF Results
<1> DEFINE new == [OutcomesOf EXCEPT ![i] = o]
<1>4. /\ new \in Seq(Results) /\ Len(new) = Len(OutcomesOf)
      /\ \A j \in 1 .. Len(OutcomesOf) : new[j] = IF j = i THEN o ELSE OutcomesOf[j]
  BY <1>1, <1>2, <1>3, ExceptSeq
<1>5. OutcomesOf'[i] = o /\ \A j \in Id \ {i} : OutcomesOf'[j] = OutcomesOf[j]
  BY <1>1, <1>2, <1>3 DEF ResultOf
<1>6. OutcomesOf' = new
  <2> HIDE DEF new
  <2>1. Len(OutcomesOf') = Len(new) /\ \A j \in 1 .. Len(OutcomesOf') : OutcomesOf'[j] = new[j]
    BY <1>1, <1>2, <1>4, <1>5
  <2> QED
    BY <1>1, <1>4, <2>1, SeqEqual
<1>7. OutcomesOf[i] = "open"
  BY <1>1 DEF ResultOf
<1>8. Fired(i) <=> i \in {p.id : p \in pulses}
  BY DEF Fired
<1>9. UNCHANGED <<{p.id : p \in pulses}, {alerts[k].id : k \in DOMAIN alerts},
                  {d.after : d \in deleted}>>
  OBVIOUS
<1>10. Life!Resolve(i, o)
  <2>1. IF i \in {p.id : p \in pulses} THEN o \in {"recovered", "missed"} ELSE o = "fire_failed"
    BY <1>8
  <2> QED
    BY <1>6, <1>7, <1>9, <2>1 DEF Life!Resolve
<1>11. i \in Life!Shots /\ o \in {"recovered", "missed", "fire_failed"}
  BY <1>1 DEF Life!Shots, Outcome
<1> QED
  BY <1>10, <1>11 DEF Life!LifeNext

LEMMA LifeMaps ==
  ASSUME BotInv, PulsesInv, TruthInv, LifeInv, [Next]_vars
  PROVE  [Life!LifeNext]_(Life!life)
<1> SUFFICES Life!LifeNext \/ UNCHANGED Life!life
  OBVIOUS
<1>1. ledger \in Seq(Row)
  BY TypeParts DEF BotInv, TypeInv, TablePart
<1>2. ASSUME NEW b \in Bot, StdStale(b) \/ CommitRow(b) \/ DumpTaken(b) \/ FifoFails(b) \/ Reconcile(b)
      PROVE  UNCHANGED <<pulses, alerts, deleted>>
  BY <1>2 DEF StdStale, CommitRow, DumpTaken, FifoFails, Reconcile, sky, history
<1>3. CASE \E b \in Bot, s \in Spot : StdStale(b) /\ Added(RowOf(b, s, NoName, "fire_failed"))
  <2>1. PICK b \in Bot, s \in Spot : StdStale(b) /\ Added(RowOf(b, s, NoName, "fire_failed"))
    BY <1>3
  <2>2. RowOf(b, s, NoName, "fire_failed").outcome = "fire_failed"
    BY DEF RowOf
  <2> QED
    BY <1>1, <1>2, <2>1, <2>2, EnterMaps
<1>4. CASE \E b \in Bot : CommitRow(b) /\ Added(RowOf(b, spot[b], name[b], None))
  <2>1. PICK b \in Bot : CommitRow(b) /\ Added(RowOf(b, spot[b], name[b], None))
    BY <1>4
  <2>2. RowOf(b, spot[b], name[b], None).outcome = None
    BY DEF RowOf
  <2> QED
    BY <1>1, <1>2, <2>1, <2>2, EnterMaps
<1>5. CASE \E b \in Bot :
             /\ DumpTaken(b) /\ shot[b] \in Id /\ Edited(shot[b])
             /\ ledger'[shot[b]].outcome = ledger[shot[b]].outcome
  <2>1. Id' = Id /\ \A i \in Id : ledger'[i].outcome = ledger[i].outcome
    BY <1>5 DEF Edited, Id
  <2>2. OutcomesOf' = OutcomesOf
    BY <2>1 DEF OutcomesOf
  <2> QED
    BY <1>2, <1>5, <2>2 DEF Life!life
<1>6. CASE \E b \in Bot :
             /\ FifoFails(b) /\ pc[b] = "firing" /\ shot[b] \in Id /\ Edited(shot[b])
             /\ ledger[shot[b]].outcome = None
             /\ ledger'[shot[b]].outcome = "fire_failed"
  <2>1. PICK b \in Bot :
             /\ FifoFails(b) /\ pc[b] = "firing" /\ shot[b] \in Id /\ Edited(shot[b])
             /\ ledger[shot[b]].outcome = None
             /\ ledger'[shot[b]].outcome = "fire_failed"
    BY <1>6
  <2>2. ~ Fired(shot[b]) /\ "fire_failed" \in Outcome
    BY <2>1 DEF Fired, PulsesInv, Outcome
  <2> QED
    BY <1>1, <1>2, <2>1, <2>2, ResolveMaps
<1>7. CASE \E b \in Bot :
             /\ Reconcile(b) /\ pc[b] = "waiting" /\ shot[b] \in Id /\ Edited(shot[b])
             /\ ledger[shot[b]].outcome = None
             /\ ledger'[shot[b]].outcome = OutcomeOf(shot[b])
  <2>1. PICK b \in Bot :
             /\ Reconcile(b) /\ pc[b] = "waiting" /\ shot[b] \in Id /\ Edited(shot[b])
             /\ ledger[shot[b]].outcome = None
             /\ ledger'[shot[b]].outcome = OutcomeOf(shot[b])
    BY <1>7
  <2>2. Fired(shot[b])
    BY <2>1 DEF Fired, PulsesInv
  <2>3. OutcomeOf(shot[b]) \in {"recovered", "missed"} /\ OutcomeOf(shot[b]) \in Outcome
    BY DEF OutcomeOf, Outcome
  <2> QED
    BY <1>1, <1>2, <2>1, <2>2, <2>3, ResolveMaps
<1>8. CASE UNCHANGED ledger
  <2>1. UNCHANGED OutcomesOf /\ DOMAIN OutcomesOf = Id
        /\ \A i \in Id : OutcomesOf[i] = ResultOf(ledger[i])
    <3>1. UNCHANGED OutcomesOf
      BY <1>8 DEF OutcomesOf, Id
    <3> QED
      BY <1>1, <3>1, OutcomesOfType
  <2>2. CASE UNCHANGED <<pulses, alerts, deleted>>
    BY <2>1, <2>2 DEF Life!life
  <2>3. CASE ~ UNCHANGED pulses
    <3>1. PICK b \in Bot, lead \in 0 .. MaxLead :
            /\ FifoWritten(b) /\ pc[b] = "firing" /\ shot[b] \in Id
            /\ pulses' = pulses \union {[id |-> shot[b], spot |-> spot[b], at |-> now - lead]}
      BY <2>3, PulsesStep
    <3>2. PICK i \in Id : i = shot[b]
      BY <3>1
    <3>3. UNCHANGED <<alerts, deleted>>
      BY <3>1 DEF FifoWritten, tables, history
    <3>4. OutcomesOf[i] = "open"
      BY <2>1, <3>1, <3>2, BotFacts DEF ShotOf, Underway, ResultOf
    <3>5. i \notin {p.id : p \in pulses}
      BY <3>1, <3>2 DEF PulsesInv
    <3>6. {p.id : p \in pulses'} = {p.id : p \in pulses} \union {i}
      <4> DEFINE q == [id |-> shot[b], spot |-> spot[b], at |-> now - lead]
      <4>1. q.id = shot[b] /\ pulses' = pulses \union {q}
        BY <3>1
      <4> HIDE DEF q
      <4> QED
        BY <3>2, <4>1
    <3>7. Life!Go(i)
      BY <2>1, <3>2, <3>3, <3>4, <3>5, <3>6 DEF Life!Go
    <3>8. i \in Life!Shots
      BY <2>1, <3>1, <3>2 DEF Life!Shots
    <3> QED
      BY <3>7, <3>8 DEF Life!LifeNext
  <2>4. CASE ~ UNCHANGED alerts
    <3>1. PICK b \in Bot :
            /\ pc[b] = "reporting" /\ shot[b] \in Id /\ ledger[shot[b]].outcome = "missed"
            /\ UNCHANGED <<pulses, deleted>> /\ Alerted' = Alerted \union {shot[b]}
      BY <2>4, AlertsStep
    <3>2. PICK i \in Id : i = shot[b]
      BY <3>1
    <3>3. i \notin Alerted
      BY <3>1, <3>2 DEF LifeInv
    <3>4. OutcomesOf[i] = "missed"
      BY <2>1, <3>1, <3>2, NoneAssumption DEF ResultOf, Outcome
    <3>5. Life!Alert(i)
      BY <2>1, <3>1, <3>2, <3>3, <3>4 DEF Life!Alert, Alerted
    <3>6. i \in Life!Shots
      BY <2>1, <3>1, <3>2 DEF Life!Shots
    <3> QED
      BY <3>5, <3>6 DEF Life!LifeNext
  <2>5. CASE ~ UNCHANGED deleted
    <3>1. PICK b \in Bot :
            /\ shot[b] \in Id /\ ledger[shot[b]].outcome = "recovered"
            /\ UNCHANGED <<pulses, alerts>> /\ Cleaners' = Cleaners \union {shot[b]}
      BY <2>5, DeletedStep
    <3>2. PICK i \in Id : i = shot[b]
      BY <3>1
    <3>3. i \notin Cleaners
      BY <3>1, <3>2 DEF LifeInv
    <3>4. OutcomesOf[i] = "recovered"
      BY <2>1, <3>1, <3>2, NoneAssumption DEF ResultOf, Outcome
    <3>5. Life!Clean(i)
      BY <2>1, <3>1, <3>2, <3>3, <3>4 DEF Life!Clean, Cleaners
    <3>6. i \in Life!Shots
      BY <2>1, <3>1, <3>2 DEF Life!Shots
    <3> QED
      BY <3>5, <3>6 DEF Life!LifeNext
  <2> QED
    BY <2>2, <2>3, <2>4, <2>5
<1> QED
  BY <1>3, <1>4, <1>5, <1>6, <1>7, <1>8, RowsStep

LEMMA LifeStarts == Init => Life!LifeInit
<1> SUFFICES ASSUME Init PROVE Life!LifeInit
  OBVIOUS
<1>1. ledger = <<>> /\ pulses = {} /\ alerts = <<>> /\ deleted = {}
  BY DEF Init
<1>2. OutcomesOf = <<>>
  <2>1. ledger \in Seq(Row) /\ Len(ledger) = 0
    BY <1>1, EmptySeq
  <2>2. OutcomesOf \in Seq(Results) /\ Len(OutcomesOf) = 0
    BY <2>1, OutcomesOfType
  <2> QED
    BY <2>2, EmptySeq
<1>3. {alerts[k].id : k \in DOMAIN alerts} = {}
  <2>1. DOMAIN alerts = {}
    BY <1>1
  <2> QED
    BY <2>1
<1> QED
  BY <1>1, <1>2, <1>3 DEF Life!LifeInit

LEMMA LifeMapsStep ==
  BotInv /\ PulsesInv /\ TruthInv /\ LifeInv /\ [Next]_vars => [Life!LifeNext]_(Life!life)
  BY LifeMaps

(***************************************************************************)
(* The bot implements the life of a shot: it is resolved once, to what its *)
(* pulse allows; only a miss draws a message, and one; only a recovered    *)
(* shot deletes, once.                                                     *)
(***************************************************************************)
THEOREM BotImplementsLife == Spec => EveryShotLives
<1>1. Spec => Life!LifeSpec
  BY TypeInit, TypeStep, PulsesInit, PulsesInvStep, TruthInit, TruthStep, LifeInit, LifeStep,
     LifeStarts, LifeMapsStep, PTL DEF Spec, Life!LifeSpec
<1> QED
  BY <1>1 DEF EveryShotLives

-----------------------------------------------------------------------------
(***************************************************************************)
(* The dumps of the misses                                                 *)
(***************************************************************************)

\* The dumps of two of the service's shots are further apart than a search for
\* the files of one reaches.
FarApart == Apart > DumpPre - DumpPost + Margin

\* A window of the row i.
WindowOf(i, from, to) ==
  from = ledger[i].at - DumpPre /\ to \in Int /\ to <= ledger[i].at - DumpPost

FilesInv ==
  /\ \A f \in files : f.owner \in Id => WindowOf(f.owner, f.from, f.to)
  /\ \A f \in files : f.owner = T2 \/ f.owner \in Id
  /\ \A i \in Id : ledger[i].dump # <<>> =>
                  WindowOf(i, ledger[i].dump[1], ledger[i].dump[2])

KeptInv ==
  \A d \in deleted :
    /\ d.after \in Id /\ (d.owner = T2 \/ d.owner \in Id)
    /\ d.owner \in Id /\ ledger[d.owner].by = Service /\ ledger[d.after].by = Service =>
         ledger[d.owner].outcome \notin {"missed", None}

LEMMA FilesStep ==
  ASSUME BotInv, [Next]_vars
  PROVE  \A f \in files' :
           \/ f \in files \/ f.owner = T2
           \/ \E b \in Bot :
                /\ shot[b] \in Id /\ shot[b] # 0 /\ f.owner = shot[b]
                /\ f.from = DumpWindow(b)[1] /\ f.to = DumpWindow(b)[2]
<1>1. \A o, w : FileOf(o, w).owner = o /\ FileOf(o, w).from = w[1] /\ FileOf(o, w).to = w[2]
  BY DEF FileOf
<1>2. ASSUME NEW b \in Bot, DumpTaken(b) \/ DumpFails(b), NEW f \in files', f \notin files
      PROVE  /\ shot[b] \in Id /\ shot[b] # 0 /\ f.owner = shot[b]
             /\ f.from = DumpWindow(b)[1] /\ f.to = DumpWindow(b)[2]
  <2>1. f = FileOf(shot[b], DumpWindow(b))
    BY <1>2 DEF DumpTaken, DumpFails, MayWrite
  <2>2. shot[b] \in Id /\ shot[b] # 0
    BY <1>2, Places, BotFacts DEF ShotOf, Underway
  <2> QED
    BY <1>1, <2>1, <2>2
<1>3. ASSUME T2Dumps, NEW f \in files', f \notin files
      PROVE  f.owner = T2
  BY <1>1, <1>3 DEF T2Dumps
<1>4. \/ files' \subseteq files \/ T2Dumps
      \/ \E b \in Bot : DumpTaken(b) \/ DumpFails(b)
  BY DEF Next, vars, tables, Start, Wake, StdStale, Draw, GenerationFails, CommitRow, FifoWritten,
     FifoFails, Reconcile, ReconcileRaises, Report, ReportRaises, Complete, ReplayRaises, Crash,
     T2Stores, Tick
<1> QED
  BY <1>2, <1>3, <1>4

\* How the dump of a row that was there may change.
LEMMA DumpStep ==
  ASSUME BotInv, [Next]_vars, NEW i \in Id
  PROVE  \/ ledger'[i].dump = ledger[i].dump
         \/ \E b \in Bot : shot[b] = i /\ shot[b] # 0 /\ ledger'[i].dump = DumpWindow(b)
<1>1. Len(ledger) \in Nat
  BY TypeParts, LenProperties DEF BotInv, TypeInv, TablePart
<1>2. ASSUME NEW r, Added(r)
      PROVE  ledger'[i] = ledger[i]
  BY <1>1, <1>2 DEF Added
<1>3. ASSUME NEW j \in Id, Edited(j), i # j
      PROVE  ledger'[i] = ledger[i]
  BY <1>3 DEF Edited
<1>4. CASE UNCHANGED ledger \/ \E r : Added(r)
  BY <1>2, <1>4
<1>5. CASE \E b \in Bot :
             /\ shot[b] \in Id /\ Edited(shot[b])
             /\ ledger'[shot[b]].dump = ledger[shot[b]].dump
  BY <1>3, <1>5
<1>6. CASE \E b \in Bot :
             /\ shot[b] \in Id /\ Edited(shot[b]) /\ pc[b] = "dumping"
             /\ ledger'[shot[b]].dump = DumpWindow(b)
  <2>1. \A j \in Id : j # 0
    BY DEF Id
  <2> QED
    BY <1>3, <1>6, <2>1
<1> QED
  BY <1>4, <1>5, <1>6, RowsStep

LEMMA NewRowBare ==
  ASSUME BotInv, [Next]_vars, NEW i \in Id', i \notin Id
  PROVE  ledger'[i].dump = <<>>
<1>1. ASSUME NEW r, Added(r)
      PROVE  ledger'[i] = r
  <2>1. Len(ledger) \in Nat
    BY TypeParts, LenProperties DEF BotInv, TypeInv, TablePart
  <2> QED
    BY <1>1, <2>1 DEF Added, Id
<1>2. ASSUME NEW j \in Id, Edited(j)
      PROVE  FALSE
  BY <1>2 DEF Edited, Id
<1>3. ledger' # ledger
  BY DEF Id
<1>4. \A b, s, n, o : RowOf(b, s, n, o).dump = <<>>
  BY DEF RowOf
<1>5. \E b, s, n, o : Added(RowOf(b, s, n, o))
  BY <1>2, <1>3, RowsStep
<1> QED
  BY <1>1, <1>4, <1>5

LEMMA FilesInit == Init => FilesInv /\ KeptInv
<1>1. Init => Id = {}
  BY DEF Init, Id
<1> QED
  BY <1>1 DEF Init, FilesInv, KeptInv

LEMMA FilesInvStep == BotInv /\ FilesInv /\ [Next]_vars => FilesInv'
<1> SUFFICES ASSUME BotInv, FilesInv, [Next]_vars PROVE FilesInv'
  OBVIOUS
<1>1. ASSUME NEW b \in Bot, shot[b] # 0, shot[b] \in Id
      PROVE  WindowOf(shot[b], DumpWindow(b)[1], DumpWindow(b)[2])
  BY <1>1, DumpWindowIs DEF WindowOf
<1>2. ASSUME NEW i \in Id, NEW from, NEW to, WindowOf(i, from, to)
      PROVE  WindowOf(i, from, to)'
  BY <1>2, RowStays DEF WindowOf
<1>3. ASSUME NEW f \in files'
      PROVE  /\ f.owner \in Id' => WindowOf(f.owner, f.from, f.to)'
             /\ f.owner = T2 \/ f.owner \in Id'
  <2>1. \/ f.owner = T2
        \/ f.owner \in Id /\ WindowOf(f.owner, f.from, f.to)
    BY <1>1, FilesStep DEF FilesInv
  <2>2. T2 \notin Id'
    BY DEF T2, Id
  <2> QED
    BY <1>2, <2>1, <2>2, RowStays
<1>4. ASSUME NEW i \in Id', ledger'[i].dump # <<>>
      PROVE  /\ ledger'[i].dump[1] = ledger'[i].at - DumpPre /\ ledger'[i].dump[2] \in Int
             /\ ledger'[i].dump[2] <= ledger'[i].at - DumpPost
  <2>1. i \in Id
    BY <1>4, NewRowBare
  <2>2. CASE ledger'[i].dump = ledger[i].dump
    BY <1>4, <2>1, <2>2, RowStays DEF FilesInv, WindowOf
  <2>3. CASE \E b \in Bot : shot[b] = i /\ shot[b] # 0 /\ ledger'[i].dump = DumpWindow(b)
    BY <1>1, <2>1, <2>3, RowStays DEF WindowOf
  <2> QED
    BY <2>1, <2>2, <2>3, DumpStep
<1> QED
  BY <1>3, <1>4 DEF FilesInv, WindowOf

\* Of two of the service's shots, the dump of one does not overlap the other's.
LEMMA NoOverlap ==
  ASSUME FarApart, BotInv, ShotsSpaced, FilesInv, NEW i \in Id, ledger[i].dump # <<>>,
         NEW f \in Overlapping(ledger[i].dump), f.owner \in Id,
         ledger[i].by = Service, ledger[f.owner].by = Service
  PROVE  f.owner = i
<1>1. /\ ledger[i].at \in Nat /\ ledger[f.owner].at \in Nat
  BY TypeParts, RowType DEF BotInv, TypeInv, TablePart
<1>2. /\ WindowOf(f.owner, f.from, f.to) /\ WindowOf(i, ledger[i].dump[1], ledger[i].dump[2])
      /\ f.from <= ledger[i].dump[2] + Margin /\ f.to >= ledger[i].dump[1] - Margin
  BY DEF Overlapping, FilesInv
<1>3. /\ ledger[f.owner].at - ledger[i].at < Apart
      /\ ledger[i].at - ledger[f.owner].at < Apart
  <2> DEFINE a == ledger[i].at
             o == ledger[f.owner].at
  <2>1. /\ f.from = o - DumpPre /\ f.to \in Int /\ f.to <= o - DumpPost
        /\ ledger[i].dump[1] = a - DumpPre /\ ledger[i].dump[2] \in Int
        /\ ledger[i].dump[2] <= a - DumpPost
    BY <1>2 DEF WindowOf
  <2>2. a \in Nat /\ o \in Nat
    BY <1>1
  <2>3. /\ Apart \in Int /\ DumpPre \in Int /\ DumpPost \in Int /\ Margin \in Int
        /\ Apart > DumpPre - DumpPost + Margin
    BY ApartIs, NumberTypes DEF FarApart
  <2> HIDE DEF a, o
  <2>4. /\ o - DumpPre <= a - DumpPost + Margin
        /\ a - DumpPre - Margin <= o - DumpPost
    BY <1>2, <2>1, <2>2, <2>3
  <2>5. o - a < Apart /\ a - o < Apart
    BY <2>2, <2>3, <2>4
  <2> QED
    BY <2>5 DEF a, o
<1>4. f.owner \in Nat /\ i \in Nat
  BY DEF Id
<1>5. ~ f.owner < i
  <2>1. f.owner < i => ledger[i].at - ledger[f.owner].at >= Apart
    BY DEF ShotsSpaced, Apart
  <2> QED
    BY <1>1, <1>3, <2>1, ApartIs
<1>6. ~ i < f.owner
  <2>1. i < f.owner => ledger[f.owner].at - ledger[i].at >= Apart
    BY DEF ShotsSpaced, Apart
  <2> QED
    BY <1>1, <1>3, <2>1, ApartIs
<1> QED
  BY <1>4, <1>5, <1>6

LEMMA KeptStep ==
  ASSUME FarApart
  PROVE  /\ BotInv /\ PulsesInv /\ TruthInv /\ ShotsSpaced /\ FilesInv /\ KeptInv
         /\ [Next]_vars
         => KeptInv'
<1> SUFFICES ASSUME BotInv, PulsesInv, TruthInv, ShotsSpaced, FilesInv, KeptInv, [Next]_vars
             PROVE  KeptInv'
  OBVIOUS
<1>1. ASSUME NEW i \in Id, ledger[i].outcome \notin {"missed", None}
      PROVE  ledger'[i].outcome = ledger[i].outcome
  BY <1>1, OutcomeStep
<1>2. ASSUME NEW d \in deleted'
      PROVE  /\ d.after \in Id /\ (d.owner = T2 \/ d.owner \in Id)
             /\ d.owner \in Id /\ ledger[d.owner].by = Service /\ ledger[d.after].by = Service =>
                  ledger[d.owner].outcome \notin {"missed", None}
  <2>1. CASE d \in deleted
    BY <2>1 DEF KeptInv
  <2>2. CASE d \notin deleted
    <3>1. PICK b \in Bot :
            /\ shot[b] \in Id /\ ledger[shot[b]].outcome = "recovered" /\ ledger[shot[b]].dump # <<>>
            /\ d \in {[owner |-> f.owner, after |-> shot[b]] :
                      f \in Overlapping(ledger[shot[b]].dump)}
      BY <1>2, <2>2, DeletedStep
    <3>2. PICK f \in Overlapping(ledger[shot[b]].dump) : d = [owner |-> f.owner, after |-> shot[b]]
      BY <3>1
    <3>3. d.owner = f.owner /\ d.after = shot[b]
      BY <3>2
    <3>4. f.owner = T2 \/ f.owner \in Id
      BY DEF Overlapping, FilesInv
    <3>5. f.owner \in Id /\ ledger[f.owner].by = Service /\ ledger[shot[b]].by = Service =>
            f.owner = shot[b]
      BY <3>1, NoOverlap
    <3> QED
      BY <3>1, <3>3, <3>4, <3>5, NoneAssumption DEF Outcome
  <2> QED
    BY <2>1, <2>2
<1>3. T2 \notin Id'
  BY DEF T2, Id
<1> QED
  BY <1>1, <1>2, <1>3, RowStays DEF KeptInv

(***************************************************************************)
(* No cleanup of a shot of the service deletes the dump of a miss of the   *)
(* service, when the shots are further apart than the search for a dump's  *)
(* files reaches.                                                          *)
(***************************************************************************)
THEOREM MissDumpCorrect == ASSUME FarApart PROVE Spec => []MissDumpKept
<1>1. KeptInv => MissDumpKept
  BY DEF KeptInv, MissDumpKept
<1>2. /\ BotInv /\ PulsesInv /\ TruthInv /\ ShotsSpaced /\ FilesInv /\ KeptInv
      /\ [Next]_vars
      => KeptInv'
  BY KeptStep
<1> QED
  BY <1>1, <1>2, TypeInit, TypeStep, SpaceInit, SpaceStep, PulsesInit, PulsesInvStep, TruthInit,
     TruthStep, FilesInit, FilesInvStep, PTL DEF Spec

-----------------------------------------------------------------------------
(***************************************************************************)
(* The attention messages                                                  *)
(***************************************************************************)

\* The run of misses that miss_streak counts.
OthersOf(id) == {i \in Resolved(id) : ledger[i].outcome # "missed"}
RunOf(id) == {i \in Resolved(id) : \A o \in OthersOf(id) : i > o}

\* A message's count is that of its run still, the messages are in the order
\* of their rows, and the shots under way come after all of them.
AlertInv ==
  /\ \A k \in DOMAIN alerts : alerts[k].n % StreakEvery = 0
  /\ ~ crossed =>
       /\ \A k \in DOMAIN alerts :
            alerts[k].n < StreakLimit => alerts[k].n = Cardinality(RunOf(alerts[k].id))
       /\ \A k, m \in DOMAIN alerts : k < m => alerts[k].id < alerts[m].id
       /\ \A b \in Bot : pc[b] \in {"firing", "dumping", "waiting", "reporting"} =>
            \A k \in DOMAIN alerts : alerts[k].id < shot[b]

LEMMA RunIsFinite ==
  ASSUME NEW id \in Nat
  PROVE  RunOf(id) \subseteq 1 .. id /\ IsFiniteSet(RunOf(id)) /\ Cardinality(RunOf(id)) \in Nat
<1>1. RunOf(id) \subseteq 1 .. id
  BY DEF RunOf, Resolved
<1>2. IsFiniteSet(1 .. id)
  BY FS_Interval
<1> QED
  BY <1>1, <1>2, FS_Subset, FS_CardinalityType

LEMMA StreakOfRun ==
  ASSUME NEW id \in Nat, Streak(id) < StreakLimit
  PROVE  Streak(id) = Cardinality(RunOf(id))
<1>1. Streak(id) = Min({Cardinality(RunOf(id)), StreakLimit})
  BY DEF Streak, RunOf, OthersOf
<1>2. Cardinality(RunOf(id)) \in Int /\ StreakLimit \in Int
  BY RunIsFinite, NumberTypes
<1> QED
  BY <1>1, <1>2, MinOfTwo

\* Two messages of one count have another outcome between them.
LEMMA RunsGrow ==
  ASSUME NEW a \in Nat, NEW b \in Nat, a < b, b > 0, ledger[b].outcome # None,
         \A i \in a .. b : ledger[i].outcome \in {"missed", None}
  PROVE  Cardinality(RunOf(a)) # Cardinality(RunOf(b))
<1>1. /\ IsFiniteSet(RunOf(a)) /\ IsFiniteSet(RunOf(b)) /\ RunOf(a) \subseteq 1 .. a
      /\ Cardinality(RunOf(a)) \in Nat
  BY RunIsFinite
<1>2. \A o \in OthersOf(b) : o \in Nat /\ o < a /\ o \in OthersOf(a)
  <2> TAKE o \in OthersOf(b)
  <2>1. o \in 1 .. b /\ ledger[o].outcome # None /\ ledger[o].outcome # "missed"
    BY DEF OthersOf, Resolved
  <2>2. o \notin a .. b
    BY <2>1
  <2>3. o \in 1 .. a /\ o < a
    BY <2>1, <2>2
  <2> QED
    BY <2>1, <2>3 DEF OthersOf, Resolved
<1>3. RunOf(a) \subseteq RunOf(b)
  <2> SUFFICES ASSUME NEW i \in RunOf(a) PROVE i \in RunOf(b)
    OBVIOUS
  <2>1. i \in 1 .. a /\ ledger[i].outcome # None /\ \A o \in OthersOf(a) : i > o
    BY DEF RunOf, Resolved
  <2>2. i \in Resolved(b)
    BY <2>1 DEF Resolved
  <2> QED
    BY <1>2, <2>1, <2>2 DEF RunOf
<1>4. b \in RunOf(b)
  BY <1>2 DEF RunOf, Resolved
<1>5. b \notin RunOf(a)
  BY <1>1
<1>6. Cardinality(RunOf(a) \union {b}) = Cardinality(RunOf(a)) + 1
  BY <1>1, <1>5, FS_AddElement
<1>7. Cardinality(RunOf(a) \union {b}) <= Cardinality(RunOf(b))
  <2>1. RunOf(a) \union {b} \subseteq RunOf(b)
    BY <1>3, <1>4
  <2> QED
    BY <1>1, <2>1, FS_Subset
<1>8. Cardinality(RunOf(b)) \in Nat
  BY RunIsFinite
<1> QED
  BY <1>1, <1>6, <1>7, <1>8

LEMMA AlertsAreOnce ==
  ASSUME BotInv, LifeInv, AlertInv
  PROVE  AlertsOncePerMultiple
<1> SUFFICES ASSUME ~ crossed, NEW k \in DOMAIN alerts, NEW m \in DOMAIN alerts,
                    k < m, alerts[k].n = alerts[m].n, alerts[k].n < StreakLimit
             PROVE  \E i \in alerts[k].id .. alerts[m].id : ledger[i].outcome \notin {"missed", None}
  BY DEF AlertInv, AlertsOncePerMultiple
<1>1. alerts[k].id \in Id /\ alerts[m].id \in Id /\ ledger[alerts[m].id].outcome # None
  BY DEF LifeInv, Alerted
<1>2. alerts[k].id \in Nat /\ alerts[m].id \in Nat /\ alerts[m].id > 0
  BY <1>1 DEF Id
<1>3. alerts[k].id < alerts[m].id
  BY Zenon DEF AlertInv
<1>4. Cardinality(RunOf(alerts[k].id)) = Cardinality(RunOf(alerts[m].id))
  BY Zenon DEF AlertInv
<1> QED
  BY <1>1, <1>2, <1>3, <1>4, RunsGrow

LEMMA CrossedStep ==
  ASSUME BotInv, [Next]_vars, ~ crossed'
  PROVE  ~ crossed
<1>1. CASE \E b \in Bot : Draw(b)
  BY <1>1, DrawIs
<1>2. CASE ~ \E b \in Bot : Draw(b)
  BY <1>2, UnderwayStep, AroundKeeps, NextIs
<1> QED
  BY <1>1, <1>2

LEMMA AlertInit == Init => AlertInv
<1>1. Init => DOMAIN alerts = {}
  BY DEF Init
<1> QED
  BY <1>1 DEF AlertInv

LEMMA AlertStep == BotInv /\ NamesInv /\ LifeInv /\ AlertInv /\ [Next]_vars => AlertInv'
<1> SUFFICES ASSUME BotInv, NamesInv, LifeInv, AlertInv, [Next]_vars PROVE AlertInv'
  OBVIOUS
<1>1. \A k \in DOMAIN alerts : alerts[k].id \in Id
  BY DEF LifeInv, Alerted
<1>2. \A k \in DOMAIN alerts' : alerts'[k].n % StreakEvery = 0
  <2>1. CASE UNCHANGED alerts
    BY <2>1 DEF AlertInv
  <2>2. CASE ~ UNCHANGED alerts
    <3>1. PICK b \in Bot :
            /\ AttentionDue(Streak(shot[b]))
            /\ DOMAIN alerts = 1 .. Len(alerts) /\ Len(alerts) \in Nat
            /\ DOMAIN alerts' = 1 .. Len(alerts) + 1
            /\ \A k \in DOMAIN alerts : alerts'[k] = alerts[k]
            /\ alerts'[Len(alerts) + 1].n = Streak(shot[b])
      BY <2>2, AlertsStep
    <3>2. alerts'[Len(alerts) + 1].n % StreakEvery = 0
      BY <3>1 DEF AttentionDue
    <3>3. \A k \in DOMAIN alerts' : k \in DOMAIN alerts \/ k = Len(alerts) + 1
      BY <3>1
    <3> QED
      BY <3>1, <3>2, <3>3 DEF AlertInv
  <2> QED
    BY <2>1, <2>2
<1>3. ASSUME ~ crossed'
      PROVE  /\ \A k \in DOMAIN alerts' :
                  alerts'[k].n < StreakLimit => alerts'[k].n = Cardinality(RunOf(alerts[k].id))'
             /\ \A k, m \in DOMAIN alerts' : k < m => alerts'[k].id < alerts'[m].id
             /\ \A b \in Bot : pc'[b] \in {"firing", "dumping", "waiting", "reporting"} =>
                  \A k \in DOMAIN alerts' : alerts'[k].id < shot'[b]
  <2>1. ~ crossed /\ Alone
    BY <1>3, CrossedStep DEF NamesInv
  <2>2. /\ \A k \in DOMAIN alerts :
             alerts[k].n < StreakLimit => alerts[k].n = Cardinality(RunOf(alerts[k].id))
        /\ \A k, m \in DOMAIN alerts : k < m => alerts[k].id < alerts[m].id
        /\ \A b \in Bot : pc[b] \in {"firing", "dumping", "waiting", "reporting"} =>
             \A k \in DOMAIN alerts : alerts[k].id < shot[b]
    BY <2>1 DEF AlertInv
  <2>3. CASE UNCHANGED alerts
    <3>1. ASSUME NEW k \in DOMAIN alerts, NEW id \in Nat, id = alerts[k].id
          PROVE  RunOf(id)' = RunOf(id)
      <4>1. \A i \in 1 .. id : i \in Id /\ i <= id
        BY <1>1, <3>1 DEF Id
      <4>2. ASSUME NEW i \in 1 .. id
            PROVE  ledger'[i].outcome = ledger[i].outcome
        <5>1. ASSUME NEW b \in Bot, pc[b] \in {"firing", "waiting"}
              PROVE  shot[b] # i
          <6>1. id < shot[b] /\ i <= id
            BY <2>2, <3>1, <4>1, <5>1
          <6> QED
            BY <6>1
        <5> QED
          BY <4>1, <5>1, OutcomeStep
      <4>3. Resolved(id)' = Resolved(id)
        BY <4>2 DEF Resolved
      <4>4. \A i \in Resolved(id) : ledger'[i].outcome = ledger[i].outcome
        BY <4>2 DEF Resolved
      <4>5. OthersOf(id)' = OthersOf(id)
        BY <4>3, <4>4 DEF OthersOf
      <4> QED
        BY <4>3, <4>5 DEF RunOf
    <3>2. ASSUME NEW k \in DOMAIN alerts', alerts'[k].n < StreakLimit
          PROVE  alerts'[k].n = Cardinality(RunOf(alerts[k].id))'
      <4>1. PICK id \in Nat : id = alerts[k].id
        BY <1>1, <2>3, <3>2 DEF Id
      <4>2. Cardinality(RunOf(id))' = Cardinality(RunOf(id))
        BY <2>3, <3>1, <3>2, <4>1
      <4>3. alerts[k].n = Cardinality(RunOf(id))
        BY <2>2, <2>3, <3>2, <4>1
      <4>4. alerts'[k].id = id
        BY <2>3, <4>1
      <4> QED
        BY <2>3, <4>2, <4>3, <4>4
    <3>3. ASSUME NEW c \in Bot, pc'[c] \in {"firing", "dumping", "waiting", "reporting"},
                 NEW k \in DOMAIN alerts
          PROVE  alerts[k].id < shot'[c]
      <4>1. CASE CommitRow(c) /\ shot'[c] = Len(ledger) + 1
        BY <1>1, <4>1, BotFacts DEF Id
      <4>2. CASE shot'[c] = shot[c] /\ pc[c] \in {"firing", "dumping", "waiting", "reporting"}
        BY <2>2, <4>2
      <4> QED
        BY <3>3, <4>1, <4>2, ShotStep DEF ShotMoves, Underway
    <3> QED
      BY <2>2, <2>3, <3>2, <3>3
  <2>4. CASE ~ UNCHANGED alerts
    <3>1. PICK b \in Bot :
            /\ pc[b] = "reporting" /\ pc'[b] = "completing" /\ shot[b] \in Id /\ Report(b)
            /\ UNCHANGED ledger
            /\ DOMAIN alerts = 1 .. Len(alerts) /\ Len(alerts) \in Nat
            /\ DOMAIN alerts' = 1 .. Len(alerts) + 1
            /\ \A k \in DOMAIN alerts : alerts'[k] = alerts[k]
            /\ alerts'[Len(alerts) + 1].id = shot[b]
            /\ alerts'[Len(alerts) + 1].n = Streak(shot[b])
      BY <2>4, AlertsStep
    <3> DEFINE last == Len(alerts) + 1
    <3>2. /\ \A k \in DOMAIN alerts' : k \in DOMAIN alerts \/ k = last
          /\ \A k \in DOMAIN alerts : k < last
          /\ last \in Nat /\ \A k \in DOMAIN alerts' : k <= last
      BY <3>1
    <3>3. \A k \in DOMAIN alerts : alerts[k].id < shot[b]
      BY <2>2, <3>1
    <3>4. \A id : Cardinality(RunOf(id))' = Cardinality(RunOf(id))
      BY <3>1 DEF RunOf, OthersOf, Resolved
    <3>5. ASSUME NEW k \in DOMAIN alerts', alerts'[k].n < StreakLimit
          PROVE  alerts'[k].n = Cardinality(RunOf(alerts[k].id))'
      <4>1. PICK id : id = alerts'[k].id
        OBVIOUS
      <4>2. alerts'[k].n = Cardinality(RunOf(id))
        <5>1. CASE k \in DOMAIN alerts
          BY <2>2, <3>1, <3>5, <4>1, <5>1
        <5>2. CASE k = last
          <6>1. id = shot[b] /\ shot[b] \in Nat /\ alerts'[k].n = Streak(shot[b])
            BY <3>1, <4>1, <5>2 DEF Id
          <6> QED
            BY <3>5, <6>1, StreakOfRun
        <5> QED
          BY <3>2, <5>1, <5>2
      <4>3. Cardinality(RunOf(id))' = Cardinality(RunOf(id))
        BY <3>4
      <4> QED
        BY <4>1, <4>2, <4>3
    <3>6. ASSUME NEW k \in DOMAIN alerts', NEW m \in DOMAIN alerts', k < m
          PROVE  alerts'[k].id < alerts'[m].id
      <4>1. k \in DOMAIN alerts
        BY <3>1, <3>2, <3>6
      <4>2. CASE m \in DOMAIN alerts
        BY <2>2, <3>1, <3>6, <4>1, <4>2
      <4>3. CASE m = last
        BY <3>1, <3>3, <4>1, <4>3
      <4> QED
        BY <3>2, <4>2, <4>3
    <3>7. ASSUME NEW c \in Bot, pc'[c] \in {"firing", "dumping", "waiting", "reporting"}
          PROVE  FALSE
      <4>1. c # b /\ pc[b] \in Underway /\ pc[c] \notin Underway
        BY <2>1, <3>1, <3>7 DEF Alone, Underway
      <4>2. OthersKeep(b)
        BY <3>1, WayKeeps DEF Acts
      <4> QED
        BY <3>7, <4>1, <4>2 DEF OthersKeep, Underway
    <3> QED
      BY <3>5, <3>6, <3>7
  <2> QED
    BY <2>3, <2>4
<1> QED
  BY <1>2, <1>3 DEF AlertInv

(***************************************************************************)
(* Attention messages come at the multiples of streak_every, once each in  *)
(* a run of misses, across crashes and messages that could not be posted.  *)
(***************************************************************************)
THEOREM AlertsCorrect == Spec => []AlertsOncePerMultiple
<1>1. BotInv /\ LifeInv /\ AlertInv => AlertsOncePerMultiple
  BY AlertsAreOnce
<1> QED
  BY <1>1, TypeInit, TypeStep, PulsesInit, PulsesInvStep, TruthInit, TruthStep, LifeInit, LifeStep,
     NamesInit, NamesStep, AlertInit, AlertStep, PTL DEF Spec

=============================================================================
