---------------------------- MODULE GatherProofs -------------------------------
(***************************************************************************)
(* Theorems about gathering a voltage dump, for every number of streams,   *)
(* every placement of them, every window and every order of the writers'   *)
(* and the client's steps.                                                 *)
(***************************************************************************)
EXTENDS Gather, FiniteSetTheorems, TLAPS

-----------------------------------------------------------------------------
(***************************************************************************)
(* Types, and what the client's place says                                 *)
(***************************************************************************)

\* A directory: some of the files, each of at most a window's bytes.
Directory == UNION {[files -> 0 .. Full] : files \in SUBSET Dump}

Places == {"resolving", "measuring", "asking", "listing", "commanding", "gathering",
           "pulling", "transferring", "succeeded", "failed", "raised"}

\* Before a poll, and before a pull.
Unpolled == {"resolving", "measuring", "asking", "listing", "commanding"}
Unpulled == Unpolled \union {"gathering"}

DataPart ==
  /\ entry \in {"api", "cli"} /\ past \in BOOLEAN /\ inPlace \in BOOLEAN
  /\ pc \in Places
  /\ at \in Stream /\ start \in Int /\ wakeAt \in Int /\ now \in Nat
  /\ blind \subseteq Stream /\ done \subseteq Stream
  /\ failed \in 0 .. NStreams /\ failures \in Nat
  /\ before \in [Stream -> SUBSET Dump] /\ new \in [Stream -> SUBSET Dump]
  /\ disk \in [Stream -> Directory]
  /\ writer \in [Stream -> {"idle", "writing"}]
  /\ gathered \subseteq Stream \X Dump
  /\ dest \subseteq [stream : Stream, file : Dump, size : 0 .. Full]

PlacePart ==
  /\ pc \in {"resolving", "measuring", "asking", "gathering"} => at = 1
  /\ pc \in Unpolled => done = {} /\ new = [s \in Stream |-> {}]
  /\ pc \in Unpulled => failures = 0 /\ dest = {} /\ gathered = {}
  /\ pc \in Unpolled \ {"commanding"} => failed = 0
  /\ pc = "commanding" => failed < at
  /\ pc = "transferring" => at \in done

\* Directories only gain files, so what was listed or seen is still there.
ListedPart ==
  \A s \in Stream :
    /\ before[s] \subseteq DOMAIN disk[s]
    /\ new[s] \subseteq DOMAIN disk[s] \ before[s]
    /\ s \in done => new[s] # {}

TypeInv == DataPart /\ PlacePart /\ ListedPart

\* The constants, as the proofs use them.
LEMMA ParameterTypes ==
  /\ NStreams \in Nat \ {0} /\ 1 \in Stream
  /\ Window \in Nat \ {0} /\ Full \in Nat \ {0} /\ Poll \in Nat \ {0}
  /\ Lag \in Nat /\ Lead \in Nat /\ Lookback \in Nat /\ Grace \in Nat
  /\ Dump = {"mine", "other"}
  BY GatherAssumption DEF Stream, Dump

LEMMA StreamsCounted == IsFiniteSet(Stream) /\ Cardinality(Stream) = NStreams
<1>1. NStreams \in Nat
  BY ParameterTypes
<1> QED
  BY <1>1, FS_Interval DEF Stream

LEMMA TypeInit == Init => TypeInv
<1> SUFFICES ASSUME Init
             PROVE  TypeInv
  OBVIOUS
<1> USE ParameterTypes
<1>1. disk \in [Stream -> Directory]
<2>1. <<>> \in [{} -> 0 .. Full]
  OBVIOUS
<2>2. <<>> \in Directory
  BY <2>1 DEF Directory
<2> QED
  BY <2>2 DEF Init
<1>2. DataPart
  BY <1>1 DEF Init, DataPart, Places
<1>3. PlacePart
  BY DEF Init, PlacePart, Unpolled, Unpulled
<1>4. ListedPart
  BY DEF Init, ListedPart
<1> QED
  BY <1>2, <1>3, <1>4 DEF TypeInv

-----------------------------------------------------------------------------
(***************************************************************************)
(* The writers' steps                                                      *)
(***************************************************************************)

LEMMA DirectoryType ==
  ASSUME NEW dir \in Directory
  PROVE  /\ DOMAIN dir \subseteq Dump
         /\ dir = [f \in DOMAIN dir |-> dir[f]]
         /\ \A f \in DOMAIN dir : dir[f] \in 0 .. Full
  BY DEF Directory

\* What a written file does to the directories.
LEMMA PutDoes ==
  ASSUME disk \in [Stream -> Directory], NEW s \in Stream, NEW d \in Dump,
         NEW size \in 0 .. Full, Put(s, d, size)
  PROVE  /\ disk' \in [Stream -> Directory]
         /\ DOMAIN disk'[s] = DOMAIN disk[s] \union {d}
         /\ disk'[s][d] = size
         /\ \A f \in DOMAIN disk[s] : f # d => disk'[s][f] = disk[s][f]
         /\ \A t \in Stream : t # s => disk'[t] = disk[t]
<1> DEFINE dir == [f \in DOMAIN disk[s] \union {d} |-> IF f = d THEN size ELSE disk[s][f]]
<1>1. disk' = [disk EXCEPT ![s] = dir]
  BY DEF Put
<1>2. dir \in Directory
<2>1. DOMAIN disk[s] \subseteq Dump /\ \A f \in DOMAIN disk[s] : disk[s][f] \in 0 .. Full
  BY DirectoryType
<2>2. dir \in [DOMAIN disk[s] \union {d} -> 0 .. Full]
  BY <2>1
<2>3. DOMAIN disk[s] \union {d} \in SUBSET Dump
  BY <2>1
<2> QED
  BY <2>2, <2>3 DEF Directory
<1> QED
  BY <1>1, <1>2

\* One step of a writer: its file begins, or grows by one, or another file
\* begins.
Grew(s) ==
  /\ disk' \in [Stream -> Directory]
  /\ \A t \in Stream : t # s => disk'[t] = disk[t]
  /\ DOMAIN disk[s] \subseteq DOMAIN disk'[s]
  /\ \A f \in DOMAIN disk[s] : disk[s][f] = Full => disk'[s][f] = Full
  /\ UNCHANGED <<choices, progress, listing, result, polled, writer, now>>

LEMMA WritersGrow ==
  ASSUME TypeInv, NEW s \in Stream, Write(s) \/ OtherWrites(s)
  PROVE  Grew(s)
<1> USE ParameterTypes
<1>1. disk \in [Stream -> Directory] /\ disk[s] \in Directory
  BY DEF TypeInv, DataPart
<1>2. CASE OtherWrites(s)
<2>1. PICK size \in {1, Full} : Put(s, "other", size)
  BY <1>2 DEF OtherWrites
<2>2. size \in 0 .. Full /\ "other" \in Dump
  BY <2>1
<2> HIDE DEF Grew
<2> QED
  BY <1>1, <1>2, <2>1, <2>2, PutDoes DEF OtherWrites, Grew
<1>3. CASE Write(s) /\ "mine" \notin DOMAIN disk[s]
<2>1. Put(s, "mine", 0) /\ 0 \in 0 .. Full /\ "mine" \in Dump
  BY <1>3 DEF Write
<2> QED
  BY <1>1, <1>3, <2>1, PutDoes DEF Write, Grew
<1>4. CASE Write(s) /\ "mine" \in DOMAIN disk[s]
<2>1. /\ disk[s]["mine"] < Full
      /\ Put(s, "mine", disk[s]["mine"] + 1)
  BY <1>4 DEF Write
<2>2. disk[s]["mine"] \in 0 .. Full
  BY <1>1, <1>4, DirectoryType
<2>3. disk[s]["mine"] + 1 \in 0 .. Full /\ "mine" \in Dump
  BY <2>1, <2>2
<2> QED
  BY <1>1, <1>4, <2>1, <2>2, <2>3, PutDoes DEF Write, Grew
<1> QED
  BY <1>2, <1>3, <1>4

-----------------------------------------------------------------------------
(***************************************************************************)
(* The client's steps                                                      *)
(***************************************************************************)

\* Before it polls, the client's steps leave the result and the directories.
LEMMA EarlyType ==
  ASSUME TypeInv, Resolve \/ Preflight \/ Answer
  PROVE  TypeInv'
<1> USE ParameterTypes DEF TypeInv
<1>1. DataPart'
<2>1. start' \in Int
  BY DEF Resolve, Preflight, Answer, DataPart
<2>2. pc' \in Places
  BY DEF Resolve, Preflight, Answer, Places
<2> QED
  BY <2>1, <2>2
  DEF Resolve, Preflight, Answer, DataPart, choices, progress, listing, result, polled, world
<1>2. PlacePart'
  BY DEF Resolve, Preflight, Answer, PlacePart, Unpolled, Unpulled,
         choices, progress, listing, result, polled, world
<1>3. ListedPart'
  BY DEF Resolve, Preflight, Answer, ListedPart,
         choices, progress, listing, result, polled, world
<1> QED
  BY <1>1, <1>2, <1>3

LEMMA ListType == TypeInv /\ List => TypeInv'
<1> SUFFICES ASSUME TypeInv, List
             PROVE  TypeInv'
  OBVIOUS
<1> USE ParameterTypes DEF TypeInv
<1>1. disk[at] \in Directory /\ DOMAIN disk[at] \subseteq Dump
  BY DirectoryType DEF DataPart
<1>2. /\ before' \in [Stream -> SUBSET Dump]
      /\ \A s \in Stream : before'[s] = before[s] \/ before'[s] \subseteq DOMAIN disk[s]
  BY <1>1 DEF List, DataPart
<1>3. DataPart'
<2>1. at' \in Stream /\ pc' \in Places
  BY DEF List, Onward, DataPart, Places, Stream
<2>2. blind' \subseteq Stream
  BY DEF List, DataPart
<2> QED
  BY <1>2, <2>1, <2>2 DEF List, DataPart, choices, result, polled, world
<1>4. PlacePart'
  BY DEF List, Onward, PlacePart, DataPart, Stream, Unpolled, Unpulled,
         choices, result, polled, world
<1>5. ListedPart'
  BY <1>2 DEF List, ListedPart, PlacePart, Unpolled, polled, world
<1> QED
  BY <1>3, <1>4, <1>5

LEMMA CommandType ==
  ASSUME TypeInv, CommandTaken \/ CommandRefused \/ CommandErrs
  PROVE  TypeInv'
<1> USE ParameterTypes DEF TypeInv
<1>1. PICK ok \in BOOLEAN : Replied(ok)
  BY DEF CommandTaken, CommandRefused, CommandErrs
<1>2. pc = "commanding" /\ writer' \in [Stream -> {"idle", "writing"}]
  BY DEF CommandTaken, CommandRefused, CommandErrs, DataPart
<1>3. failed' \in 0 .. at /\ failed' \in 0 .. NStreams
  BY <1>1, <1>2 DEF Replied, DataPart, PlacePart, Stream
<1>4. DataPart'
  BY <1>1, <1>2, <1>3
  DEF Replied, Onward, DataPart, Places, Stream, Stop, choices, listing, polled
<1>5. PlacePart'
  BY <1>1, <1>2, <1>3
  DEF Replied, Onward, PlacePart, DataPart, Stream, Unpolled, Unpulled, choices, listing, polled
<1>6. ListedPart'
  BY <1>1 DEF Replied, ListedPart, listing, polled
<1> QED
  BY <1>4, <1>5, <1>6

\* What a poll makes of a stream: nothing, or what its directory holds now.
LEMMA PollDoes ==
  ASSUME TypeInv, PollStreams
  PROVE  /\ pc = "gathering" /\ pc' \in {"gathering", "pulling"}
         /\ done \subseteq done' /\ done' \subseteq Stream
         /\ new' \in [Stream -> SUBSET Dump]
         /\ \A s \in Stream : \/ new'[s] = new[s] /\ (s \in done <=> s \in done')
                              \/ s \notin done /\ new'[s] = NewFiles(s) /\ (s \in done' => IsDone(s))
         /\ pc' = "gathering" => failures' = failures
         /\ pc' = "pulling" => failures' = Cardinality(Stream \ done')
<1>1. PICK readable \in SUBSET (Stream \ done) :
        /\ done' = done \union {s \in readable : IsDone(s)}
        /\ new' = [s \in Stream |-> IF s \in readable THEN NewFiles(s) ELSE new[s]]
  BY DEF PollStreams
<1>2. \A s \in Stream : NewFiles(s) \in SUBSET Dump
  BY DirectoryType DEF TypeInv, DataPart, NewFiles
<1>3. \A s \in Stream : new'[s] = IF s \in readable THEN NewFiles(s) ELSE new[s]
  BY <1>1
<1> QED
  BY <1>1, <1>2, <1>3 DEF PollStreams, TypeInv, DataPart

LEMMA PollType == TypeInv /\ PollStreams => TypeInv'
<1> SUFFICES ASSUME TypeInv, PollStreams
             PROVE  TypeInv'
  OBVIOUS
<1> USE ParameterTypes DEF TypeInv
<1>1. failures' \in Nat
<2>1. IsFiniteSet(Stream \ done')
  BY StreamsCounted, FS_Difference
<2> QED
  BY <2>1, PollDoes, FS_CardinalityType DEF DataPart
<1>2. DataPart'
  BY <1>1, PollDoes DEF PollStreams, DataPart, Places, choices, listing, world
<1>3. PlacePart'
  BY PollDoes DEF PollStreams, PlacePart, Unpolled, Unpulled, choices, listing, world
<1>4. ListedPart'
  BY PollDoes DEF PollStreams, ListedPart, NewFiles, IsDone, listing, world
<1> QED
  BY <1>2, <1>3, <1>4

Settles == Skip \/ TakeInPlace \/ Pull \/ MakeDirRaises \/ Transfer

\* What a step that moves files does: copies of the stream the client is at
\* come to the destination, a failure is counted or not, and it stays at the
\* stream or goes on.
LEMMA SettleDoes ==
  ASSUME TypeInv, Settles
  PROVE  /\ pc \in {"pulling", "transferring"}
         /\ failures' = failures \/ failures' = failures + 1
         /\ gathered' = gathered \/ gathered' = gathered \union ({at} \X new[at])
         /\ dest \subseteq dest'
         /\ \A c \in dest' \ dest :
              /\ at \in done /\ c.stream = at /\ c.file \in new[at]
              /\ c.size = disk[at][c.file]
              /\ c \in [stream : Stream, file : Dump, size : 0 .. Full]
         /\ \/ at' = at /\ pc' = "transferring" /\ at \in done
            \/ at' = at /\ pc' = "raised"
            \/ at < NStreams /\ at' = at + 1 /\ pc' = "pulling"
            \/ at = NStreams /\ at' = 1 /\ pc' = IF Ended THEN "succeeded" ELSE "failed"
         /\ UNCHANGED <<choices, start, wakeAt, listing, failed, polled, world, now>>
<1> USE ParameterTypes
<1>1. at \in Stream /\ at <= NStreams /\ new[at] \subseteq DOMAIN disk[at]
  BY DEF TypeInv, DataPart, ListedPart, Stream
<1>2. disk[at] \in Directory /\ DOMAIN disk[at] \subseteq Dump
  BY <1>1, DirectoryType DEF TypeInv, DataPart
<1>3. \A f \in new[at] : disk[at][f] \in 0 .. Full /\ f \in Dump
  BY <1>1, <1>2, DirectoryType
<1>4. \A f \in new[at] :
        /\ CopyOf(at, f) \in [stream : Stream, file : Dump, size : 0 .. Full]
        /\ CopyOf(at, f).stream = at /\ CopyOf(at, f).file = f
        /\ CopyOf(at, f).size = disk[at][f]
  BY <1>1, <1>3 DEF CopyOf
<1>5. UNCHANGED <<choices, start, wakeAt, listing, failed, polled, world, now>>
  BY DEF Settles, Skip, TakeInPlace, Pull, MakeDirRaises, Transfer, Copy, TransferEnds,
         TransferFails, Settled
<1>6. pc = "transferring" => at \in done
  BY DEF TypeInv, PlacePart
<1>7. OnwardOrEnd =>
         \/ at < NStreams /\ at' = at + 1 /\ pc' = "pulling"
         \/ at = NStreams /\ at' = 1 /\ pc' = IF Ended THEN "succeeded" ELSE "failed"
<2>1. at < NStreams \/ at = NStreams
  BY <1>1 DEF Stream
<2> QED
  BY <2>1 DEF OnwardOrEnd
<1>8. CASE Skip \/ TransferEnds \/ TransferFails
<2>1. /\ pc \in {"pulling", "transferring"} /\ OnwardOrEnd
      /\ failures' = failures \/ failures' = failures + 1
      /\ gathered' = gathered /\ dest' = dest
  BY <1>8 DEF Skip, TransferEnds, TransferFails
<2> QED
  BY <1>5, <1>7, <2>1
<1>9. CASE TakeInPlace
<2>1. /\ pc = "pulling" /\ at \in done /\ OnwardOrEnd /\ failures' = failures
      /\ gathered' = gathered \union ({at} \X new[at])
      /\ dest' = dest \union {CopyOf(at, f) : f \in new[at]}
  BY <1>9 DEF TakeInPlace
<2>2. \A c \in dest' \ dest : \E f \in new[at] : c = CopyOf(at, f)
  BY <2>1
<2> QED
  BY <1>4, <1>5, <1>7, <2>1, <2>2
<1>10. CASE Pull \/ MakeDirRaises
  BY <1>5, <1>10 DEF Pull, MakeDirRaises
<1>11. CASE Copy
<2>1. PICK f \in new[at] : dest' = dest \union {CopyOf(at, f)}
  BY <1>11 DEF Copy
<2>2. pc = "transferring" /\ UNCHANGED <<pc, at, failures, gathered>>
  BY <1>11 DEF Copy
<2> QED
  BY <1>4, <1>5, <1>6, <2>1, <2>2
<1> QED
  BY <1>8, <1>9, <1>10, <1>11 DEF Settles, Transfer

LEMMA SettleType == TypeInv /\ Settles => TypeInv'
<1> SUFFICES ASSUME TypeInv, Settles
             PROVE  TypeInv'
  OBVIOUS
<1> USE ParameterTypes, SettleDoes DEF TypeInv
<1>1. pc' \in {"pulling", "transferring", "succeeded", "failed", "raised"} /\ at' \in Stream
  BY DEF DataPart, Stream
<1>2. failures' \in Nat
  BY DEF DataPart
<1>3. dest' \subseteq [stream : Stream, file : Dump, size : 0 .. Full]
  BY DEF DataPart
<1>4. gathered' \subseteq Stream \X Dump
  BY DEF DataPart
<1>5. DataPart'
  BY <1>1, <1>2, <1>3, <1>4 DEF DataPart, Places, choices, listing, polled, world
<1>6. PlacePart'
  BY <1>1 DEF PlacePart, Unpolled, Unpulled, polled
<1>7. ListedPart'
  BY DEF ListedPart, listing, polled, world
<1> QED
  BY <1>5, <1>6, <1>7

LEMMA TypeStep == TypeInv /\ [Next]_vars => TypeInv'
<1> SUFFICES ASSUME TypeInv, [Next]_vars
             PROVE  TypeInv'
  OBVIOUS
<1>1. ASSUME NEW s \in Stream, Write(s) \/ OtherWrites(s)
      PROVE  TypeInv'
  BY <1>1, WritersGrow
  DEF Grew, TypeInv, DataPart, PlacePart, ListedPart, choices, progress, listing, result, polled
<1>2. CASE Tick \/ UNCHANGED vars
  BY <1>2
  DEF Tick, vars, TypeInv, DataPart, PlacePart, ListedPart,
      choices, progress, listing, result, polled, world
<1> QED
  BY <1>1, <1>2, EarlyType, ListType, CommandType, PollType, SettleType DEF Next, Client, Settles

-----------------------------------------------------------------------------
(***************************************************************************)
(* The count of failures                                                   *)
(***************************************************************************)

\* The streams not brought over, once the client has come to stream n, and
\* those it may have counted: an rsync may complain of a whole stream.
Lost(n) == {s \in Stream : s \notin done \/ (s < n /\ ~ AllThere(s))}
Blamed(n) == {s \in Stream : s \notin done \/ (s < n /\ ~ (s \in Local /\ AllThere(s)))}

CountedTo(n) == Cardinality(Lost(n)) <= failures /\ failures <= Cardinality(Blamed(n))

CountPart ==
  /\ \A c \in dest : c.stream \in done
  /\ pc \in {"pulling", "transferring"} => CountedTo(at)
  /\ pc = "raised" => failures <= NStreams
  /\ pc = "succeeded" => /\ CountedTo(NStreams + 1)
                         /\ entry = "cli" => failed + failures = 0
  /\ pc = "failed" => \/ CountedTo(NStreams + 1)
                      \/ failures = 0 /\ dest = {}

CountInv == TypeInv /\ CountPart

LEMMA LostFinite ==
  \A S \in SUBSET Stream : IsFiniteSet(S) /\ Cardinality(S) \in 0 .. NStreams
<1> TAKE S \in SUBSET Stream
<1>1. IsFiniteSet(S) /\ Cardinality(S) <= NStreams
  BY StreamsCounted, FS_Subset
<1> QED
  BY <1>1, ParameterTypes, FS_CardinalityType

LEMMA LostAreStreams ==
  \A n : Lost(n) \in SUBSET Stream /\ Blamed(n) \in SUBSET Stream
  BY DEF Lost, Blamed

\* The streams before the one the client is at stay as they are.
LEMMA SettledStay ==
  ASSUME TypeInv, Settles, NEW n \in Nat, n = at
  PROVE  /\ \A s \in Stream : s # n => (AllThere(s)' <=> AllThere(s))
         /\ Lost(n)' = Lost(n) /\ Blamed(n)' = Blamed(n) /\ done' = done /\ n \in Stream
         /\ CountInv /\ failures' = failures => CountedTo(n)'
<1>1. /\ new' = new /\ done' = done /\ n \in Stream /\ dest \subseteq dest'
      /\ \A c \in dest' : c \in dest \/ c.stream = n
      /\ pc \in {"pulling", "transferring"}
  BY SettleDoes DEF polled, TypeInv, DataPart
<1>2. \A s \in Stream : s # n => (AllThere(s)' <=> AllThere(s))
  BY <1>1 DEF AllThere
<1>3. \A s \in Stream : s < n => s # n
  BY <1>1 DEF Stream
<1>4. Lost(n)' = Lost(n) /\ Blamed(n)' = Blamed(n)
  BY <1>1, <1>2, <1>3 DEF Lost, Blamed
<1> QED
  BY <1>1, <1>2, <1>4 DEF CountInv, CountPart, CountedTo

\* A stream is settled: the sets grow by it, with the count, or stay.
LEMMA SettleCounts ==
  ASSUME CountInv, Skip \/ TakeInPlace \/ TransferEnds \/ TransferFails,
         NEW n \in Nat, n = at, NEW m \in Nat, m = n + 1
  PROVE  CountedTo(m)'
<1> USE ParameterTypes
<1>1. Settles /\ TypeInv
  BY DEF CountInv, Settles, Transfer
<1>2. /\ \A s \in Stream : s # n => (AllThere(s)' <=> AllThere(s))
      /\ Lost(n)' = Lost(n) /\ Blamed(n)' = Blamed(n) /\ done' = done /\ n \in Stream
  BY <1>1, SettledStay
<1>3. /\ Cardinality(Lost(n)) <= failures /\ failures <= Cardinality(Blamed(n))
      /\ failures \in Nat
  BY <1>1, SettleDoes DEF CountInv, CountPart, CountedTo, TypeInv, DataPart
<1>4. \A s \in Stream : (s < m <=> s < n \/ s = n) /\ ~ (n < n)
  BY <1>2 DEF Stream
<1>5. /\ n \in Lost(n) <=> n \notin done
      /\ n \in Blamed(n) <=> n \notin done
  BY <1>2, <1>4 DEF Lost, Blamed
<1>6. /\ Lost(m)' = Lost(n) \union (IF n \notin done \/ ~ AllThere(n)' THEN {n} ELSE {})
      /\ Blamed(m)' = Blamed(n) \union (IF n \notin done \/ ~ (n \in Local /\ AllThere(n)') THEN {n} ELSE {})
<2>1. \A s \in Stream : s \in Lost(m)' <=> (s \in Lost(n)' \/ (s = n /\ (n \notin done \/ ~ AllThere(n)')))
  BY <1>2, <1>4 DEF Lost
<2>2. \A s \in Stream : s \in Blamed(m)' <=>
        (s \in Blamed(n)' \/ (s = n /\ (n \notin done \/ ~ (n \in Local /\ AllThere(n)'))))
  BY <1>2, <1>4 DEF Blamed
<2>3. /\ Lost(m)' \subseteq Stream /\ Blamed(m)' \subseteq Stream
      /\ Lost(n) \subseteq Stream /\ Blamed(n) \subseteq Stream
  BY DEF Lost, Blamed
<2>4. Lost(m)' = Lost(n) \union (IF n \notin done \/ ~ AllThere(n)' THEN {n} ELSE {})
  BY <1>2, <2>1, <2>3
<2>5. Blamed(m)' = Blamed(n) \union (IF n \notin done \/ ~ (n \in Local /\ AllThere(n)') THEN {n} ELSE {})
  BY <1>2, <2>2, <2>3
<2> QED
  BY <2>4, <2>5
\* By one stream more the sets gain at most one member.
<1>7. /\ Cardinality(Lost(n)) \in Nat /\ Cardinality(Blamed(n)) \in Nat
      /\ n \notin Lost(n) => Cardinality(Lost(n) \union {n}) = Cardinality(Lost(n)) + 1
      /\ n \notin Blamed(n) => Cardinality(Blamed(n) \union {n}) = Cardinality(Blamed(n)) + 1
  BY LostFinite, LostAreStreams, FS_AddElement
<1>8. CASE Skip
<2>1. Lost(m)' = Lost(n) /\ Blamed(m)' = Blamed(n) /\ failures' = failures
  BY <1>5, <1>6, <1>8 DEF Skip
<2> QED
  BY <1>3, <2>1 DEF CountedTo
<1>9. CASE TakeInPlace
<2>1. AllThere(n)'
<3>1. new' = new /\ dest' = dest \union {CopyOf(n, f) : f \in new[n]}
  BY <1>9 DEF TakeInPlace, Settled, polled
<3>2. \A f : CopyOf(n, f).stream = n /\ CopyOf(n, f).file = f
  BY DEF CopyOf
<3> QED
  BY <3>1, <3>2 DEF AllThere
<2>2. Lost(m)' = Lost(n) /\ Blamed(m)' = Blamed(n) /\ failures' = failures
  BY <1>6, <1>9, <2>1 DEF TakeInPlace
<2> QED
  BY <1>3, <2>2 DEF CountedTo
<1>10. CASE TransferEnds
<2>1. AllThere(n)' /\ n \in done /\ failures' = failures
  BY <1>1, <1>10 DEF TransferEnds, Settled, polled, AllThere, TypeInv, PlacePart
<2>2. Lost(m)' = Lost(n) /\ (Blamed(m)' = Blamed(n) \/ Blamed(m)' = Blamed(n) \union {n})
  BY <1>6, <2>1
<2>3. failures <= Cardinality(Blamed(n) \union {n})
  BY <1>3, <1>5, <1>7, <2>1
<2> QED
  BY <1>3, <2>1, <2>2, <2>3 DEF CountedTo
<1>11. CASE TransferFails
<2>1. n \in done /\ failures' = failures + 1 /\ ~ (n \in Local /\ AllThere(n)')
  BY <1>1, <1>11 DEF TransferFails, Settled, polled, AllThere, TypeInv, PlacePart
<2>2. (Lost(m)' = Lost(n) \/ Lost(m)' = Lost(n) \union {n}) /\ Blamed(m)' = Blamed(n) \union {n}
  BY <1>6, <2>1
<2>3. /\ Cardinality(Lost(n)) <= failures + 1
      /\ Cardinality(Lost(n) \union {n}) <= failures + 1
      /\ failures + 1 <= Cardinality(Blamed(n) \union {n})
  BY <1>3, <1>5, <1>7, <2>1
<2> QED
  BY <2>1, <2>2, <2>3 DEF CountedTo
<1> QED
  BY <1>8, <1>9, <1>10, <1>11

LEMMA CountInit == Init => CountInv
<1> SUFFICES ASSUME Init
             PROVE  CountPart
  BY TypeInit DEF CountInv
<1> QED
  BY DEF Init, CountPart

LEMMA CountStep == CountInv /\ [Next]_vars => CountInv'
<1> SUFFICES ASSUME CountInv, [Next]_vars
             PROVE  CountPart'
  BY TypeStep DEF CountInv
<1> USE ParameterTypes
\* Steps that leave the result: the sets are the same, primed or not.
<1>1. ASSUME UNCHANGED <<entry, pc, at, done, new, dest, failed, failures>>
      PROVE  CountPart'
  BY <1>1 DEF CountInv, CountPart, CountedTo, Lost, Blamed, AllThere
<1>2. ASSUME NEW s \in Stream, Write(s) \/ OtherWrites(s)
      PROVE  CountPart'
  BY <1>1, <1>2, WritersGrow DEF CountInv, Grew, choices, progress, polled, result
<1>3. CASE Tick \/ UNCHANGED vars
  BY <1>1, <1>3 DEF Tick, vars, choices, progress, polled, result
<1>4. CASE Resolve \/ Preflight \/ Answer \/ List \/ CommandTaken \/ CommandRefused \/ CommandErrs
<2>1. pc' \notin {"pulling", "transferring", "succeeded", "raised"} /\ pc \in Unpolled
  BY <1>4 DEF Resolve, Preflight, Answer, List, CommandTaken, CommandRefused, CommandErrs,
              Replied, Onward, Unpolled
<2>2. failures' = 0 /\ dest' = {}
  BY <1>4, <2>1
  DEF Resolve, Preflight, Answer, List, CommandTaken, CommandRefused, CommandErrs,
      Replied, result, CountInv, TypeInv, PlacePart, Unpulled
<2> QED
  BY <2>1, <2>2 DEF CountPart
<1>5. CASE PollStreams
<2>1. dest = {} /\ dest' = {} /\ failures = 0
  BY <1>5 DEF PollStreams, CountInv, TypeInv, PlacePart, Unpulled
<2>2. pc' = "pulling" => failures' = Cardinality(Stream \ done') /\ at' = 1
  BY <1>5, PollDoes DEF PollStreams, CountInv, TypeInv, PlacePart
<2>3. Lost(1)' = Stream \ done' /\ Blamed(1)' = Stream \ done'
  BY DEF Lost, Blamed, Stream
<2>4. Cardinality(Stream \ done') \in Nat
  BY LostFinite
<2>5. pc' = "pulling" => CountedTo(at)'
  BY <2>2, <2>3, <2>4 DEF CountedTo, Lost, Blamed
<2> QED
  BY <1>5, <2>1, <2>5, PollDoes DEF CountPart, CountInv
<1>6. CASE Settles
<2>1. PICK n \in Nat : n = at
  BY DEF CountInv, TypeInv, DataPart, Stream
<2>2. PICK m \in Nat : m = n + 1
  OBVIOUS
<2>3. TypeInv /\ \A c \in dest : c.stream \in done
  BY DEF CountInv, CountPart
<2>4. done' = done /\ \A c \in dest' : c.stream \in done'
  BY <1>6, <2>3, SettleDoes DEF polled
<2>5. CASE Pull \/ MakeDirRaises \/ Copy
<3>1. at' = n /\ failures' = failures /\ pc' \in {"transferring", "raised"}
  BY <2>1, <2>5 DEF Pull, MakeDirRaises, Copy
<3>2. CountedTo(n)'
  BY <1>6, <2>1, <2>3, <3>1, SettledStay DEF CountInv
<3>3. CountedTo(at)'
  BY <3>1, <3>2 DEF CountedTo, Lost, Blamed
<3>4. failures' <= NStreams
<4>1. Cardinality(Blamed(n)') \in 0 .. NStreams
  BY LostFinite DEF Blamed
<4>2. failures' \in Nat
  BY <1>6, <2>3, SettleType DEF TypeInv, DataPart
<4> QED
  BY <3>2, <4>1, <4>2 DEF CountedTo
<3> QED
  BY <2>4, <3>1, <3>3, <3>4 DEF CountPart
<2>6. CASE Skip \/ TakeInPlace \/ TransferEnds \/ TransferFails
<3>1. CountedTo(m)'
  BY <2>1, <2>2, <2>6, SettleCounts
<3>2. CASE n < NStreams
<4>1. at' = m /\ pc' = "pulling"
  BY <2>1, <2>2, <2>6, <3>2 DEF Skip, TakeInPlace, TransferEnds, TransferFails, OnwardOrEnd
<4>2. CountedTo(at)'
  BY <3>1, <4>1 DEF CountedTo, Lost, Blamed
<4> QED
  BY <2>4, <4>1, <4>2 DEF CountPart
<3>3. CASE n = NStreams
<4>1. /\ pc' = (IF Ended THEN "succeeded" ELSE "failed") /\ m = NStreams + 1
      /\ UNCHANGED <<entry, failed>>
  BY <2>1, <2>2, <2>6, <3>3
  DEF Skip, TakeInPlace, TransferEnds, TransferFails, OnwardOrEnd, Settled, choices
<4>2. CountedTo(NStreams + 1)'
  BY <3>1, <4>1 DEF CountedTo, Lost, Blamed
<4>3. entry = "cli" /\ Ended => failed + failures' = 0
  BY DEF Ended
<4> QED
  BY <2>4, <4>1, <4>2, <4>3 DEF CountPart
<3> QED
  BY <2>1, <3>2, <3>3 DEF CountInv, TypeInv, DataPart, Stream
<2> QED
  BY <1>6, <2>5, <2>6 DEF Settles, Transfer
<1> QED
  BY <1>2, <1>3, <1>4, <1>5, <1>6 DEF Next, Client, Settles

LEMMA CountGives == CountInv => TypeOK /\ FailuresAddUp
<1> SUFFICES ASSUME CountInv
             PROVE  TypeOK /\ FailuresAddUp
  OBVIOUS
<1> USE ParameterTypes
<1>1. NStreams + 1 \in Nat /\ at \in Nat
  BY DEF CountInv, TypeInv, DataPart, Stream
<1>2. failures \in 0 .. NStreams
<2>1. pc \in Unpulled \union {"pulling", "transferring", "succeeded", "failed", "raised"}
  BY DEF CountInv, TypeInv, DataPart, Places, Unpulled, Unpolled
<2>2. failures \in Nat /\ \A n : Cardinality(Blamed(n)) \in 0 .. NStreams
  BY LostFinite, LostAreStreams DEF CountInv, TypeInv, DataPart
<2>3. \A n : CountedTo(n) => failures <= NStreams
  BY <2>2 DEF CountedTo
<2> QED
  BY <2>1, <2>2, <2>3 DEF CountInv, CountPart, TypeInv, PlacePart
<1>3. \A s \in Stream : \A f \in DOMAIN disk[s] : f \in Dump /\ disk[s][f] \in 0 .. Full
  BY DirectoryType DEF CountInv, TypeInv, DataPart
<1>4. TypeOK
  BY <1>2, <1>3 DEF TypeOK, CountInv, TypeInv, DataPart, ListedPart, Places
<1>5. \A s \in Stream : s < NStreams + 1
  BY DEF Stream
<1>6. Lost(NStreams + 1) = Missing /\ Blamed(NStreams + 1) = Missing \union (Stream \ Local)
  BY <1>5 DEF Lost, Blamed, Missing
<1>7. FailuresAddUp
  BY <1>6 DEF FailuresAddUp, CountInv, CountPart, CountedTo
<1> QED
  BY <1>4, <1>7

-----------------------------------------------------------------------------
(***************************************************************************)
(* What is gathered                                                        *)
(***************************************************************************)

\* A stream's dump is there and whole, and nothing else was taken for it.
Sound(s) == /\ "mine" \in DOMAIN disk[s] /\ disk[s]["mine"] = Full
            /\ new[s] = {"mine"}

WholePart ==
  /\ \A s \in done : Undisturbed(s) => Sound(s)
  /\ \A c \in dest : /\ c.stream \in done
                     /\ Undisturbed(c.stream) => c.file = "mine" /\ c.size = Full

WholeInv == CountInv /\ WholePart

\* A stream that was disturbed stays so once all are listed.
LEMMA StaysDisturbed ==
  ASSUME NEW s \in Stream, UNCHANGED listing, DOMAIN disk[s] \subseteq DOMAIN disk'[s]
  PROVE  Undisturbed(s)' => Undisturbed(s)
  BY DEF Undisturbed, listing

LEMMA WholeInit == Init => WholeInv
<1> SUFFICES ASSUME Init
             PROVE  WholePart
  BY CountInit DEF WholeInv
<1> QED
  BY DEF Init, WholePart

LEMMA WholeStep == WholeInv /\ [Next]_vars => WholeInv'
<1> SUFFICES ASSUME WholeInv, [Next]_vars
             PROVE  WholePart'
  BY CountStep DEF WholeInv
<1> USE ParameterTypes DEF WholeInv, CountInv, TypeInv
<1>1. done \subseteq Stream /\ \A c \in dest : c.stream \in Stream
  BY DEF DataPart
<1>2. ASSUME NEW s \in Stream, Write(s) \/ OtherWrites(s)
      PROVE  WholePart'
<2>1. Grew(s)
  BY <1>2, WritersGrow
<2>2. \A t \in Stream : DOMAIN disk[t] \subseteq DOMAIN disk'[t]
  BY <2>1 DEF Grew
<2>3. \A t \in Stream : Undisturbed(t)' => Undisturbed(t)
  BY <2>1, <2>2, StaysDisturbed DEF Grew
<2>4. \A t \in Stream : Sound(t) => Sound(t)'
  BY <2>1, <2>2 DEF Grew, Sound, polled
<2> QED
  BY <1>1, <2>1, <2>3, <2>4 DEF Grew, WholePart, polled, result
<1>3. CASE Tick \/ UNCHANGED vars
  BY <1>3 DEF Tick, vars, WholePart, Undisturbed, Sound, listing, polled, result, world
<1>4. CASE Resolve \/ Preflight \/ Answer \/ List \/ CommandTaken \/ CommandRefused \/ CommandErrs
<2>1. done' = {} /\ dest' = {}
  BY <1>4
  DEF Resolve, Preflight, Answer, List, CommandTaken, CommandRefused, CommandErrs,
      Replied, result, polled, PlacePart, Unpolled, Unpulled
<2> QED
  BY <2>1 DEF WholePart
<1>5. CASE PollStreams
<2>1. dest' = {} /\ UNCHANGED <<listing, disk>>
  BY <1>5 DEF PollStreams, PlacePart, Unpulled, world
<2>2. \A s \in Stream : Undisturbed(s)' <=> Undisturbed(s)
  BY <2>1 DEF Undisturbed, listing
<2>3. ASSUME NEW s \in Stream, Undisturbed(s), new'[s] = NewFiles(s), IsDone(s)
      PROVE  Sound(s)'
  <3>1. disk[s] \in Directory /\ DOMAIN disk[s] \subseteq Dump
    BY DirectoryType DEF DataPart
  <3>2. NewFiles(s) = {"mine"}
    BY <2>3, <3>1 DEF NewFiles, Undisturbed, IsDone, Dump
  <3>3. disk[s]["mine"] \in 0 .. Full /\ "mine" \in DOMAIN disk[s]
    BY <3>1, <3>2, DirectoryType DEF NewFiles
  <3>4. disk[s]["mine"] + 0 >= Full
    BY <2>3, <3>2 DEF IsDone, NewBytes
  <3> QED
    BY <2>1, <2>3, <3>2, <3>3, <3>4 DEF Sound
<2>4. ASSUME NEW s \in Stream, Sound(s), new'[s] = new[s]
      PROVE  Sound(s)'
  BY <2>1, <2>4 DEF Sound
<2> QED
  BY <1>5, <2>1, <2>2, <2>3, <2>4, PollDoes DEF WholePart
<1>6. CASE Settles
<2>1. UNCHANGED <<listing, disk, done, new>>
  BY <1>6, SettleDoes DEF polled, world
<2>2. \A s \in Stream : (Undisturbed(s)' <=> Undisturbed(s)) /\ (Sound(s)' <=> Sound(s))
  BY <2>1 DEF Undisturbed, Sound, listing
<2>3. ASSUME NEW c \in dest' \ dest
      PROVE  /\ c.stream \in done
             /\ Undisturbed(c.stream) => c.file = "mine" /\ c.size = Full
<3>1. at \in done /\ c.stream = at /\ c.file \in new[at] /\ c.size = disk[at][c.file]
  BY <1>6, <2>3, SettleDoes
<3> QED
  BY <3>1 DEF WholePart, Sound
<2> QED
  BY <1>1, <2>1, <2>2, <2>3 DEF WholePart
<1> QED
  BY <1>2, <1>3, <1>4, <1>5, <1>6 DEF Next, Client, Settles

LEMMA WholeKept == Spec => []WholeInv
<1> QED
  BY WholeInit, WholeStep, PTL DEF Spec

LEMMA WholeGives == WholeInv => TypeOK /\ GatheredIsTheDump /\ ExitZeroIsWhole /\ FailuresAddUp
<1> SUFFICES ASSUME WholeInv
             PROVE  TypeOK /\ GatheredIsTheDump /\ ExitZeroIsWhole /\ FailuresAddUp
  OBVIOUS
<1> USE ParameterTypes
<1>1. TypeOK /\ FailuresAddUp
  BY CountGives DEF WholeInv
<1>2. GatheredIsTheDump
  BY DEF GatheredIsTheDump, WholeInv, WholePart
<1>3. ExitZeroIsWhole
<2> SUFFICES ASSUME pc = "succeeded", entry = "cli",
                    NEW s \in Stream, Undisturbed(s)
             PROVE  Delivered(s)
  BY DEF ExitZeroIsWhole
<2>1. failed + failures = 0 /\ failed \in Nat /\ failures \in Nat
  BY DEF WholeInv, CountInv, CountPart, TypeInv, DataPart
<2>2. Cardinality(Lost(NStreams + 1)) <= 0
  BY <2>1 DEF WholeInv, CountInv, CountPart, CountedTo
<2>3. Lost(NStreams + 1) = {}
  BY <2>2, LostFinite, LostAreStreams, FS_EmptySet
<2>4. s \in done /\ AllThere(s)
  BY <2>3 DEF Lost, Stream
<2>5. PICK f \in new[s] : TRUE
  BY <2>4 DEF WholeInv, CountInv, TypeInv, ListedPart
<2>6. PICK c \in dest : c.stream = s
  BY <2>4, <2>5 DEF AllThere
<2> QED
  BY <1>2, <2>6 DEF GatheredIsTheDump, Delivered
<1> QED
  BY <1>1, <1>2, <1>3

-----------------------------------------------------------------------------
(***************************************************************************)
(* The theorems                                                            *)
(***************************************************************************)

(***************************************************************************)
(* What is gathered of a stream that was listed, and to which nothing else *)
(* was dumped, is this dump's file and all of it.                          *)
(***************************************************************************)
THEOREM GatheredCorrect == Spec => []GatheredIsTheDump
<1> QED
  BY WholeKept, WholeGives, PTL

(***************************************************************************)
(* The client's state keeps its types, its exit status of 0 means that all *)
(* is there, and gather_dump's count is that of the streams missing.       *)
(***************************************************************************)
THEOREM TellsCorrect == Spec => []ClientTells
<1>1. WholeInv => ClientTells
  BY WholeGives DEF ClientTells
<1> QED
  BY <1>1, WholeKept, PTL

================================================================================
