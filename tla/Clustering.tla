------------------------------ MODULE Clustering ------------------------------
(***************************************************************************)
(* What becomes of one gulp's trials: the width veto as each batch comes   *)
(* in, the storm rule as the gulp is flushed, and DBSCAN over what is left *)
(* (apps/t2d.py, cluster.py); and what the injection bot later reads out   *)
(* of the gulp's row when a pulse was missed.                              *)
(*                                                                         *)
(* Batches come in any order, and the order reaches every tie below.       *)
(* Every axis is counted in units of which Scale make one link scale, so   *)
(* eps 1.0 is a distance of Scale.  sklearn's DBSCAN is external, modelled *)
(* by what it computes; an incomplete gulp is Coalescer's.                 *)
(***************************************************************************)
EXTENDS Integers, Sequences, FiniteSets, SequencesExt, FiniteSetsExt

CONSTANTS
  None,
  Gulps,     \* the gulps that may come: the trials of each job's batch
  Settings,  \* the settings and pointing tables t2d may run with
  Scale,     \* units per link scale
  Divisor,   \* BEAM_QUOTA_DIVISOR
  Floor,     \* BEAM_FLOOR
  Window     \* the occupancy window, in samples

Trial == [samp : Int, dm : Int, width : Nat, beam : Nat, snr : Nat]

\* cap <= 0 turns the storm rule off; no table is clustering on the beam index.
Setting(cap, skip, veto, table, minSamples) ==
  [cap |-> cap, skip |-> skip, veto |-> veto, table |-> table, minSamples |-> minSamples]

ASSUME ScaleAssumption == Scale \in Nat \ {0} /\ Scale % 4 = 0
ASSUME CapAssumption == Divisor \in Nat \ {0} /\ Floor \in Nat \ {0} /\ Window \in Nat
ASSUME GulpsAssumption ==
  \A g \in Gulps : IsFiniteSet(DOMAIN g) /\ \A job \in DOMAIN g : g[job] \in Seq(Trial)
ASSUME SettingsAssumption ==
  \A s \in Settings :
    /\ s.cap \in Int
    /\ s.table = None \/ \A b \in DOMAIN s.table : s.table[b] \in Int \X Int

VARIABLES
  gulp, setting,
  arrived,    \* the jobs whose batch is in, in order
  pending,    \* the trials that passed the width veto, in order of arrival
  nVetoed,
  phase,      \* "collecting" -> "shed" -> "done", or straight to "done"
  footprint,  \* the samples and beams of the trials before any was shed
  cands,      \* the trials that go to DBSCAN
  clusters, labels,
  row         \* the gulp's row in gulp_stats

vars == <<gulp, setting, arrived, pending, nVetoed, phase, footprint, cands,
          clusters, labels, row>>

Init ==
  /\ gulp \in Gulps /\ setting \in Settings
  /\ arrived = <<>> /\ pending = <<>> /\ nVetoed = 0
  /\ phase = "collecting"
  /\ footprint = <<>> /\ cands = <<>> /\ clusters = <<>> /\ labels = <<>>
  /\ row = None

-----------------------------------------------------------------------------
(***************************************************************************)
(* The width veto and the storm cap                                        *)
(***************************************************************************)

\* S in the order Before: each element after as many as come before it.
Sorted(S, Before(_, _)) ==
  LET placed == {<<Cardinality({j \in S : Before(j, i)}) + 1, i>> : i \in S}
  IN [n \in 1 .. Cardinality(S) |-> (CHOOSE p \in placed : p[1] = n)[2]]

\* The trials at the places S, in their order.
At(trials, S) ==
  LET order == Sorted(S, <) IN [n \in DOMAIN order |-> trials[order[n]]]

ApplyWidthVeto(trials, veto) ==
  At(trials, {i \in DOMAIN trials : trials[i].width \notin veto})

\* The first n of S in the order Before.
FirstOf(S, n, Before(_, _)) ==
  {i \in S : Cardinality({j \in S : Before(j, i)}) < n}

Quota(cap) == Max({1, (cap + Divisor - 1) \div Divisor})

\* Mutant: the second stage keeps the best of the whole sky only.
ApplyStormCapNoFloor(trials, cap) ==
  LET all == DOMAIN trials
      Better(j, i) == trials[j].snr > trials[i].snr \/ (trials[j].snr = trials[i].snr /\ j < i)
      survivors == UNION {FirstOf({i \in all : trials[i].beam = b}, Quota(cap), Better) :
                          b \in {trials[i].beam : i \in all}}
      kept == IF Cardinality(survivors) <= cap THEN survivors
              ELSE FirstOf(survivors, cap, Better)
  IN IF cap <= 0 \/ Len(trials) <= cap THEN trials
     ELSE At(trials, kept)

\* Equal S/N goes to the earlier trial within a beam, and across beams to the
\* beam that was seen first.  The survivors keep their order.
ApplyStormCap(trials, cap) ==
  LET all == DOMAIN trials
      InBeam(S, b) == {i \in S : trials[i].beam = b}
      beams == {trials[i].beam : i \in all}
      seen == [b \in beams |-> Min(InBeam(all, b))]
      Better(j, i) == trials[j].snr > trials[i].snr \/ (trials[j].snr = trials[i].snr /\ j < i)
      BetterInSky(j, i) ==
        \/ trials[j].snr > trials[i].snr
        \/ /\ trials[j].snr = trials[i].snr
           /\ \/ seen[trials[j].beam] < seen[trials[i].beam]
              \/ trials[j].beam = trials[i].beam /\ j < i
      survivors == UNION {FirstOf(InBeam(all, b), Quota(cap), Better) : b \in beams}
      kept == IF Cardinality(survivors) <= cap THEN survivors
              ELSE FirstOf(survivors, cap, BetterInSky)
                     \union UNION {FirstOf(InBeam(survivors, b), Floor, Better) : b \in beams}
  IN IF cap <= 0 \/ Len(trials) <= cap THEN trials
     ELSE At(trials, kept)

\* storm_skip_gulp drops the whole gulp instead.
SkipsGulp(trials, s) == s.skip /\ s.cap > 0 /\ Len(trials) > s.cap

StormRule(trials, s) ==
  IF SkipsGulp(trials, s) THEN <<>> ELSE ApplyStormCap(trials, s.cap)

\* The trials' samples in ascending order, and their beams in the same order.
Footprint(trials) ==
  LET order == Sorted(DOMAIN trials,
                 LAMBDA i, j : trials[i].samp < trials[j].samp
                               \/ (trials[i].samp = trials[j].samp /\ i < j))
  IN [n \in DOMAIN order |-> [samp |-> trials[order[n]].samp, beam |-> trials[order[n]].beam]]

\* The beams between bisect_left at one end of the window and bisect_right at
\* the other.
OccupancyBeams(fp, peakSamp) ==
  LET lo == Cardinality({n \in DOMAIN fp : fp[n].samp < peakSamp - Window})
      hi == Cardinality({n \in DOMAIN fp : fp[n].samp <= peakSamp + Window})
  IN Cardinality({fp[n].beam : n \in lo + 1 .. hi})

-----------------------------------------------------------------------------
(***************************************************************************)
(* Clustering                                                              *)
(***************************************************************************)

\* A beam off the table is put at the zenith.
Place(beam, table) == IF beam \in DOMAIN table THEN table[beam] ELSE <<0, 0>>

\* A width step is half a link scale, a beam index a quarter of one.
Features(t, s) ==
  <<t.samp, t.dm, t.width * (Scale \div 2)>> \o
  (IF s.table = None THEN <<t.beam * (Scale \div 4)>> ELSE Place(t.beam, s.table))

\* The half-scale grid; width and beam enter it exactly.
CellKey(t, s) ==
  LET half == Scale \div 2
      Half(u) == u \div half
  IN <<Half(t.samp), Half(t.dm), t.width, t.beam>> \o
     (IF s.table = None THEN <<>>
      ELSE <<Half(Place(t.beam, s.table)[1]), Half(Place(t.beam, s.table)[2])>>)

\* CellOf names a trial's cell by the first trial in it.
CellOf(trials, s) ==
  [i \in DOMAIN trials |->
     Min({j \in 1 .. i : CellKey(trials[j], s) = CellKey(trials[i], s)})]

\* The first of those with the highest S/N.
Best(trials, S) ==
  CHOOSE i \in S : \A j \in S : trials[i].snr > trials[j].snr
                                \/ (trials[i].snr = trials[j].snr /\ i <= j)

Near(u, v) ==
  LET SquareOfDiff(n) == (u[n] - v[n]) * (u[n] - v[n])
  IN MapThenSumSet(SquareOfDiff, DOMAIN u) <= Scale * Scale

NearTo(point, c) == {d \in DOMAIN point : Near(point[c], point[d])}

\* Mutant: a cell counts only the neighbours that came before it.
CoresSoFar(point, minSamples) ==
  {c \in DOMAIN point : Cardinality({d \in NearTo(point, c) : d <= c}) >= minSamples}

Cores(point, minSamples) ==
  {c \in DOMAIN point : Cardinality(NearTo(point, c)) >= minSamples}

\* DBSCAN over the cells' representatives.  Two cores are in one cluster unless a
\* closed set, which near cores do not lead out of, tells them apart.  A cell is
\* labelled with the first core of its cluster, a border cell with that of the
\* first cluster in reach, and noise with itself, negated.
Dbscan(point, minSamples) ==
  LET cores == Cores(point, minSamples)
      near == [c \in DOMAIN point |-> NearTo(point, c) \intersect cores]
      closed == {U \in SUBSET cores : \A c \in U : near[c] \subseteq U}
      FirstCore(c) == Min({d \in cores : \A U \in closed : c \in U => d \in U})
  IN [c \in DOMAIN point |->
        IF near[c] = {} THEN - c ELSE Min({FirstCore(d) : d \in near[c]})]

\* Mutant: a cell is represented by its first trial.
RepsFirst(trials, cellOf) == [c \in Range(cellOf) |-> c]

\* Each cell's representative is its best trial.
Reps(trials, cellOf) ==
  [c \in Range(cellOf) |-> Best(trials, {i \in DOMAIN trials : cellOf[i] = c})]

Points(trials, s) ==
  LET rep == Reps(trials, CellOf(trials, s))
  IN [c \in DOMAIN rep |-> Features(trials[rep[c]], s)]

\* The clusters, best peak first, and for each trial the place of its cluster.
\* Of equal peaks, DBSCAN's groups come before the noise.
Envelopes(trials, cellOf, rep, label) ==
  LET Cells(a) == {c \in DOMAIN label : label[c] = a}
      peak == [a \in Range(label) |->
                 rep[CHOOSE c \in Cells(a) : \A d \in Cells(a) :
                       \/ trials[rep[c]].snr > trials[rep[d]].snr
                       \/ trials[rep[c]].snr = trials[rep[d]].snr /\ c <= d]]
      Envelope(a) ==
        [peak |-> trials[peak[a]],
         nMembers |-> Cardinality({i \in DOMAIN trials : label[cellOf[i]] = a}),
         beams |-> {trials[rep[c]].beam : c \in Cells(a)}]
      Precedes(a, b) ==
        \/ trials[peak[a]].snr > trials[peak[b]].snr
        \/ /\ trials[peak[a]].snr = trials[peak[b]].snr
           /\ \/ a > 0 /\ b < 0
              \/ (a > 0 <=> b > 0) /\ Min(Cells(a)) < Min(Cells(b))
      order == Sorted(Range(label), Precedes)
  IN [clusters |-> [n \in DOMAIN order |-> Envelope(order[n])],
      labels |-> [i \in DOMAIN trials |->
                    CHOOSE n \in DOMAIN order : order[n] = label[cellOf[i]]]]

ClusterCandidates(trials, s) ==
  LET cellOf == CellOf(trials, s)
  IN Envelopes(trials, cellOf, Reps(trials, cellOf),
               Dbscan(Points(trials, s), s.minSamples))

-----------------------------------------------------------------------------
(***************************************************************************)
(* A gulp on its way through t2d                                           *)
(***************************************************************************)

StatsRow(nCands, nClusters, nShed) ==
  [nCands |-> nCands, nClusters |-> nClusters, nVetoed |-> nVetoed, nShed |-> nShed]

Whole == Len(arrived) = Cardinality(DOMAIN gulp)

\* _handle, up to the key's wake-up.
Handle(job) ==
  /\ phase = "collecting" /\ job \notin Range(arrived)
  /\ LET kept == ApplyWidthVeto(gulp[job], setting.veto) IN
       /\ pending' = pending \o kept
       /\ nVetoed' = nVetoed + Len(gulp[job]) - Len(kept)
  /\ arrived' = Append(arrived, job)
  /\ UNCHANGED <<gulp, setting, phase, footprint, cands, clusters, labels, row>>

\* _flush_later of a whole gulp none of whose trials is left.
Quiet ==
  /\ phase = "collecting" /\ Whole /\ pending = <<>>
  /\ row' = StatsRow(nVetoed, 0, 0)
  /\ phase' = "done"
  /\ UNCHANGED <<gulp, setting, arrived, pending, nVetoed, footprint, cands, clusters, labels>>

\* _flush_later until the trials are handed to the clustering thread.
Shed ==
  /\ phase = "collecting" /\ Whole /\ pending # <<>>
  /\ footprint' = Footprint(pending)
  /\ cands' = StormRule(pending, setting)
  /\ phase' = "shed"
  /\ UNCHANGED <<gulp, setting, arrived, pending, nVetoed, clusters, labels, row>>

\* The thread's answer, and the row that _process writes.
Cluster ==
  /\ phase = "shed"
  /\ LET answer == ClusterCandidates(cands, setting) IN
       /\ clusters' = answer.clusters /\ labels' = answer.labels
       /\ row' = StatsRow(Len(pending) + nVetoed, Len(answer.clusters),
                          Len(pending) - Len(cands))
  /\ phase' = "done"
  /\ UNCHANGED <<gulp, setting, arrived, pending, nVetoed, footprint, cands>>

Next == (\E job \in DOMAIN gulp : Handle(job)) \/ Quiet \/ Shed \/ Cluster

Spec == Init /\ [][Next]_vars

-----------------------------------------------------------------------------
(***************************************************************************)
(* The reason the injection bot gives for a pulse that T1 saw on some      *)
(* beams and T2 has no cluster of                                          *)
(***************************************************************************)

AllOf(g) == UNION {Range(g[job]) : job \in DOMAIN g}
MatchedTrials(beams) == {t \in AllOf(gulp) : t.beam \in beams}
AllVetoWidth(trials) == \A t \in trials : t.width \in setting.veto

T2MissReason(matched) ==
  LET dropped == row.nShed > 0 /\ row.nCands > 0 /\ row.nShed >= row.nCands IN
  CASE dropped -> "dropped by the storm cap"
    [] row.nShed > 0 /\ ~ dropped -> "shed in part"
    [] row.nShed = 0 /\ AllVetoWidth(matched) -> "width-vetoed"
    [] OTHER -> "intact"

-----------------------------------------------------------------------------
(***************************************************************************)
(* What every gulp can count on                                            *)
(***************************************************************************)

Done == phase = "done"

TypeOK ==
  /\ gulp \in Gulps /\ setting \in Settings
  /\ phase \in {"collecting", "shed", "done"}
  /\ Range(arrived) \subseteq DOMAIN gulp /\ nVetoed \in Nat
  /\ Range(cands) \subseteq Range(pending) /\ Range(pending) \subseteq Trial
  /\ Range(labels) \subseteq DOMAIN clusters
  /\ row \in [nCands : Nat, nClusters : Nat, nVetoed : Nat, nShed : Nat] \union {None}

Beams(trials) == {t.beam : t \in Range(trials)}
CountOf(t, trials) == Cardinality({i \in DOMAIN trials : trials[i] = t})

(***************************************************************************)
(* The storm rule is fair: nothing goes at or below the cap; above it the  *)
(* rule bounds what DBSCAN sees, no trial is shed while a weaker one of    *)
(* its beam is kept, and no storm anywhere evicts the best trial of a      *)
(* beam.  Whatever is shed, the occupancy of a cluster counts every beam   *)
(* that passed the width veto.                                             *)
(***************************************************************************)
ShedIsFair ==
  phase \in {"shed", "done"} /\ pending # <<>> =>
    LET capped == setting.cap > 0 /\ Len(pending) > setting.cap
        gone == {t \in Range(pending) : CountOf(t, cands) < CountOf(t, pending)}
    IN /\ ~ capped => cands = pending
       /\ capped =>
            Len(cands) <= setting.cap + Floor * Cardinality(Beams(pending))
       /\ ~ SkipsGulp(pending, setting) =>
            /\ Beams(cands) = Beams(pending)
            /\ \A t \in gone, k \in Range(cands) : t.beam = k.beam => t.snr <= k.snr
       /\ \A n \in DOMAIN clusters :
            OccupancyBeams(footprint, clusters[n].peak.samp) =
              Cardinality({t.beam : t \in {u \in Range(pending) :
                 u.samp - clusters[n].peak.samp \in - Window .. Window}})

(***************************************************************************)
(* No trial is lost between the wire and the row: what was vetoed, what    *)
(* was shed and what the clusters count add up to what came in, the labels *)
(* agree with the clusters, and every clustered trial is in a cluster that *)
(* peaks at least as high, best cluster first.                             *)
(***************************************************************************)
TrialsAccounted ==
  Done =>
    LET Size(n) == clusters[n].nMembers
        OfJob(job) == Len(gulp[job])
        Labelled(n) == {i \in DOMAIN cands : labels[i] = n}
    IN /\ row.nCands = MapThenSumSet(OfJob, DOMAIN gulp)
       /\ row.nVetoed + row.nShed + MapThenSumSet(Size, DOMAIN clusters) = row.nCands
       /\ \A n \in DOMAIN clusters :
            /\ Size(n) = Cardinality(Labelled(n))
            /\ clusters[n].beams = {cands[i].beam : i \in Labelled(n)}
            /\ \A i \in Labelled(n) : clusters[n].peak.snr >= cands[i].snr
            /\ \A m \in DOMAIN clusters :
                 m < n => clusters[m].peak.snr >= clusters[n].peak.snr

(***************************************************************************)
(* The reason for a miss is the true one: "width-vetoed" and "dropped" are *)
(* said only when none of the pulse's trials reached DBSCAN, "intact" only *)
(* when one did: TrialsAccounted says that it is in a cluster.             *)
(***************************************************************************)
MissReasonTrue ==
  Done =>
    \A beams \in SUBSET {t.beam : t \in AllOf(gulp)} \ {{}} :
      LET matched == MatchedTrials(beams)
          reached == matched \intersect Range(cands)
          reason == T2MissReason(matched)
      IN /\ reason \in {"width-vetoed", "dropped by the storm cap"} => reached = {}
         /\ reason = "intact" => reached # {}

(***************************************************************************)
(* What the gulp's row, its clusters and labels tell is so.                *)
(***************************************************************************)
RowTells == TypeOK /\ TrialsAccounted /\ MissReasonTrue

(***************************************************************************)
(* The order in which the jobs report moves borders only.  When no two     *)
(* trials have the same S/N, the other orders keep the same trials and     *)
(* form as many clusters of them, and two trials change company only if    *)
(* one of them lies within reach of the cores of two clusters.             *)
(***************************************************************************)
InOrder(order) ==
  FlattenSeq([n \in DOMAIN order |-> ApplyWidthVeto(gulp[order[n]], setting.veto)])

\* The trials whose cell is within reach of two clusters' cores.
Straddling ==
  LET point == Points(cands, setting)
      cellOf == CellOf(cands, setting)
      InReach(c) == {labels[d] : d \in NearTo(point, c) \intersect Cores(point, setting.minSamples)}
  IN {cands[i] : i \in {j \in DOMAIN cands : Cardinality(InReach(cellOf[j])) > 1}}

Together(trials, label, t, u) ==
  \E i, j \in DOMAIN trials : trials[i] = t /\ trials[j] = u /\ label[i] = label[j]

OrderMovesBordersOnly ==
  Done /\ cands # <<>> /\ Cardinality({t.snr : t \in Range(pending)}) = Len(pending) =>
    \A order \in SetToSeqs(DOMAIN gulp) :
      LET others == StormRule(InOrder(order), setting)
          answer == ClusterCandidates(others, setting)
          settled == Range(cands) \ Straddling
      IN /\ Range(others) = Range(cands)
         /\ Len(answer.clusters) = Len(clusters)
         /\ \A t, u \in settled :
              Together(others, answer.labels, t, u) <=> Together(cands, labels, t, u)

=============================================================================
