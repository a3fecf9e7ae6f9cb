----------------------------- MODULE MCClustering -----------------------------
(***************************************************************************)
(* The gulps that TLC explores: two jobs, four beams.  The small gulps vary *)
(* S/N, beam, width and place so that quotas, floors, ties, vetoes, shared *)
(* cells and noise meet; the chain is the least that has a border cell     *)
(* between two clusters.                                                   *)
(***************************************************************************)
EXTENDS Clustering

MCTrial(samp, dm, width, beam, snr) ==
  [samp |-> samp, dm |-> dm, width |-> width, beam |-> beam, snr |-> snr]

\* Job 2's beams are the last of each sequence.
MCSplit(trials, first) ==
  <<SubSeq(trials, 1, first), SubSeq(trials, first + 1, Len(trials))>>

MCSnrs == {<<12, 12, 12, 12, 12>>, <<12, 13, 14, 15, 16>>, <<16, 15, 14, 13, 12>>,
           <<14, 14, 13, 13, 12>>, <<12, 14, 14, 12, 13>>, <<16, 15, 12, 14, 13>>,
           <<15, 16, 14, 12, 13>>, <<14, 13, 12, 14, 13>>}
MCBeams == {<<0, 0, 1, 4, 4>>, <<0, 0, 0, 4, 5>>, <<0, 1, 0, 4, 4>>}
MCWidths == {<<1, 1, 1, 1, 1>>, <<6, 1, 1, 6, 1>>, <<1, 2, 1, 6, 6>>, <<6, 6, 6, 6, 6>>}
MCPlaces == {<< <<0, 0>>, <<0, 0>>, <<0, 0>>, <<0, 0>>, <<0, 0>> >>,
             << <<0, 0>>, <<1, 1>>, <<3, 0>>, <<5, 3>>, <<2, 0>> >>,
             << <<0, 0>>, <<4, 0>>, <<5, 8>>, <<9, 0>>, <<12, 0>> >>}

MCSmall ==
  {MCSplit([n \in 1 .. 5 |-> MCTrial(place[n][1], place[n][2], width[n], beam[n], snr[n])], 3) :
   place \in MCPlaces, width \in MCWidths, beam \in MCBeams, snr \in MCSnrs}

\* Two cores within reach of the one border cell between them.
MCChain ==
  {MCSplit([n \in 1 .. 7 |-> MCTrial(<<1, 3, 5, 8, 11, 13, 15>>[n], 0, 1, beam[n], 11 + snr[n])], 4) :
   beam \in {<<0, 0, 0, 0, 1, 1, 1>>, <<0, 0, 0, 1, 2, 2, 2>>},
   snr \in {<<1, 2, 3, 4, 5, 6, 7>>, <<7, 6, 5, 4, 3, 2, 1>>, <<1, 5, 3, 7, 4, 6, 2>>,
            <<4, 4, 4, 4, 4, 4, 4>>}}

MCGulps == MCSmall \union MCChain

\* Beams 0, 1 and 4 are a beam apart in a row; beam 5 is off the table.
MCTable == [b \in {0, 1, 4} |-> IF b = 0 THEN <<-4, 1>> ELSE IF b = 1 THEN <<0, 1>> ELSE <<4, 1>>]

MCSettings == {Setting(3, FALSE, {6}, MCTable, 2), Setting(3, TRUE, {6}, MCTable, 3),
               Setting(0, FALSE, {6}, MCTable, 3), Setting(4, FALSE, {}, None, 2),
               Setting(0, FALSE, {}, None, 4)}
===============================================================================
