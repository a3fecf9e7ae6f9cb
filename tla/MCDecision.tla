------------------------------ MODULE MCDecision ------------------------------
(***************************************************************************)
(* A small sky for the decision chain: an injected pulse, an astrophysical *)
(* one, two batches that see them, and two gulps.                          *)
(***************************************************************************)
EXTENDS Decision, TLC

CONSTANTS n1, n2, n3, g1, g2

MCName == {n1, n2, n3}
MCGulp == {g1, g2}
Symmetry == Permutations(MCName)

Injected == [id |-> 1, at |-> 0, injected |-> TRUE]
Pulse == [id |-> 2, at |-> 1, injected |-> FALSE]
MCEvent == {Injected, Pulse}

Trial(event, snr, vetoed, like) ==
  [event |-> event, snr |-> snr, vetoed |-> vetoed, like |-> like]

\* A vetoed trial outshines the rest of each batch.  One batch sees the injected
\* pulse, with a sidelobe in a beam that is not the shot's neighbour; the other
\* the real pulse, where the shot is in beam and DM.
MCBatch ==
  {[id |-> 1, trials |-> {Trial(Injected, 20, FALSE, {Injected}),
                          Trial(Injected, 15, FALSE, {}), Trial(Pulse, 30, TRUE, {})}],
   [id |-> 2, trials |-> {Trial(Pulse, 12, FALSE, {Injected}),
                          Trial(Pulse, 30, TRUE, {})}]}

Of(id, gulp, event, samp, snr, strong, like) ==
  [id |-> id, gulp |-> gulp, event |-> event, samp |-> samp, snr |-> snr,
   strong |-> strong, tiered |-> TRUE, leaky |-> FALSE, vetoed |-> FALSE,
   like |-> like]

\* Two fragments of the real pulse with the injected one beside them, the first
\* where the shot is in beam and DM; then the faint wing of the injected pulse.
MCCluster ==
  {Of(1, g1, Pulse, 10, 12, TRUE, {Injected}), Of(2, g1, Injected, 14, 20, TRUE, {Injected}),
   Of(3, g1, Pulse, 11, 15, TRUE, {}),
   Of(4, g2, Injected, 15, 8, FALSE, {Injected})}
==============================================================================
