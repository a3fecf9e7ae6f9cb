-------------------------- MODULE MCWeightsRegistry --------------------------
(***************************************************************************)
(* Two products over two streams that share the payload of the second      *)
(* stream.  bfcorr's own defaults are the payloads of the second product.  *)
(***************************************************************************)
EXTENDS WeightsRegistry, TLC

CONSTANTS pa, pb, u1, u2, watch, wide

MCProduct == {pa, pb}
MCStream == 1 .. 2
MCUploader == {u1, u2}
Symmetry == Permutations(MCUploader)
MCPayload == {"a1", "b1", "ab2"}
MCPayloadOf == [p \in MCProduct |->
  [s \in MCStream |-> IF s = 2 THEN "ab2" ELSE IF p = pa THEN "a1" ELSE "b1"]]
MCDefault == MCPayloadOf[pb]

MCGivenWidth == [p \in MCProduct |-> IF p = pa THEN {None, wide} ELSE {None}]
==============================================================================
