-------------------------- MODULE MCWeightTransfer --------------------------
(* Buckets of two bytes; weights of less, of one, of several buckets and   *)
(* of a bucket and a half, in orders that leave a bucket half full, end    *)
(* with a large weight, or consist of large weights only.                  *)
EXTENDS WeightTransfer

MCReceivers == {1, 2}
MCWeightLists ==
  {<<1, 1, 1>>, <<2, 1, 2>>, <<1, 3, 1>>, <<3, 1>>, <<1, 4>>, <<5>>, <<3, 3>>}
=============================================================================
