---------------------------- MODULE MCEglDetile ----------------------------
(* EglDetile on a small instance: two tiled buffers of one geometry above  *)
(* 1080p, a small linear one with 10-bit pixels, a small compressed one of *)
(* two planes and a small tiled one with blue first.                       *)
EXTENDS EglDetile, TLC

CONSTANTS b1, b2, b3, b4, b5

Recycled == [size |-> 2, format |-> "rgb8", order |-> "rgb", planes |-> 1, mod |-> "tiled"]

MCDesc ==
  b1 :> Recycled @@ b2 :> Recycled
  @@ b3 :> [size |-> 1, format |-> "rgb10", order |-> "rgb", planes |-> 1, mod |-> "linear"]
  @@ b4 :> [size |-> 1, format |-> "rgb8", order |-> "rgb", planes |-> 2, mod |-> "ccs"]
  @@ b5 :> [size |-> 1, format |-> "rgb8", order |-> "bgr", planes |-> 1, mod |-> "tiled"]

MCSymmetry ==
  Permutations(Pics) \cup Permutations(Ctxs) \cup Permutations(Devices) \cup Permutations(Fbs)
    \cup Permutations({b1, b2})
=============================================================================
