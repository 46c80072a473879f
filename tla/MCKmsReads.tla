----------------------------- MODULE MCKmsReads -----------------------------
(* A primary plane, an overlay in front of it in the kernel's order, and a *)
(* cursor plane, on two monitors.                                          *)
EXTENDS KmsReads, TLC

CONSTANTS crtc1, crtc2, tiled, linear, arrow, banner

MCCrtcs == {crtc1, crtc2}
MCFbs == {tiled, linear}
MCShapes == {arrow, banner}
MCMachines ==
  {[virtio |-> FALSE, virgl |-> FALSE, hot |-> "none", cap |-> FALSE],
   [virtio |-> TRUE, virgl |-> FALSE, hot |-> "both", cap |-> TRUE],
   [virtio |-> TRUE, virgl |-> TRUE, hot |-> "half", cap |-> TRUE]}

Symmetry == Permutations(MCCrtcs)
=============================================================================
