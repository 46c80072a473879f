----------------------------- MODULE MCRustTap -----------------------------
(* Three frames held at a time, and an address for every buffer there can  *)
(* be at once: one per frame, the spare and the one a grab has.            *)
EXTENDS RustTap, TLC

Symmetry == Permutations(Frames) \cup Permutations(Buffers)
=============================================================================
