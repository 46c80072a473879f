---------------------------- MODULE MCFastGrab ----------------------------
(***************************************************************************)
(* FastGrab on small sets: three framebuffers compete for two slots, so    *)
(* that every hit, miss and eviction happens; a call can hold a handle and *)
(* a descriptor beside those of the slots, and mint one auxiliary handle.  *)
(***************************************************************************)
EXTENDS FastGrab, TLC

Symmetry == Permutations(Fbs) \cup Permutations(Handles) \cup Permutations(Fds)

=============================================================================
