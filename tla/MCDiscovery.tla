---------------------------- MODULE MCDiscovery ----------------------------
(* A virtual card with one output, and a GPU with two, one of which may    *)
(* move to the CRTC of the other.                                          *)
EXTENDS Discovery, TLC

MCCardOf == <<1, 2, 2>>
MCCrtcCard == <<1, 2, 2>>
MCPossible == <<{1}, {2, 3}, {3}>>

Symmetry == Permutations(Modes)
=============================================================================
