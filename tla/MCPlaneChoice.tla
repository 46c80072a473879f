--------------------------- MODULE MCPlaneChoice ---------------------------
(***************************************************************************)
(* PlaneChoice with two CRTCs and three planes: an overlay that KMS lists  *)
(* first, a primary plane that can rotate, and one that cannot.            *)
(***************************************************************************)
EXTENDS PlaneChoice

Off == [crtc |-> 0, fb |-> 0, tiled |-> FALSE, src |-> 0, offset |-> FALSE, dst |-> 0,
        rot |-> 0]

Shows(crtc, fb, src, dst) == [Off EXCEPT !.crtc = crtc, !.fb = fb, !.src = src, !.dst = dst]

Heads(mode1, mode2, overlay, plane2, plane3) ==
  [mode |-> <<mode1, mode2>>, plane |-> <<overlay, plane2, plane3>>]

(* appletbdrm's padded strip (60 of 64 columns), the same framebuffer      *)
(* scaled down, tiled, rotated, read from an offset, under a smaller mode  *)
(* and beneath an overlay; its CRTC on the other primary plane, with a     *)
(* second head, on a narrower framebuffer, dark beside that head; nothing. *)
Strip == Shows(1, 64, 60, 60)
Second == Shows(2, 60, 60, 60)

MCConfigs ==
  {Heads(60, 0, Off, Strip, Off),
   Heads(60, 0, Off, Shows(1, 64, 64, 60), Off),
   Heads(60, 0, Off, [Strip EXCEPT !.tiled = TRUE], Off),
   Heads(60, 0, Off, [Strip EXCEPT !.rot = 180], Off),
   Heads(60, 0, Off, [Strip EXCEPT !.offset = TRUE], Off),
   Heads(32, 0, Off, Shows(1, 64, 32, 32), Off),
   Heads(32, 0, Off, Shows(1, 40, 32, 32), Off),
   Heads(60, 0, Shows(1, 32, 32, 32), Strip, Off),
   Heads(60, 0, Off, Off, Strip),
   Heads(60, 60, Off, Strip, Second),
   Heads(0, 60, Off, Off, Second),
   Heads(0, 0, Off, Off, Off)}

=============================================================================
