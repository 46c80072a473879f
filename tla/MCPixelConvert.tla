--------------------------- MODULE MCPixelConvert ---------------------------
(* Tiles of 4 x 2 pixels with columns of 2, frames of up to 9 x 5 to       *)
(* decode and of up to 3 x 3 to compare.                                   *)
EXTENDS PixelConvert
=============================================================================
