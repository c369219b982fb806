----------------------------- MODULE MCRgbMatrix -----------------------------
(* Model values for RgbMatrix.                                             *)
EXTENDS RgbMatrix

CONSTANTS m1, m2, i1

MCMatrix == {m1, m2}
MCImage == {i1}
MCElapsed == {6}
=============================================================================
