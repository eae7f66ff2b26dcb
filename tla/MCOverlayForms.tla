--------------------------- MODULE MCOverlayForms ---------------------------
(* Model-checking instance of OverlayForms: two items rendered with the   *)
(* page and room for two new ones.                                         *)
EXTENDS OverlayForms

CONSTANTS i1, i2, n1, n2   \* model values

MCItems == {i1, i2}
MCNewIds == {n1, n2}

=============================================================================
