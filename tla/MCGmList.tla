------------------------------ MODULE MCGmList ------------------------------
(* Model-checking instance of GmList: two sort columns, one search term   *)
(* besides the empty field, two pages.                                     *)
EXTENDS GmList

CONSTANTS colA, colB, t1   \* model values

MCColumns == {colA, colB}
MCTerms == {"", t1}
=============================================================================
