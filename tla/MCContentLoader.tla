--------------------------- MODULE MCContentLoader ---------------------------
(* Model-checking instance of ContentLoader: two sortable columns, one    *)
(* search term and one filter selection, two pages.                        *)
EXTENDS ContentLoader

CONSTANTS colA, colB, t1, f1   \* model values

MCColumns == {colA, colB}
MCTerms == {EmptyQuery, t1}
MCFilters == {f1}
=============================================================================
