---------------------------- MODULE MCChartLoader ----------------------------
(* Model-checking instance of ChartLoader: a pie chart (Flotr), a bar or  *)
(* line chart (Chart.js) and an HTML fragment on one page.                 *)
EXTENDS ChartLoader, TLC

CONSTANTS pie, bar, frag   \* model values

MCContainers == {pie, bar, frag}
MCKind == (pie :> "flotr") @@ (bar :> "canvas") @@ (frag :> "html")
=============================================================================
