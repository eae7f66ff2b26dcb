--------------------------- MODULE MCReportRequest ---------------------------
(* Model-checking instance of ReportRequest. *)
EXTENDS ReportRequest

NoCustomStates == {}
\* The failures the code reports to the user (status != 0).
ReportedCauses == {"timeout", "http"}

=============================================================================
