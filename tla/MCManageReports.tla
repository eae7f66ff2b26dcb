--------------------------- MODULE MCManageReports ---------------------------
(* Model-checking instance of ManageReports. *)
EXTENDS ManageReports

NoCustomStates == {}
HttpCauses == {"http"}

=============================================================================
