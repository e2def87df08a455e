----------------------------- MODULE MCDashboard -----------------------------
(* An instance of Dashboard for TLC: one browser, polling and clicked at.    *)
EXTENDS Dashboard

CONSTANTS u1, u2
=============================================================================
