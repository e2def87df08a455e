------------------------------ MODULE MCHistory ------------------------------
(* Instances of History for TLC.                                             *)
EXTENDS History

CONSTANTS u1, u2
=============================================================================
