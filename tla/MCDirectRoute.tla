--------------------------- MODULE MCDirectRoute ---------------------------
(* DirectRoute as TLC checks it.                                           *)
EXTENDS DirectRoute
=============================================================================
