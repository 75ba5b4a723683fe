-------------------------- MODULE MCRuntimeStream --------------------------
(***************************************************************************)
(* Instances of RuntimeStream for TLC.                                     *)
(***************************************************************************)
EXTENDS RuntimeStream

ThreeAndNone == [x \in Ends |-> IF x = "source" THEN 3 ELSE 0]
TwoAndNone == [x \in Ends |-> IF x = "source" THEN 2 ELSE 0]
OneAndNone == [x \in Ends |-> IF x = "source" THEN 1 ELSE 0]

=============================================================================
