------------------------ MODULE MCComponentUpdate ------------------------
(* The third manifest brings the first artifact back.                      *)
EXTENDS ComponentUpdate

MCArtifact == <<1, 2, 1>>
=============================================================================
