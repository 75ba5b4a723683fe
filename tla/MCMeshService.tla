--------------------------- MODULE MCMeshService ---------------------------
(* Instances of MeshService for TLC. *)
EXTENDS MeshService, TLC

CONSTANTS w1, w2, w3

\* A job on w2 runs a pipeline whose second stage is on w1.
PipelineStages == [w \in Workers |-> IF w = w2 THEN {w1} ELSE {}]
NoStages == [w \in Workers |-> {}]

ClientSymmetry == Permutations(Jobs) \union Permutations(Sessions)
FailoverSymmetry == Permutations(Workers) \union Permutations(Tokens)

\* Two clients that never wait for each other, one of them with a seed.
TwoClientsInit ==
    /\ Init
    /\ \A j, k \in Jobs : j # k => session[j] # session[k] /\ seeded[j] # seeded[k]

TwoClientsSpec == TwoClientsInit /\ [][Next]_vars
=============================================================================
