--------------------------- MODULE MCGovernance ---------------------------
(* GovernanceHistory on small instances, one per contract and group of     *)
(* affairs that touch each other.                                          *)
EXTENDS GovernanceHistory, TLC

Contract(c, affairs) == [contract |-> c, affairs |-> affairs]

MCScenarios ==
    {Contract(c, {"council", "treasury"}) : c \in {"registry", "extension"}}
    \cup {Contract(c, {"council", "code"}) :
            c \in {"registry", "extension", "registrar", "recovery"}}
    \cup {Contract("registrar", {"code", "settings"}),
          Contract("extension", {"code", "roster"}),
          Contract("registry", {"roster"}),
          Contract("registry", {"tokens"})}

Symmetry == Permutations(Hashes) \cup Permutations(Tokens) \cup Permutations(Keys)
=============================================================================
