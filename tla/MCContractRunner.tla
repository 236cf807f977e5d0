--------------------------- MODULE MCContractRunner ---------------------------
(* Model-checking instances of ContractRunner. *)
EXTENDS ContractRunner

CONSTANTS MaxRuns, MaxCandidates

MCRuns == 1..MaxRuns
MCCandidates == 1..MaxCandidates
=============================================================================
