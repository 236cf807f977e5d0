--------------------------- MODULE MCDatasetRunner ---------------------------
(* Model-checking instances of DatasetRunner. *)
EXTENDS DatasetRunner

MCRuns == 1..N
=============================================================================
