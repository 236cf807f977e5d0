-------------------------- MODULE MCGenerationJobs --------------------------
(* Model-checking instances of GenerationJobs. *)
EXTENDS GenerationJobs, TLC

\* Workers are interchangeable, and so are the two arms of a battle when
\* neither of them has tools.
WorkerSymmetry == Permutations(Workers)
Symmetry == Permutations(Workers) \cup Permutations(Arms)
=============================================================================
