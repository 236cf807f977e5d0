--------------------------- MODULE MCLeaderboards ---------------------------
(* Small instances of Leaderboards; sessions are interchangeable.           *)
EXTENDS Leaderboards, TLC

Symmetry == Permutations(Sessions)
=============================================================================
