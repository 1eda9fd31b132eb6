---------------------------- MODULE MCPacScript ----------------------------
(* PacScript on a small instance: threads and URLs are interchangeable.      *)
EXTENDS PacScript, TLC

Symmetry == Permutations(Thread) \cup Permutations(Url)
=============================================================================
