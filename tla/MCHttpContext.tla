----------------------------- MODULE MCHttpContext -----------------------------
(* Instances of HttpContext for TLC.                                       *)
EXTENDS HttpContext, TLC
CONSTANTS s1, s2
Symmetry == Permutations(Sockets)
=============================================================================
