--------------------------- MODULE MCJwtSessions ---------------------------
(* Sessions and tokens with two processes and two requests at once.        *)
EXTENDS JwtSessions, TLC

CONSTANTS p1, p2, r1, r2
Symmetry == Permutations({p1, p2}) \cup Permutations({r1, r2})
=============================================================================
