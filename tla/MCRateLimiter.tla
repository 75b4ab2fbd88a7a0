--------------------------- MODULE MCRateLimiter ----------------------------
(* Three calls of one client; they are interchangeable, but liveness is    *)
(* checked, so there is no symmetry.                                       *)
EXTENDS RateLimiter
CONSTANTS g1, g2, g3, nobody

MCCalls == {g1, g2, g3}
MCRetryAfter == {1}
=============================================================================
