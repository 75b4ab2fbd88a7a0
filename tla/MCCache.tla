------------------------------ MODULE MCCache ------------------------------
(* Two callers of the cache, one goroutine that deletes for them, a list   *)
(* of trakt that is changed before or after its key is deleted, and a menu. *)
EXTENDS Cache, TLC

CONSTANTS t1, t2, d1, watched, menu
=============================================================================
