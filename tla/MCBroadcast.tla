---------------------------- MODULE MCBroadcast -----------------------------
(* Broadcast with the alerts broadcaster's shape: one writer that closes.  *)
EXTENDS Broadcast
CONSTANTS w1, r1, r2, v1, v2, none

MCWriters == {w1}
MCReceivers == {r1, r2}
MCValues == {v1, v2}
=============================================================================
