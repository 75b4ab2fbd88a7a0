----------------------------- MODULE MCPlayback -----------------------------
(* Two ticks in flight are enough for a stale one; the channel of capacity *)
(* 5 is shrunk so that it can be full.                                     *)
EXTENDS Playback

mcMaxTicks == 2
mcFinishedCap == 1
=============================================================================
