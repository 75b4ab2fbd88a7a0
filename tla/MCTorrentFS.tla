---------------------------- MODULE MCTorrentFS -----------------------------
(* A torrent of three pieces of two bytes.  The file starts in the middle   *)
(* of the second and ends with the last.  Two requests, each of the whole   *)
(* file in one Read.                                                        *)
EXTENDS TorrentFS, TLC
CONSTANTS r1, r2

mcReaders == {r1, r2}
mcStarts == {0}
mcBuffer == {1}
mcSymmetry == Permutations(mcReaders)
=============================================================================
