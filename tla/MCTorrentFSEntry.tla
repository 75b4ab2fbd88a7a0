-------------------------- MODULE MCTorrentFSEntry --------------------------
(* Two requests on one torrent: the least that lets Drop meet a map that   *)
(* changes, and a reader opened while another one is closed.               *)
EXTENDS TorrentFSEntry
CONSTANTS r1, r2

mcReaders == {r1, r2}
=============================================================================
