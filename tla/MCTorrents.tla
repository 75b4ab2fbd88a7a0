----------------------------- MODULE MCTorrents -----------------------------
EXTENDS Torrents, TLC

Symmetry == Permutations(Players)

\* After an accident to the only torrent the properties say nothing.
NoAccident == excused # Hashes
============================================================================
