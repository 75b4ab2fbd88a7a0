-------------------------- MODULE MCProviderSearch --------------------------
(* Two providers.  a and c are one torrent: a magnet with more seeds from  *)
(* the first, a file of better quality from the second.  b has their hash  *)
(* but is of a private tracker.                                            *)
EXTENDS ProviderSearch, TLC

CONSTANTS p1, p2, a, b, c

mcProviders == {p1, p2}
mcLinks == {a, b, c}
mcProviderOf == (a :> p1) @@ (b :> p1) @@ (c :> p2)
mcHashOf == (a :> 1) @@ (b :> 1) @@ (c :> 1)
mcMagnets == {a}
mcKnown == {a}
mcQuality == (a :> 1) @@ (b :> 1) @@ (c :> 2)
mcSeeds == (a :> 3) @@ (b :> 2) @@ (c :> 1)
mcPrivate == {b}
=============================================================================
