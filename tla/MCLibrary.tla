----------------------------- MODULE MCLibrary -----------------------------
EXTENDS Library
CONSTANTS g1, g2
\* Any two updates at once: two of the copy, one and a sync, or two syncs.
MCGoroutines == {g1, g2}
============================================================================
