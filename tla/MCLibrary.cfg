SPECIFICATION LibrarySpec
CONSTANTS
    g1 = g1
    g2 = g2
    Goroutines <- MCGoroutines
    LibrarySyncPlaybackEnabled = FALSE
    TraktSyncEnabled = TRUE
    TraktSyncPlaybackEnabled = FALSE
    TraktSyncWatchedBack = TRUE
    MaxEvents = 1
    None = None
PROPERTIES MarksAreKept ListCatchesUp SyncSettles
