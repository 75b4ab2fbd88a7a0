------------------------------ MODULE Library ------------------------------
(***************************************************************************)
(* The library's copy of Kodi's movies and the two-way synchronisation of  *)
(* watched marks with Trakt (library/refresh.go, library/trakt.go, the     *)
(* watcher of library/library.go and Kodi's notifications in               *)
(* api/maintenance.go), for one movie that stays in the library.           *)
(*                                                                         *)
(* Updates are planned by flags (Pending) and kept apart by flags          *)
(* (Running).  A watcher starts, every second, the first planned update    *)
(* when none is running.  RefreshMovies copies Kodi's movies into          *)
(* l.Movies.  RefreshTrakt compares the copy with Trakt's history and      *)
(* corrects whichever side its memory of earlier runs says is behind.      *)
(* Shows follow the same plan with their own flags and are left out; so is *)
(* the start of the program: initialized is true.                          *)
(*                                                                         *)
(* The flags are plain booleans: every update tests them in one step and   *)
(* sets its own in a later one, so that two of them can pass each other's  *)
(* test.  Only the part of RefreshTrakt for the watched marks is locked    *)
(* against itself (Mu.Trakt).  Kodi can refuse a mark, and the copy has it *)
(* then all the same.  What is kept in the cache expires: the activities   *)
(* and the memories of marks after 30 days, Trakt's list after 7.          *)
(*                                                                         *)
(* 'accident' records the three events after which nobody plans an update  *)
(* that is needed: two updates of the copy overlap, Kodi refuses a mark,   *)
(* or fails to deliver the list an update has asked for.  It is over when  *)
(* the copy agrees with Kodi again and no update is under way.             *)
(*                                                                         *)
(* With TraktSyncEnabled FALSE ListCatchesUp does not hold at all: the     *)
(* tick for Trakt leaves a plan that is turned down every second and keeps *)
(* its place before all others.                                            *)
(***************************************************************************)
EXTENDS Naturals

CONSTANTS
    Goroutines,                 \* they run Refresh, RefreshMovies or RefreshTrakt
    LibrarySyncPlaybackEnabled, \* config: refresh while Kodi plays
    TraktSyncEnabled,           \* config: there is a Trakt account and it is to be synchronised
    TraktSyncPlaybackEnabled,   \* config: sync with Trakt while Kodi plays
    TraktSyncWatchedBack,       \* config: send Kodi's marks to Trakt
    MaxEvents,                  \* bound: changes and commands of the user
    None                        \* no entry in a map, no answer

ASSUME LibraryAssumption ==
    /\ {LibrarySyncPlaybackEnabled, TraktSyncEnabled, TraktSyncPlaybackEnabled,
        TraktSyncWatchedBack} \subseteq BOOLEAN
    /\ MaxEvents \in Nat
    /\ None \notin BOOLEAN

VARIABLES
    kodi,           \* the movie is watched in Kodi
    list,           \* the movie is watched in l.Movies
    trakt,          \* the movie is in Trakt's history
    others,         \* other movies are in Trakt's history
    news,           \* Movies.WatchedAt is after the stored activities
    cached,         \* trakt.movies.watched: whether the movie is in it, "old" if watched again since
    lastPlaycount,  \* the movie has an entry: the sync has set it as watched in Kodi
    syncPlaycount,  \* the mark last sent to Trakt, None if there is none
    initialized,    \* IsTraktInitialized
    kodiUpdated,    \* isKodiUpdated
    notice,         \* Kodi has announced a play count that has not been handled
    playing,        \* Kodi plays
    pending, running,   \* the flags that are set
    refresh,        \* per goroutine: where it is, what Kodi answered, whether it runs Refresh
    sync,           \* per goroutine: where it is and what it has read
    cleared,        \* the user has unmarked the movie, on either side
    events,
    accident        \* something went wrong that nobody corrects, and has not been made good

library == <<list, refresh>>
flags   == <<pending, running>>
memory  == <<cached, lastPlaycount, syncPlaycount>>
marks   == <<kodi, trakt, news, notice>>
marked  == <<initialized, kodiUpdated>>
user    == <<others, playing, cleared, events>>
libraryVars    == <<library, flags, memory, marks, marked, user, sync, accident>>

Away == [at |-> "away", got |-> None, overall |-> FALSE]
\* fresh: no change on Trakt since the run has asked for the activities.
NoSync == [at |-> "away", news |-> FALSE, fresh |-> FALSE, previous |-> "none", current |-> FALSE,
           send |-> None]

LibraryTypeOK ==
    /\ {kodi, list, trakt, others, news, lastPlaycount, initialized, kodiUpdated,
        notice, playing, cleared, accident} \subseteq BOOLEAN
    /\ cached \in {"none", "out", "in", "old"}
    /\ syncPlaycount \in BOOLEAN \cup {None}
    /\ pending \subseteq {"trakt", "movies", "overall"}
    /\ running \subseteq {"trakt", "movies", "overall", "kodi"}
    /\ refresh \in [Goroutines -> [at : {"away", "entered", "tested", "fetching", "storing"},
                                   got : BOOLEAN \cup {None}, overall : BOOLEAN]]
    /\ sync \in [Goroutines ->
                   [at : {"away", "tested", "activities", "locking", "watched", "diff", "compare",
                          "send", "posting", "done", "failed"},
                    news : BOOLEAN, fresh : BOOLEAN, previous : {"none", "out", "in", "old"},
                    current : BOOLEAN, send : BOOLEAN \cup {None}]]
    /\ events \in 0..MaxEvents

\* The first update has copied the list; Trakt's history may hold anything.
LibraryInit ==
    /\ kodi \in BOOLEAN /\ list = kodi
    /\ trakt \in BOOLEAN /\ others \in BOOLEAN /\ news = TRUE
    /\ cached = "none" /\ lastPlaycount = FALSE /\ syncPlaycount = None
    /\ initialized = FALSE /\ kodiUpdated = FALSE /\ notice = FALSE /\ playing = FALSE
    /\ pending = {} /\ running = {}
    /\ refresh = [r \in Goroutines |-> Away] /\ sync = [s \in Goroutines |-> NoSync]
    /\ cleared = FALSE /\ accident = FALSE /\ events = 0

Free(g) == refresh[g].at = "away" /\ sync[g].at = "away"

(***************************************************************************)
(* RefreshMovies, alone or inside Refresh.                                 *)
(***************************************************************************)
MayRefresh ==
    /\ running \cap {"movies", "kodi"} = {}
    /\ LibrarySyncPlaybackEnabled \/ ~playing

\* RefreshMovies passes its tests and goes on, or returns at once.
RefreshMovies(r) ==
    /\ Free(r)
    /\ refresh' = IF MayRefresh THEN [refresh EXCEPT ![r].at = "tested"] ELSE refresh
    /\ UNCHANGED <<list, flags, memory, marks, marked, sync>>

\* Refresh looks for a sync first.
Refresh(r) ==
    /\ Free(r) /\ "trakt" \notin running
    /\ refresh' = [refresh EXCEPT ![r].at = "entered"]
    /\ UNCHANGED <<list, flags, memory, marks, marked, sync>>

\* It drops the plan before RefreshMovies may turn it down.
SetOverall(r) ==
    /\ refresh[r].at = "entered"
    /\ pending' = pending \ {"overall"}
    /\ IF MayRefresh
       THEN /\ refresh' = [refresh EXCEPT ![r] = [@ EXCEPT !.at = "tested", !.overall = TRUE]]
            /\ running' = running \cup {"overall"}
       ELSE /\ refresh' = [refresh EXCEPT ![r] = Away]
            /\ UNCHANGED running
    /\ UNCHANGED <<list, memory, marks, marked, user, sync>>

SetRunning(r) ==
    /\ refresh[r].at = "tested"
    /\ refresh' = [refresh EXCEPT ![r].at = "fetching"]
    /\ pending' = pending \ {"movies"}
    /\ running' = running \cup {"movies"}
    /\ UNCHANGED <<list, memory, marks, marked, user, sync>>

Fetch(r) ==
    /\ refresh[r].at = "fetching"
    /\ refresh' = [refresh EXCEPT ![r] = [@ EXCEPT !.at = "storing", !.got = kodi]]
    /\ UNCHANGED <<list, flags, memory, marks, marked, user, sync>>

\* Mutant: the plan is dropped when the list is there.
ReturnDone(r) ==
    /\ refresh' = [refresh EXCEPT ![r] = Away]
    /\ running' = running \ ({"movies"} \cup IF refresh[r].overall THEN {"overall"} ELSE {})
    /\ pending' = pending \ {"movies"}
    /\ UNCHANGED <<memory, marks, marked, user, sync>>

Return(r) ==
    /\ refresh' = [refresh EXCEPT ![r] = Away]
    /\ running' = running \ ({"movies"} \cup IF refresh[r].overall THEN {"overall"} ELSE {})
    /\ UNCHANGED <<pending, memory, marks, marked, user, sync>>

FetchFails(r) == refresh[r].at = "fetching" /\ Return(r) /\ UNCHANGED list

Store(r) ==
    /\ refresh[r].at = "storing"
    /\ list' = refresh[r].got
    /\ Return(r)

(***************************************************************************)
(* RefreshTrakt, the part for the watched movies.                          *)
(***************************************************************************)
Goes(s, to) == sync' = [sync EXCEPT ![s].at = to]
Returns(s)  == sync' = [sync EXCEPT ![s] = NoSync] /\ running' = running \ {"trakt"} /\ UNCHANGED pending

\* A run that is turned down leaves its plan standing, and the watcher comes back to it.
RefreshTrakt(s) ==
    /\ Free(s)
    /\ IF \/ ~TraktSyncEnabled
          \/ playing /\ ~TraktSyncPlaybackEnabled
          \/ running \cap {"trakt", "overall"} # {}
       THEN UNCHANGED sync
       ELSE Goes(s, "tested")
    /\ UNCHANGED flags

SetTrakt(s) ==
    /\ sync[s].at = "tested"
    /\ pending' = pending \ {"trakt"}
    /\ running' = running \cup {"trakt"}
    /\ Goes(s, "activities")
    /\ UNCHANGED <<library, memory, marks, marked, user>>

\* The activities of Trakt are compared with the stored ones.
Activities(s) ==
    /\ sync[s].at = "activities"
    /\ IF news \/ ~initialized \/ kodiUpdated
       THEN /\ sync' = [sync EXCEPT ![s] = [@ EXCEPT !.at = "locking", !.news = news, !.fresh = TRUE]]
            /\ initialized' = TRUE /\ kodiUpdated' = FALSE
            /\ UNCHANGED flags
       ELSE Returns(s) /\ UNCHANGED marked
    /\ UNCHANGED <<library, memory, marks, user>>

ActivitiesFail(s) ==
    /\ sync[s].at = "activities"
    /\ Returns(s)
    /\ UNCHANGED <<library, memory, marks, marked, user>>

\* Mu.Trakt is held for the watched movies.
Inside(s) == sync[s].at \in {"watched", "diff", "compare", "send", "posting"}

LockTrakt(s) ==
    /\ sync[s].at = "locking" /\ \A t \in Goroutines : ~Inside(t)
    /\ running' = running \cup {"movies"}
    /\ Goes(s, "watched")
    /\ UNCHANGED <<library, pending, memory, marks, marked, user>>

Leaves(s, to) ==
    /\ sync' = [sync EXCEPT ![s] = [NoSync EXCEPT !.at = to, !.fresh = sync[s].fresh]]
    /\ running' = running \ {"movies"} /\ UNCHANGED pending

\* previous is the cached list, current is fetched when there is news or no cached list.
Watched(s) ==
    /\ sync[s].at = "watched"
    /\ LET asks    == sync[s].news \/ cached = "none"
           current == IF asks THEN trakt ELSE cached # "out"
       IN /\ IF ~current /\ ~others
             THEN Leaves(s, "done")
             ELSE /\ sync' = [sync EXCEPT ![s] = [@ EXCEPT !.at = "diff", !.news = FALSE,
                                                           !.previous = cached, !.current = current]]
                  /\ UNCHANGED flags
          /\ cached' = IF asks THEN (IF trakt THEN "in" ELSE "out") ELSE cached
    /\ UNCHANGED <<library, lastPlaycount, syncPlaycount, marks, marked, user>>

WatchedFails(s) ==
    /\ sync[s].at = "watched" /\ (sync[s].news \/ cached = "none")
    /\ Leaves(s, "failed")
    /\ UNCHANGED <<library, memory, marks, marked, user>>

\* Mutants: the date is compared with !Before; the whole history is taken for the difference.
NewerOrSame(previous, current) == current
NotThere(previous, current) == ~current

\* The movie is in the current list and not, or with an older date, in the previous one.
Newer(previous, current) == current /\ previous # "in"
\* It is in the previous list only.
Gone(previous, current) == previous \in {"in", "old"} /\ ~current

\* updateMovieWatched changes the copy and then Kodi, which announces it.  Kodi's refusal is not
\* looked at.  No other update's step can tell the two changes from one.
SetInKodi(watched) ==
    /\ list' = watched
    /\ \/ kodi' = watched /\ notice' = TRUE
       \/ UNCHANGED <<kodi, notice>>

ApplyDiff(s) ==
    /\ sync[s].at = "diff"
    /\ CASE Newer(sync[s].previous, sync[s].current) -> SetInKodi(TRUE)
         [] Gone(sync[s].previous, sync[s].current) /\ list -> SetInKodi(FALSE)
         [] OTHER -> UNCHANGED <<kodi, list, notice>>
    /\ sync' = [sync EXCEPT ![s] = [@ EXCEPT !.at = "compare", !.previous = "none"]]
    /\ UNCHANGED <<refresh, flags, memory, trakt, news, marked, user>>

\* What Compare does to Kodi, and what it finds to send to Trakt.
Restores(s) == sync[s].current /\ ~list /\ ~lastPlaycount
Seen(s)     == list \/ Restores(s)
Differs(s)  == sync[s].current # Seen(s) /\ syncPlaycount # Seen(s)

Compare(s) ==
    /\ sync[s].at = "compare"
    /\ IF Restores(s) THEN SetInKodi(TRUE) /\ lastPlaycount' = TRUE
       ELSE UNCHANGED <<kodi, list, notice, lastPlaycount>>
    /\ IF TraktSyncWatchedBack /\ Differs(s)
       THEN sync' = [sync EXCEPT ![s] = [@ EXCEPT !.at = "send", !.current = FALSE, !.send = Seen(s)]]
            /\ UNCHANGED flags
       ELSE Leaves(s, "done")
    /\ UNCHANGED <<refresh, cached, syncPlaycount, trakt, news, marked, user>>

\* Every run that has asked for the activities has old ones when Trakt's history changes.
Outdated(runs) == [s \in Goroutines |-> [runs[s] EXCEPT !.fresh = FALSE]]

\* SetMultipleWatched drops the cached list before it posts.
DropCached(s) ==
    /\ sync[s].at = "send"
    /\ cached' = "none"
    /\ Goes(s, "posting")
    /\ UNCHANGED <<library, flags, lastPlaycount, syncPlaycount, marks, marked, user>>

Send(s) ==
    /\ sync[s].at = "posting"
    /\ trakt' = sync[s].send /\ news' = TRUE
    /\ syncPlaycount' = sync[s].send
    /\ lastPlaycount' = (lastPlaycount /\ sync[s].send)
    /\ sync' = [Outdated(sync) EXCEPT ![s] = [NoSync EXCEPT !.at = "done"]]
    /\ running' = running \ {"movies"}
    /\ UNCHANGED <<library, pending, cached, kodi, notice, marked, user>>

SendFails(s) ==
    /\ sync[s].at = "posting"
    /\ Leaves(s, "done")
    /\ UNCHANGED <<library, memory, marks, marked, user>>

\* The activities that the run has read are stored at its end, unless a part of it failed.
StoreActivities(s) ==
    /\ sync[s].at = "done"
    /\ news' = ~sync[s].fresh
    /\ Returns(s)
    /\ UNCHANGED <<library, memory, kodi, trakt, notice, marked, user>>

SyncFailed(s) ==
    /\ sync[s].at \in {"done", "failed"}
    /\ Returns(s)
    /\ UNCHANGED <<library, memory, marks, marked, user>>

(***************************************************************************)
(* The watcher, the tickers, Kodi's notifications.                         *)
(***************************************************************************)
WatchTrakt ==
    /\ running = {} /\ "trakt" \in pending
    /\ \E s \in Goroutines : RefreshTrakt(s)
    /\ UNCHANGED <<library, memory, marks, marked, user>>

WatchMovies ==
    /\ running = {} /\ "trakt" \notin pending /\ "movies" \in pending
    /\ \E r \in Goroutines : RefreshMovies(r)
    /\ UNCHANGED user

WatchOverall ==
    /\ running = {} /\ pending = {"overall"}
    /\ \E r \in Goroutines : Refresh(r)
    /\ UNCHANGED user

\* The ticker counts minutes: a run is over before the next tick.
PlanTraktUpdate ==
    /\ \A s \in Goroutines : sync[s].at = "away"
    /\ "trakt" \notin pending
    /\ pending' = pending \cup {"trakt"}
    /\ UNCHANGED <<library, running, memory, marks, marked, user, sync>>

\* VideoLibrary.OnUpdate with a play count, and RefreshMovie.
OnUpdate ==
    /\ notice /\ notice' = FALSE
    /\ kodiUpdated' = TRUE
    /\ pending' = pending \cup {"movies"}
    /\ UNCHANGED <<library, running, memory, kodi, trakt, news, initialized, user, sync>>

MarkKodiRefresh ==
    /\ running' = running \cup {"kodi"}
    /\ UNCHANGED <<library, pending, memory, marks, marked, sync, others, playing, cleared>>

RefreshOnScan ==
    /\ "kodi" \in running
    /\ pending' = pending \cup {"overall"}
    /\ running' = running \ {"kodi"}
    /\ UNCHANGED <<library, memory, marks, marked, user, sync>>

\* Days pass: an entry of the cache is not found any more.
Expire ==
    /\ \/ ~news /\ news' = TRUE /\ UNCHANGED memory
       \/ /\ cached # "none" /\ cached' = "none"
          /\ UNCHANGED <<news, lastPlaycount, syncPlaycount>>
       \/ /\ lastPlaycount /\ lastPlaycount' = FALSE
          /\ UNCHANGED <<news, cached, syncPlaycount>>
       \/ /\ syncPlaycount # None /\ syncPlaycount' = None
          /\ UNCHANGED <<news, cached, lastPlaycount>>
    /\ UNCHANGED <<library, flags, kodi, trakt, notice, marked, user, sync>>

(***************************************************************************)
(* The user.                                                               *)
(***************************************************************************)
MarkInKodi(watched) ==
    /\ kodi # watched
    /\ kodi' = watched /\ notice' = TRUE
    /\ cleared' = (cleared \/ ~watched)
    /\ UNCHANGED <<library, flags, memory, trakt, news, marked, others, playing, sync>>

\* Watching a movie again on Trakt makes the cached entry old.
MarkOnTrakt(watched) ==
    /\ watched \/ trakt
    /\ trakt' = watched /\ news' = TRUE
    /\ cached' = IF watched /\ cached = "in" THEN "old" ELSE cached
    /\ cleared' = (cleared \/ ~watched)
    /\ sync' = Outdated(sync)
    /\ UNCHANGED <<library, flags, lastPlaycount, syncPlaycount, kodi, notice, marked, others,
                   playing>>

\* The page of Trakt's history fetches the list when none is cached.
TraktHistoryMovies ==
    /\ cached = "none" /\ cached' = IF trakt THEN "in" ELSE "out"
    /\ UNCHANGED <<library, flags, lastPlaycount, syncPlaycount, marks, marked, others, playing,
                   cleared, sync>>

\* UpdateTrakt and UpdateLibrary of api/library.go.
UpdateTrakt ==
    /\ initialized' = FALSE
    /\ \E s \in Goroutines : RefreshTrakt(s)
    /\ UNCHANGED <<library, memory, marks, kodiUpdated, others, playing, cleared>>

UpdateLibrary == (\E r \in Goroutines : Refresh(r)) /\ UNCHANGED <<others, playing, cleared>>

Play ==
    /\ ~playing /\ playing' = TRUE
    /\ UNCHANGED <<library, flags, memory, marks, marked, others, cleared, sync>>

Stop ==
    /\ playing /\ playing' = FALSE
    /\ UNCHANGED <<library, flags, memory, marks, marked, others, cleared, events, sync>>

User ==
    /\ events < MaxEvents /\ events' = events + 1
    /\ \/ \E watched \in BOOLEAN : MarkInKodi(watched) \/ MarkOnTrakt(watched)
       \/ TraktHistoryMovies \/ UpdateTrakt \/ UpdateLibrary \/ Play \/ MarkKodiRefresh

SyncStep(s) ==
    \/ SetTrakt(s) \/ Activities(s) \/ ActivitiesFail(s) \/ LockTrakt(s) \/ Watched(s) \/ WatchedFails(s)
    \/ ApplyDiff(s) \/ Compare(s) \/ DropCached(s) \/ Send(s) \/ SendFails(s) \/ StoreActivities(s) \/ SyncFailed(s)

RefreshStep(r) == SetOverall(r) \/ SetRunning(r) \/ Fetch(r) \/ FetchFails(r) \/ Store(r)

(***************************************************************************)
(* The accidents.                                                          *)
(***************************************************************************)
Reading(r) == refresh[r].at \in {"fetching", "storing"}
Writing(s) == sync[s].at \in {"diff", "compare", "send", "posting"}

\* Two updates of the copy are under way.
Overlap ==
    \E r \in Goroutines : Reading(r) /\ \/ \E q \in Goroutines \ {r} : Reading(q)
                                        \/ \E s \in Goroutines : Writing(s)

\* Kodi refuses a mark, and the copy is left ahead of it.
Refused ==
    /\ list' # list /\ list' # kodi'
    /\ \E s \in Goroutines : sync[s].at \in {"diff", "compare"} /\ sync'[s] # sync[s]

\* A fetch of Kodi's movies fails.
Lost == \E r \in Goroutines : refresh[r].at = "fetching" /\ refresh'[r].at = "away"

\* The copy and what the cache holds agree with Kodi and Trakt, and no update is under way.
Agree ==
    /\ list = kodi
    /\ lastPlaycount => kodi
    /\ cached \in {"in", "old"} => trakt
    /\ (\A r \in Goroutines : ~Reading(r)) /\ (\A s \in Goroutines : ~Writing(s))

Tracked(step) == step /\ accident' = (Overlap' \/ Refused \/ Lost \/ (accident /\ ~Agree'))

LibraryNext ==
    \/ \E g \in Goroutines : Tracked(RefreshStep(g) \/ SyncStep(g))
    \/ Tracked(WatchTrakt) \/ Tracked(WatchMovies) \/ Tracked(WatchOverall)
    \/ Tracked(PlanTraktUpdate) \/ Tracked(OnUpdate) \/ Tracked(RefreshOnScan)
    \/ Tracked(Expire) \/ Tracked(Stop) \/ Tracked(User)

(***************************************************************************)
(* The tickers go on until the program ends, and between two ticks for     *)
(* Trakt the watcher, which ticks every second, comes to every other plan; *)
(* the requests of a run are answered or fail, Kodi's notifications are    *)
(* delivered, a scan and a playback end.                                   *)
(***************************************************************************)
LibraryFairness ==
    /\ \A g \in Goroutines : WF_libraryVars(Tracked(RefreshStep(g) \/ SyncStep(g)))
    /\ WF_libraryVars(Tracked(PlanTraktUpdate)) /\ WF_libraryVars(Tracked(WatchTrakt))
    /\ SF_libraryVars(Tracked(WatchMovies)) /\ SF_libraryVars(Tracked(WatchOverall))
    /\ WF_libraryVars(Tracked(OnUpdate)) /\ WF_libraryVars(Tracked(RefreshOnScan)) /\ WF_libraryVars(Tracked(Stop))

LibrarySpec == LibraryInit /\ [][LibraryNext]_libraryVars /\ LibraryFairness

(***************************************************************************)
(* Properties.                                                             *)
(***************************************************************************)

\* The synchronisation never unmarks a movie by itself: what is watched in Kodi or on Trakt stays
\* watched there as long as the user has unmarked it nowhere (refreshTraktMoviesWatched decides by
\* a copy of Kodi's marks, a cached history and the memory of two earlier directions, any of which
\* may have failed to be written or have expired).  After an accident it does: the memory may say
\* that the movie has been set in Kodi when it is not, or the copy be an old one.
MarksAreKept ==
    [][~cleared' /\ ~accident => (kodi => kodi') /\ (trakt => trakt')]_libraryVars

\* When the user stops, l.Movies comes to agree with Kodi and stays so, or an accident is not made
\* good: no plan is lost between the notifications, the flags and the updates that test and set
\* them (RefreshMovies clears Pending before it asks).
ListCatchesUp == <>[](list = kodi \/ accident)

\* Between two times that an entry of the cache expires, and with Trakt taking what is sent.
QuietDays == <>[][~Expire /\ \A s \in Goroutines : ~SendFails(s)]_libraryVars
Quiet == ~notice /\ \A s \in Goroutines : sync[s].at # "posting"

\* When the user stops, the synchronisation stops writing: the two directions and the announcements
\* that Kodi sends for the marks the sync has set itself do not keep each other going.  It does not
\* stop for ever: when the stored activities and the cached history have expired, every 30 days
\* without news, the whole history is new and is set and announced once more.
SyncSettles == QuietDays => <>[]Quiet
============================================================================
