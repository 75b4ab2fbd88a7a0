# Verification of elementum

Elementum is the daemon behind the Kodi add-on of the same name. Kodi asks it
over HTTP for lists and for something to play; it searches provider add-ons for
torrents, downloads the chosen one through libtorrent in the order in which it
is watched, and serves the file back to Kodi while it arrives. It keeps the
library, the watched state and the lists of Trakt in step, and caches what the
metadata services answer.

The modules of this directory model the parts of it in which goroutines meet:
what each component promises, what can go wrong between its steps, and which of
it is proved for every size. They are translated from the Go sources; the map
in `PROJECT.json` names the lines of every definition.

The Kodi side, libtorrent, Trakt and the file system are not code of the
repository: their actions are marked external in the map and are as free as the
code's use of them lets them be.

    tlasany M.tla                          parses a module
    tlc -workers 2 -config X.cfg MCM       model-checks a configuration
    tlapm MProofs.tla                      checks the proofs of a module

## 1. The system

| component | source | state | operations | meets others through |
| --- | --- | --- | --- | --- |
| Service, session | `bittorrent/service.go`, `queue.go` | libtorrent session, the queue of torrents, players, settings | AddTorrent, RemoveTorrent, loadTorrentFiles, StopNextFiles, reconfigure, alertsConsumer | alerts (broadcaster), torrents, players, `.torrent` files and BTItems on disk |
| Download manager | `bittorrent/service.go` (onDownloadProgress), `util/shutil.go` | the items it watches, the moves under way | look for completed torrents, remove, move, sweep | the queue, Drop, the file system |
| Torrent | `bittorrent/torrent.go` | chosen files, piece priorities, buffering state, readers, events | Watch, Buffer, ticker and finish events, PrioritizePieces, onMetadataReceived, Drop | libtorrent handle, readers, players |
| Player | `bittorrent/player.go`, `api/play.go` | one play request: dialog, chosen file, flags, buffer events | Buffer, processMetadata, dialog loops, playerLoop, Close | its torrent, Kodi, the handler of the request |
| Served files | `bittorrent/torrentfs.go`, `memory_file.go` | entries (readers) with a position, a window, an event for their removal | Open, Seek, Read, Close, consumeAlerts | `t.readers`, the alerts, net/http |
| Broadcaster | `broadcast/broadcast.go` | a linked list of channels | Write, Listen, Close | alerts of the session, buffer events of players |
| Event | `util/event/event.go` | a flag and a channel | C, Set | closers of torrents, players and files |
| Rate limiter | `util/ratelimit.go` | instants of the last grants, slots, cool-down | Call, Try, Wait, CoolDown, ForceWait | the tmdb, trakt and fanart clients |
| Provider search | `providers/search.go`, `xbmc.go` | callbacks, links, resolvers, progress | call, CallbackHandler, Search, processLinks | Kodi add-ons, TorrentFile.Resolve |
| Cache | `database/bolt.go`, `cache/dbstore.go` | a bolt bucket, an RWMutex, expiries | get, set, delete, cleanup, clear, compress | every handler, the clients, maintenance |
| Databases on disk | `database/bolt.go`, `storm.go` | the database, its backup, the compressed copy, bolt's flock | open, commit, compress, backup, restore | the file system, other instances of the daemon |
| Library | `library/library.go`, `refresh.go` | the copy of Kodi's library, flags of planned and running updates | watcher, Refresh, RefreshMovies, MarkKodiRefresh | Kodi over JSON-RPC and its notifications |
| Trakt synchronisation | `library/trakt.go`, `trakt/*.go` | cached history, last activities, memories of what was set and sent | RefreshTrakt, compare and correct both sides | Trakt, the cache, the copy of the library |
| Metadata clients | `tmdb`, `tvdb`, `fanart` | none but their caches | request, convert | rate limiter, cache |
| HTTP API | `api/*.go` | none | more than two hundred routes | all of the above |
| Process | `main.go`, `lockfile`, `exit` | lock file | start, replace an old instance, shut down | the other process, the databases |

What is hard in it:

* **Concurrency without locks.** Most flags of `Player`, `Torrent` and `Event`
  are plain fields tested in one goroutine and set in another; channels are
  unbuffered or have a reader that may have gone.
* **Order.** Broadcast events are lost to whoever listens later; priorities
  computed first may reach libtorrent last; a key is deleted before or after
  what it caches has changed.
* **Time.** Provider time-outs, resolvers that hang, rate limits, retries,
  expiry of entries.
* **Failure.** Answers that are late or never come, requests refused with 403
  and 429, compressions that fail half way, a torrent that is removed while its
  file is read, a process that ends between removing a file and renaming the
  next one over it.
* **Work left to goroutines.** RemoveTorrent answers while Drop goes on,
  AddTorrent while onMetadataReceived still writes; the next call for the same
  torrent meets both.
* **Limits.** Slots of the limiter, the memory of a torrent without disk
  storage, a read at the end of a piece.

What makes each modelled component correct, and is checked below:

* the broadcaster gives each listener every value once and in order;
* the limiter keeps the rate, and its slots fill up with calls that wait for
  each other only by a race for the retries;
* a play request is answered, is played only when it is buffered, is not torn
  down while it plays and leaves nothing behind when it is given up;
* a search ends, loses nothing that came in time and merges duplicates to the
  best of them;
* a read of a served file never returns a hole, what it waits for has been asked
  for, and it is woken when its torrent is dropped;
* the cache deletes no fresh entry, a change that deletes a list is not undone by
  an older one, and each call returns, but for what section 3 lists;
* the list of torrents, libtorrent's session and the files that bring torrents
  back at the next start agree;
* a completed file is lost only when somebody wanted it deleted;
* what was committed to the database survives the end of any process at any
  step, one instance of the daemon runs, and one has the database open;
* the copy of Kodi's library catches up with Kodi, and the synchronisation with
  Trakt takes back no mark and comes to rest.

`PROJECT.json` lists every component with its status, and under `hazards` the
places in the code where this is hard to test.

## 2. The modules

### Broadcast, BroadcastLog, BroadcastProofs

`Broadcast` is `broadcast/broadcast.go` step by step. A value written fills the
channel of the last node and links it to a new one; a receiver *takes* the
message out of its node, *puts it back* for the others, moves on and *delivers*.
Each of these is an action, since between the take and the put-back every other
receiver finds the node empty, and Close looks at no lock. `Owner` is the writer
that also closes: the alerts of the session have one
(`service.go`, `onAlertsConsumer`), the buffer events of a player are never
closed.

`BroadcastLog` is the promise of the package comment: a log, and a position of
each listener in it. `ImplementsLog` states that the list of channels implements
it, with the log read off the nodes and the hands of the receivers.
`Playback` is composed with `BroadcastLog` rather than with `Broadcast`: that is
what the refinement is good for.

### RateLimiter, ServicesProofs

`util/ratelimit.go` with its three clients. A goroutine makes one Call; its
function may succeed, be told 404, 429 with or without Retry-After, or 403, in
which case trakt and fanart call their own client again from inside the function
that holds a slot. Time is discrete and an instant is its age, capped at
`Interval`, beyond which `Try` tells no difference; so the clock has no bound.
`granted` is history, and is what the rate is a promise about; `times` is what
the code keeps. `retriesLeft` belongs to the client, and every call reads and
decrements it without a lock: the check (`Forbidden`) and the decrement (`Nest`)
are two steps, and `raced` records that two calls stood between them at once.

### Playback, RequestProofs

One play request with all of its goroutines: the handler (`api/play.go`,
`Player.Buffer`), `processMetadata`, `waitCheckAvailableSpace`, `playerLoop`,
`bufferDialog`, and `Watch` with its ticker and finish goroutines. The buffer
events are a `BroadcastLog` with two listeners. A goroutine's step ends where
another one can see its effect: at an event, a channel, a shared flag. `late`
records that the event was sent before `Buffer` listened.

`RequestProofs` has the theorems of `Playback`, `ProviderSearch` and
`CompletedMove`. It extends all three, which is why the names in them are
distinct (`SearchNext`, `MoveNext`); each theorem is about one specification.

### ProviderSearch, RequestProofs

A search over provider add-ons: callbacks, posts that come in time, late or
never, collection, a resolver for each link, the progress updater, and merging,
one link a step (`MergeNext`), since a resolver that was given up may still find
the info hash of its link while the loop runs.
`progressUpdate` is unbuffered, so a report is a step of two goroutines. A
goroutine that can run does so before time passes: the code's time-outs are in
seconds, its steps are not.

### Event, TorrentFSEntry, TorrentFSEntryProofs

`Event` has the steps of `Event.C` and `Event.Set` as operators; `TorrentFSEntry`
composes them with the readers of a torrent, each of which has an event
`removed` that three goroutines may set: `Drop`, the goroutine that consumes the
alerts, and the request's own Close. `crashed` is the death of the process from
a channel closed twice, or from a map that is written while `Drop` ranges over
it.

`TorrentFSEntryProofs` proves `SetWakes` and `DiesOnlyInDrop`.

### TorrentFS, TorrentFSProofs

The arithmetic of reads and windows, and the priorities. A reader is a request
with a Seek and reads. `PrioritizePieces` runs in Seek, and in a goroutine of its
own every second and when Kodi tells of a seek, with no lock between the runs;
`runs` has the ones under way. A run reads the windows (`Decide`), compares its
status to the last one and is skipped or stores it (`PrioritizeCompare`), and
calls libtorrent (`PrioritizeSet`); each of the three is a step, in any order
with those of the other runs. Another player of the torrent may buffer
meanwhile, which holds new runs and `PrioritizePiece` up and adds to what
libtorrent is told (`Buffer`). `memory` chooses between storage on disk and in
memory, where libtorrent evicts what no reader is about to read.

### Cache, CacheProofs

The cache database and its RWMutex, in which a waiting writer keeps new readers
out. A transaction of bolt is one step. `remote[k]` counts the changes of what a
fetch of `k` would answer, so an entry is out of date when its value is smaller.
The handlers of `api/trakt.go` change and then delete (`Change`),
`trakt.SetMultipleWatched` deletes and then changes (`Precede`), and the
goroutines that `api/library.go` starts for an item that was added to the library
or removed from it change and delete nothing (`SyncItem`). `told` is what a fetch
would have answered after the last change of the first two kinds. `CacheCleanup` and `RecreateBucket` use bolt
without the mutex, and a cleanup keeps the bolt that was open when it began.
`Compress` may leave bolt closed (the compression failed) or nil (the reopening
failed); a call that meets nil panics, which gin recovers in a handler and
nothing does elsewhere. `overlapped` and `renewed` are history.

### Torrents, TorrentsProofs

The list of torrents and everything that changes it: requests to play or to
download (`Request`, `AddTorrent`, `GotMetadata`, `MetadataTimeout`), the choice
of files, players that close, the timer of a torrent that waits for its next
file, `StopNextFiles`, the removal by the user and by the download manager, and
`loadTorrentFiles` at the start, which runs while requests are served already.
`obj` has the Torrent objects in the order of their creation: two of them may
be of one torrent, since AddTorrent makes its object before the queue can refuse
it. `RemoveTorrent` is a call that has found an object (`asking`) and answers
later, after a dialog perhaps, and what it leaves to the goroutine of `Drop` is
in `dropping`; what onMetadataReceived leaves to a goroutine is in `saving`.
`Init` is any set of `.torrent` files and items: that is the crash and the
restart.

`excused` is the set of torrents that had an *accident*, for which the code
promises nothing and the properties say nothing: an AddTorrent while the torrent
is in the list or is being removed; Drop, or the manager, deleting the `.torrent`
file while onMetadataReceived has yet to write it; the manager deleting the file
of a torrent that was kept or came again; Clean taking a torrent off the list at
the start. Each is in the code and each really breaks the properties, which is
how they were found.

### CompletedMove, RequestProofs

The files of completed torrents: the download manager removes a torrent, one
goroutine for each file moves it and sweeps the folder it lay in, and users and
players remove and add the torrent meanwhile. A torrent is moved when it is
complete, or paused with whatever it has (`service.go:1342`): then what goes to
the completed folder is `Part` of a file. `wanted` has the torrents whose
removal was with data, `early` those that the manager's own removal deleted.

### Process, ProcessProofs

Instances of the daemon on one machine. The lock file is read, truncated and
written in steps; a second instance kills the first; a process can end between
any two steps, and the machine can lose power. The database is a name linked to
an inode, and bolt's flock is on the inode, so that an instance can hold the lock
of a file that has been replaced. `Compress` gives up the flock, copies, removes
and renames; `CreateBackup` truncates the only backup while it copies;
`RestoreBackup` removes, creates and copies. The content of an inode is the set
of the commits in it.

### Library, ServicesProofs

Kodi's movies, the copy of them, Trakt's history and the cache of it, and the
goroutines between them: the watcher of `library.go`, updates and runs of
RefreshTrakt (any of `Goroutines` runs either), Kodi's notifications and the user
at either end. The module is about one movie that stays in the library; what it
has is the order of the flags `Pending` and `Running`, and the two memories by
which `refreshTraktMoviesWatched` tells a new mark from one it has made itself.

The flags are plain booleans: each update tests them in one step and sets its own
in a later one (`Refresh` and `SetOverall`, `RefreshMovies` and `SetRunning`,
`RefreshTrakt` and `SetTrakt`), so that two updates can pass each other's test;
the part of RefreshTrakt for watched marks has a lock of its own (`LockTrakt`).
`SetInKodi` changes the copy and then Kodi, which may refuse without anybody
noticing. `Expire` takes the stored activities, Trakt's cached list or either
memory away at any time.

`accident` is history: two updates of the copy overlapped, Kodi refused a mark, or
a fetch of Kodi's movies failed. It ends when the copy agrees with Kodi again and
no update is under way.
`ServicesProofs` has the theorems of `RateLimiter` and `Library`, and extends both.

## 3. The runs

Bounds are CONSTANTS given in the `.cfg`, as large as the runs allow and at least
so large that the cases named in the table happen. Where a property has a theorem
(section 5) the theorem has no bounds; a property without one is known for these
bounds only.

| run | what it asks | bounds |
| --- | --- | --- |
| `Broadcast` | `MessageInOnePlace`, `NoSendOnClosed`, `ImplementsLog`, `EveryValueArrives`, `CloseEndsReaders` | two receivers (one holds the message while the other wants it), three writes (a receiver can be behind, level or waiting) |
| `RateLimiter` | `WindowRespected`, `NothingLeftBehind`, `ClogNeedsRace`, `EveryCallReturns` | three calls for two slots, limit 2, interval 2, one retry: the outer calls alone fill the slots, two of them can take the one retry and wait inside `Enter` for ever, and a third waits outside |
| `Playback` | `RedirectOnlyBuffered`, `TornDownOnlyAfterPlayback`, `GivenUpIsDropped`, `EveryRequestAnswered`, `LoopEnds` | one request; ticks in flight and the capacity of `bufferFinished` are bounded so that the channel can be full |
| `ProviderSearch` | `NothingInTimeIsLost`, `MergedIsBest`, `NoReportAfterClose`, `PostsReturn`, `SearchEnds` | two providers and three links of one hash: a magnet and a file that merge across providers, and one of a private tracker that must not; every order of arrival, every resolver late or failing |
| `TorrentFSEntry` | `SetWakes`, `DiesOnlyInDrop`, `DropWakes` | two readers: one in Drop's loop and one that opens or closes meanwhile |
| `TorrentFS` | `NoHoles`, `WindowsFit`, `WaitedForIsAsked` | two readers; pieces of 2 bytes, a file of 3 that starts in the middle of one and ends at the end of the torrent; two runs of the ticker at once, or three runs and open readers together, so that runs of the ticker overtake each other and the run of a Seek. With three pieces a status tells every set of pieces from every other; the sets that it does not (`Gapped`) take four, which only the theorem covers |
| `Cache` | `DeletesOnlyExpired`, `StaleOnlyByOverlap`, `ReturnsUnlessSelfLocked` | two callers, one background deletion, a list that changes once, with or without a deletion, and a menu: every pair of operations overlaps. A change that deletes after one that does not takes two: the theorem covers it |
| `Torrents` | `ListMirrorsSession`, `RestartBringsBack` | one torrent, since torrents meet only in the order of the list; two requests of any kind, two additions (one by the start and one by a request, or one after a removal), two removals at once: a removal that meets another, or an addition; states after an accident to the torrent are not followed |
| `CompletedMove` | `LostOnlyOnRequest` | one torrent that is added twice, so that it comes again while its first move is under way; three files, of which two share a folder and two a name, and either two are chosen |
| `CompletedMoveDeletes` | `ManagerDeletesNothing`, violated | the same |
| `Process` | `NothingForgotten`, `SingleInstance`, `OneWriter` | two instances, two commits (one before and one after a copy), five inodes, which are enough for what can be linked or open at once; the view tells apart what the names and the open files see, not the numbers of inodes |
| `Library` | `MarksAreKept`, `ListCatchesUp`, `SyncSettles` | two goroutines, each of which may run any update, so that any two overlap or pass each other's tests; one change or command of the user; any number of failures, refusals of Kodi and expiries |

Deadlock is checked in `Library`, which never stops; elsewhere the modelled
system may stop: a request ends, a torrent is gone, nobody need call the cache,
every instance has ended.

One run shows a disagreement between the code and what it says of itself.
`CompletedMoveDeletes`: the download manager logs that it removes a completed
torrent "without deleting files after Completed move" (`service.go:1456`) and
then calls `RemoveTorrent` with the flags of a player that closes, so that the
user's settings may delete the files it is about to move.

### Deviations that the models show

The properties of the passing runs are stated so that they hold of the code as
it is, with the cases in which it does less than it says named in them
(`SelfLocked`, `overtaken`, `Gapped`, `Clogged`, `told`, `renewed`, `ch[r] = 2`,
`late`, `excused`, `accident`, `gap`, `swept`, `power`, `together`, `stolen`,
`Displaced`, `early`), instead of being assumed away. Such a case is described by
the model and reached in the run, but no property catches it: the property says
that nothing else goes wrong. The ones a maintainer should know of:

* `fanart.Get` (`fanart.go:121`) tests `retriesLeft` and never decrements it.
  Told 403 each time, one call nests calls until it holds every slot and waits for
  one (`Clogged`, with `Decrements = FALSE`).
* `trakt` decrements it, but tests and decrements without a lock (`trakt.go:618`):
  as many calls as there are slots, all told 403 at once, all take the same
  retry, hold their slots and wait inside `Enter` for another one, and the client
  stands still for good. `ClogNeedsRace` says that it takes this race.
* A silent search starts no updater, so the first resolver that reports its
  progress waits for ever (`search.go:211`), outside of the time-out around it,
  and the search with it; the same when Kodi answers no progress dialog.
  `SearchEnds` is violated with `Silent` or `NoDialog = TRUE`.
* `Event.C` makes its channel without the lock of `Set` (`event.go:29`). A read
  can wait on a channel that nobody closes although the event is set (`ch[r] = 2`).
* Two runs of `PrioritizePieces`, of two seconds or of a second and a Seek, reach
  libtorrent in the order opposite to the one in which they stored
  `lastPrioritization` (`torrent.go:781`); the right priorities are then skipped
  as already set (`overtaken`).
* The status that decides on the skip (`torrent.go:773`) tells the first and the
  last piece, their priorities and the number of the pieces. Two readers whose
  windows leave a gap can want other pieces with the same status: with a window at
  the start of a file of four pieces and another that moves from the second to
  the third, {0, 1, 3} and {0, 2, 3} are both `0:6;3:7;3`. The skip leaves the new
  piece without a priority, and unless its read gives it a deadline nothing asks
  for it until a window moves (`Gapped`). `PrioritizePiece` passes over a piece
  that it has asked for before, although its deadline was cleared since.
* What `api/library.go` adds to a watchlist or collection on Trakt or removes from
  it (lines 59, 108, 157 and 202, through `trakt.go:1099-1132`) deletes no cached
  list: it is served out of date until it expires, or until a change made through
  `api/trakt.go`. `StaleOnlyByOverlap` is about the changes that delete (`told`).
* `GetCachedBytes` calls `Delete` while it holds the mutex for reading
  (`bolt.go:417`), so it waits for itself, and all later users of the cache for
  it (`SelfLocked`).
* Two calls of the limiter may sleep their Retry-After one after the other,
  against the comment at `ratelimit.go:111`; the body of `Player.Close` may run
  twice, against the one at `player.go:499`.
* A process that ends between the `Remove` and the `Rename` of CompressBoltDB
  (`bolt.go:164-168`) takes the database away; the next start creates an empty
  one, and its next compression removes the copy that has the data (`gap`,
  `swept`). A database torn by a power loss is restored from the last backup,
  and loses what came after it.
* The lock file lets two instances in that start together (`lockfile.go:45`),
  and Compress gives up the flock that would keep the second off the database.
* A torrent that is added while it is in the list, or while Drop still removes
  it, has an object that no list has, or is in the list but not in the session
  (`service.go:807`); one whose metadata arrives while it is removed comes back at
  the next start, if onMetadataReceived writes its file after Drop has deleted it
  (`torrent.go:1539`).
* RemoveTorrent reads `t.Name()` in front of its test for nil
  (`service.go:872`): the download manager, which looked the torrent up earlier,
  can end the daemon.
* After each moved file the folder it lay in is removed with everything in it,
  and a file of the same name in the completed folder is overwritten
  (`Displaced` in `CompletedMove`).
* A torrent that RemoveTorrent keeps in the list, because its files go on
  downloading, loses its `.torrent` file and its files to the manager all the
  same (`MoveStart`).
* The flags of the library's updates are tested in one step and set in a later one
  (`refresh.go:61-66` and `:93`, `trakt.go:42-50`), and the sync sets and clears
  `IsMovies` without a test (`trakt.go:209`). Two updates can so overlap: the older
  list can be stored last, and stay; and a sync that finds the movie unmarked in
  an old list sends an unmark of it to Trakt.
* Kodi's refusal of a mark is looked at by nobody (`trakt.go:602`,
  `xbmc.go:370`): the copy is ahead of Kodi with no update planned. After a second
  refusal `lastPlaycount` says that the movie has been set, and the next sync with
  a fresh list takes the difference for an unmark by the user and unmarks the
  movie on Trakt.
* The stored activities expire after 30 days and the cached history after 7
  (`cache/types.go`). With both gone the whole history is new: every watched
  movie is set in Kodi and announced again, and so every 30 quiet days.
  `SyncSettles` is about the days in between (`QuietDays`).
* A fetch of Kodi's movies that fails is not repeated: RefreshMovies has cleared
  its plan before (`refresh.go:107`), and the list stays behind until Kodi notifies
  of something else.
* With `TraktSyncEnabled = FALSE` a planned Trakt update that is turned down stays
  first in the watcher's order, and no other update runs (`library.go:295`):
  `ListCatchesUp` is violated then. The run has the sync enabled.
* A cleanup of the cache, or the deletion of an expired key, that comes after the
  key was set again deletes the new value (`renewed`): `DeletesOnlyExpired` says
  that only such a key loses one.
* The goroutine that closes a player because its torrent was removed, and a second
  player of the same torrent, are not in `Playback`:
  `TornDownOnlyAfterPlayback` and `GivenUpIsDropped` are about one player and the
  two other closers. A provider posts once in `ProviderSearch`; a second post finds
  its callback taken (`xbmc.go:70`).

## 4. Fairness

* Weak fairness of a goroutine's step: the Go scheduler runs what can run.
  Nothing is assumed of a user (who may leave a listener, press Cancel, remove a
  torrent, never call), of a provider (which may never post) or of an API (which
  may answer 403 for ever), and no outcome of a choice is fair.
* `WF(Tick)` in `RateLimiter` and `ProviderSearch`: time passes.
* `WF(Download)` in `Playback`: a piece that libtorrent has been asked for arrives
  at last. Without it no request could be answered.
* `RateLimiter` has no fairness beyond that: `EveryCallReturns` names the state in
  which all slots are held by calls that wait for one (`Clogged`).
* Strong fairness of a caller's steps in `Cache`: sync.RWMutex grants the lock to
  every waiting reader and writer in some time, so one that can take it again and
  again takes it.
* `Library`: weak fairness of the steps of the goroutines, the handlers of
  notifications, the end of a playback and the watcher's tick for Trakt; strong
  fairness of its ticks for updates, which come every second while an update keeps
  them disabled only for as long as it runs. The user, Kodi's answers, failures
  and expiries are not fair.
* `TorrentFS`, `Torrents`, `CompletedMove` and `Process` state safety only.
* The death of the process (`crashed`, `dead`) ends all fairness; the liveness
  properties name it.

## 5. What is proved

TLAPS checks these theorems for every value of the constants under the named
assumptions of the modules (`OwnerAssumption`, `LimitAssumption`,
`BoundAssumption`, `KeyAssumption`, `NoneAssumption`, `NamesAssumption`,
`FilesAssumption`, `InodesAssumption`, `LayoutAssumption`, `TorrentsAssumption`
and so on), which TLC evaluates in the runs. In each, an inductive invariant is shown to hold
initially, to be kept by each action, and to imply the property; TLC had found
each invariant to hold before.

**Broadcast** (`BroadcastProofs`): `TypeCorrect`, `MessagesKept`
(MessageInOnePlace), `NoPanic` (NoSendOnClosed) and `Refinement`
(ImplementsLog), for any receivers, writers and number of writes.
`MessageInOnePlace` alone is not inductive: `IInv` adds that a goroutine holds a
value exactly while it has something to put back or to deliver (`Hands`), that
no receiver is ahead of the writer (`Behind`), that a write in progress has a
node to move to and only the owner closes (`LockRoom`), and for the refinement
that the values a user was given end where its receiver stands (`Position`). Only
writes by the closer itself make `NoSendOnClosed` true; that is
`OwnerAssumption`, and `NoSendOnClosed` fails without it.

**RateLimiter** (`ServicesProofs`): `LimiterTypes`, `RateLimited`
(WindowRespected), `NothingIsLeft` (NothingLeftBehind) and `SlotsGoRound`
(ClogNeedsRace), for any calls, limit, interval, slots and retries. The difficulty is
that ForceWait fills `r.times` up with instants that are no grants, so it is not
the list of the grants. `Covered` says that this only makes the limiter
stricter: counted from the youngest, the k-th grant is at least as old as the
k-th entry, and there are more grants than entries only when `r.times` is full.
For `NothingIsLeft` the elements of `r.parallelChan` are counted as the pairs of a
call and a level of its nesting (`Held`): they are as many as the occupied slots
(`SlotsHeld`), a call that is over has none (`DepthOfStep`), and the mutex and
the flag of the cool-down belong to a call that has yet to release them
(`LockedByCooling`, `FlagOfCooler`). For `SlotsGoRound` the slots of calls that have
nested another one (`Nested`) are counted against the budget: as long as no two
calls raced for it, each of them was paid for with one retry (`BudgetKept`), so
with fewer retries than slots one slot is held by a call that can go on.

**Cache** (`CacheProofs`): `CacheTypes` (with the exclusion of the mutex),
`OnlyExpiredDeleted` (DeletesOnlyExpired) and `StaleIsOverlapped`
(StaleOnlyByOverlap), for any number of goroutines, keys and changes. Out of date
means here: older than the last change whose handler deletes the key (`told`);
the changes that delete nothing may come at any time between. The argument: a
fetch and a change of one key that are both under way have been seen to overlap
(`Overlaps`), so a fetched value that is out of date belongs to an overlapped key
(`FetchedStale`); and between its deletion and its request `SetMultipleWatched`
leaves nothing fresh without an overlap (`PostClean`). Hence either order of
change and deletion is right without an overlap, and neither with one.

**TorrentFSEntry** (`TorrentFSEntryProofs`): `EveryoneIsWoken` (SetWakes) and
`NoDeathBeforeDrop` (DiesOnlyInDrop), for any number of readers. `MadeFirst` says
where each of the three that may set an event stands with respect to the channel
that its waiter holds. Before Drop begins, the request alone sets its event
(`HttpAlone`), so that nothing can be closed twice.

**TorrentFS** (`TorrentFSProofs`): `ReadsHaveNoHoles` (NoHoles),
`WindowsShareMemory` (WindowsFit) and `WaitedIsAsked` (WaitedForIsAsked), for any
readers, runs of the ticker, length and number of pieces, place and size of the
file, and either storage. A
turn of Read's loop ends where the piece ends (`OnePiece`, from the arithmetic of
`SamePiece` and `SizeBound`), and a reader that is about to copy from disk has
waited for that piece, which stays (`OnDisk`). For the windows, `ReadaheadFits`
is about the arithmetic alone: what two readers are given, active or idle, with
the integer divisions of the code, is never more than the memory. For
`WaitedIsAsked`, `InOrder` says of the runs, as long as none went on in front of an
older one, that only the oldest may be about to call libtorrent and that the last
status is then its own, and that otherwise libtorrent has been told what the last
status tells (`LastTold`; a `Buffer` since only adds to that). When the status of
what is wanted now is that one, and the wanted pieces have no gap, they are the
same pieces (`NoGap`), and the piece of a read lies in its window
(`WindowHasPiece`).

**Torrents** (`TorrentsProofs`): `ListAndSessionAgree` (ListMirrorsSession) and
`RestartKeepsTheList` (RestartBringsBack), for any torrents, requests and number
of additions and removals at once. The queue has one object of a torrent
(`Unique`), so that cutting a place out of the slice takes the torrent out of
the list (`DeleteFacts`). `Mirror` adds that a torrent whose Drop is under way is
not in the list, without which DropSession could take a listed torrent out of
the session. For the second theorem `ClosedOutside` says that an object is closed
exactly when it has left the list, which makes the object that a removal has
found the one that is listed; `Saving`, that whoever still writes or deletes a
file is of a torrent that is listed or being dropped; and `Written`, that the
file of a listed torrent is there, or is about to be written, or its metadata is
awaited, or came too late and the removal is on its way. Most actions touch
neither the list nor the session, and one lemma (`QuietKeeps`, `QuietAll`) serves
them all.

**Playback** (`RequestProofs`): `RedirectsAreBuffered` (RedirectOnlyBuffered),
`ServedStaysUp` (TornDownOnlyAfterPlayback) and `GivenUpGoes` (GivenUpIsDropped),
for any number of ticks in flight and any capacity of `bufferFinished`. What
orders the goroutines is the log of the buffer events: a listener acts on the
first one after its subscription. So the invariant says what stands in the log
relative to the place from which the handler listens: nothing before it has
subscribed (`Early`); no success of an incomplete buffer in front of which no
failure stands (`Buffered`, with `OkNext` and `Heard`); and what it was told when
it has left its wait (`HandlerTold`). `LoopOrder` says which goroutine has started
which, and `Closing` who has closed the player and what becomes of the torrent.
The promise of the broadcaster is used here, and is proved in `BroadcastProofs`.

**ProviderSearch** (`RequestProofs`): `InTimeIsFound` (NothingInTimeIsLost),
`BestIsMerged` (MergedIsBest) and `ReportsBeforeClose` (NoReportAfterClose), for
any providers, links, hashes, qualities and seeds. A link that a provider returned
is on its way or received, and received when the collecting ends (`Delivered`);
while the results are merged no resolver waits, so that what was resolved in time
is settled (`Settled`); and the result is that of the links passed so far
(`MergedSoFar`), which a join keeps for all of them (`Joined`, `Added`). That
includes links of one hash in any order, whatever comes between them.

**CompletedMove** (`RequestProofs`): `FilesKept` (LostOnlyOnRequest), for
any torrents, files, folders and names. A Drop that deletes files belongs to a
removal that was recorded (`DeletesAsked`), a file in the completed folder has
its own name (`OwnName`), and a folder is swept only after the file of its
goroutine has left it (`SweepsAfterMove`).

**Process** (`ProcessProofs`): `OnlyInstance` (SingleInstance), `OneOpensDatabase`
(OneWriter) and `CommitsAreKept` (NothingForgotten), for any number of instances,
commits and inodes. For the first, one
instance at a time is in ensureSingleInstance, the file holds its owner's pid
while that one runs, and the one about to be killed is that owner (`OneStarts`,
`OwnerRuns`, `VictimRuns`). For the second, an open database is the file that has
the name (`OpenIsMain`) and is closed while names change (`NoneOpen`). For the
third, the three names are three files and whatever an instance has open is the
database (`Names`, `OpenFiles`), and `Kept` says where the acknowledged commits
are: in the database; in the copy while the names are exchanged; in the two of
them together after an exchange that did not end. `InodesAssumption` says that
the file system has an inode to create a file with: a database that can be
created was given one, and without it the model would write the new file over an
old one.

**Library** (`ServicesProofs`): `NoMarkIsLost` (MarksAreKept), for any number of
goroutines, changes, refusals, failures and expiries. As long as the user has
unmarked the movie nowhere and no accident is open (`Undisturbed`), no two updates
of the copy overlap; a movie that the cached history has is watched on Trakt
(`SeenOnTrakt`); one that the memory says was set in Kodi is watched there, in the
copy and in the list that an update is about to store (`SetOnce`); hence the sync
finds marks only to send (`SendsMarks`). An expired memory only makes it set or
send the same mark again.

Only model-checked: all liveness properties, since TLAPS proves neither ENABLED nor
liveness from fairness.
Every module states a type invariant (`TypeOK`, `SearchTypeOK` and so on); it is a property of the runs of
`Broadcast`, `RateLimiter` and `Cache`, whose theorems cover it, and the proofs
about the other modules carry the types they need (`Types`).

## 6. Abstractions

* `Broadcast`: a receiver whose user has left between the put-back and the
  delivery stays blocked at `broadcast.go:105`, in the code and in the model;
  the liveness properties are about users that keep receiving.
* `RateLimiter`: a response is its status and its Retry-After; the refresh of the
  token that trakt tries between two nested calls (`trakt.go:875`) is left out. The errors of
  `MakeRequest` that never reach the limiter (`tmdb.go:639`) are inputs.
* `Torrents`: storage on disk, torrents loaded at the start; the data of the
  torrents is in `CompletedMove`. StopNextFiles may take any torrent that waits
  for a next file, although its loop over a slice that the removals shift
  (`service.go:2036`) passes over some. A panic ends the daemon, and the step
  that would panic is not enabled.
* `CompletedMove`: the limits of seeding are a choice of `MoveFound`, and what is
  chosen of a torrent has begun on disk as soon as it is added; a move fails,
  renames the file, or copies it and cannot remove the source.
* `Process`: a commit is one step; bolt runs with `NoSync` (`storm.go:77`), so the
  end of a process keeps what was committed and a loss of power may tear the
  database (`power`); the backup is `Torn` for as long as it is copied, so
  that either of them leaves it so; a pid is not reused.
* `Library`: one movie, no shows and episodes (whose code is the same with other
  flags), no resume points, collections or lists; time is the order of the
  watcher's ticks, and an entry of the cache may expire at any of them.
* `Playback`: no next file, archives, subtitles, resume dialogs or scrobbling;
  one player on one torrent; `RemoveTorrent` chooses whether a torrent with
  files goes on downloading.
* `ProviderSearch`: a link is its provider, hash, quality and seeds; the final
  sort and the filters are left out.
* `TorrentFSEntry`: a piece arrives before the torrent is dropped or not at all;
  the alert reaches only those who listen when it is sent.
* `TorrentFS`: no HEAD requests, no pieces wanted for a next file; at most
  `MaxTicks` runs of the ticker at once and `MaxTogether` of them and readers when
  one begins; that a read ends when its piece arrives is not checked; the snapshot
  of the pieces that the code refreshes every 350 ms is as good as new.
* `Cache`: a key changes at most `MaxChanges` times; a change whose answer is
  lost, so that its handler deletes nothing, is a `SyncItem`; the menus' own reads, `IsClosed` at shutdown and the reuse of bolt's pages
  behind a slice that outlives its transaction are left out; `Deleters` bounds the
  background deletions, so that one may have to wait for the last.

## 7. Not modelled, and the plan

Left for good: conversion of metadata and building of lists (data without
state), JSON-RPC to Kodi, proxy and DNS, subtitles, settings, generated
serialisers (more than 20000 of the repository's lines of Go).

Not modelled, though the code has state there: the settings of the libtorrent
session and its restart, the progress dialogs, the links between titles and
torrents (`storm.go:184-257`), the synchronisation of shows, collections,
playback progress and lists, the search of duplicates in the library, the order
in which shutdown closes the components.

Seen in the code and covered by no property: `PrioritizePiece` adds the two pieces
behind the one asked for, also behind the end of the torrent (`torrent.go:584`);
a read of memory storage that stays short after its torrent was dropped is
retried for ever (`torrentfs.go:207`); `MakeRequest` overwrites the result of a
request that failed (`tmdb.go:639`); after buffering, the limit of downloads is
set to that of uploads (`player.go:1005`); the comparator of the balanced sort is
not a strict weak order (`search.go:386`); a slice of a bolt value is used after
its transaction (`bolt.go:483`); two goroutines link or clean up one torrent in
the storm database (`storm.go:197`).

Next, in this order:

1. `TorrentLinks`: assignments and metadata of torrents without one transaction.
2. Two players on one torrent in `Playback`, composed with the removals of
   `Torrents`: who may remove what another one plays.
3. Pure algorithms against reference definitions: the choice of files
   (`torrent.go:1703-2002`), the comparator of the balanced sort, the size of the
   buffer (`torrent.go:538-571`).
4. Composition: a served file in memory whose torrent is dropped
   (`TorrentFSEntry` with the memory storage of `TorrentFS`).
5. Shows and episodes in `Library`.

To prove next: what liveness rests on, as invariants that say of each goroutine
that waits who will wake it: the slots of the limiter, the mutex of the cache, the
updater of a search and the channel of buffer events.
