------------------------------ MODULE Torrents ------------------------------
(***************************************************************************)
(* The list of torrents of the service (service.go, queue.go, torrent.go,  *)
(* player.go, the handlers of api/torrents.go and api/play.go), the        *)
(* session of libtorrent, the .torrent files and the BTItems that bring    *)
(* the torrents back at the next start, and the goroutines that change     *)
(* them: requests, players that close, timers, the download manager, and   *)
(* what Drop and onMetadataReceived leave to the background.               *)
(*                                                                         *)
(* Storage is on disk, and torrents are loaded at the start.  A setting    *)
(* that can ask the user (KeepDownloading) asks, and the answer is any.    *)
(* The data of the torrents is in CompletedMove.                           *)
(***************************************************************************)
EXTENDS Naturals, Sequences, FiniteSets

CONSTANTS Hashes,    \* torrents
          Players,   \* requests that can be under way at once
          MaxAdds,   \* bound: how often AddTorrent is called
          MaxAsking, \* bound: calls of RemoveTorrent at once
          None

ASSUME TorrentsAssumption ==
    /\ {MaxAdds, MaxAsking} \subseteq Nat
    /\ None \notin Hashes \cup Players /\ "manager" \notin Players

Ids == 1..MaxAdds

VARIABLES
    session,   \* the torrents libtorrent has
    obj,       \* obj[i]: the i-th Torrent object
    queue,     \* Queue.torrents, a slice
    item,      \* torrents whose BTItem names files
    saved,     \* torrents with a .torrent file in TorrentsPath
    player,    \* player[p]: the request p
    loading,   \* loadTorrentFiles has yet to run, is adding, or is done
    saving,    \* objects whose onMetadataReceived still writes its file
    asking,    \* RemoveTorrent calls between their look-up and their effect
    dropping,  \* goroutines of Drop
    manager,   \* the torrent onDownloadProgress moves, or None
    adds,
    excused    \* history: torrents that had one of the accidents of Properties

vars == <<session, obj, queue, item, saved, player, loading, saving, asking, dropping,
          manager, adds, excused>>

NoObj == [hash |-> None, meta |-> FALSE, chosen |-> FALSE, next |-> FALSE, timer |-> FALSE,
          attached |-> 0, closed |-> FALSE]
Idle == [pc |-> "idle", id |-> 0, hash |-> None, kind |-> "api"]

TypeOK ==
    /\ {session, item, saved, excused} \subseteq SUBSET Hashes
    /\ obj \in [Ids -> [hash : Hashes \cup {None}, meta : BOOLEAN, chosen : BOOLEAN, next : BOOLEAN,
                        timer : BOOLEAN, attached : Nat, closed : BOOLEAN]]
    /\ queue \in Seq(Ids)
    /\ player \in [Players -> [pc : {"idle", "add", "wait", "choose", "play", "ask", "detach"},
                               id : Ids \cup {0}, hash : Hashes \cup {None},
                               kind : {"play", "api"}]]
    /\ loading \in [at : {"no", "add", "done"}, todo : SUBSET Hashes]
    /\ saving \subseteq Ids
    /\ asking \subseteq [id : Ids, drop : BOOLEAN, by : Players \cup {None, "manager"}]
    /\ dropping \subseteq [id : Ids, at : {"session", "files"}]
    /\ manager \in {None} \cup [hash : Hashes, at : {"found", "asked"}]

\* The start of the daemon: .torrent files and items are what the last run has
\* left, however it ended.
Init ==
    /\ session = {} /\ excused = {}
    /\ saved \in SUBSET Hashes /\ item \in SUBSET Hashes
    /\ obj = [i \in Ids |-> NoObj]
    /\ queue = <<>>
    /\ player = [p \in Players |-> Idle]
    /\ loading = [at |-> "no", todo |-> {}]
    /\ saving = {} /\ asking = {} /\ dropping = {}
    /\ manager = None
    /\ adds = 0

----------------------------------------------------------------------------
(* The queue *)

Positions(h) == {k \in 1..Len(queue) : obj[queue[k]].hash = h}
First(S) == CHOOSE k \in S : \A j \in S : k <= j

\* FindByHash: the object, or 0.
FindByHash(h) == IF Positions(h) = {} THEN 0 ELSE queue[First(Positions(h))]

\* Queue.Add refuses a second object of a torrent.
QueueAdd(i, h) == queue' = IF FindByHash(h) # 0 THEN queue ELSE Append(queue, i)

\* Delete by the object: a copy of the torrent that is not in the list deletes
\* nothing.
QueueKeep(h) == UNCHANGED queue

QueueDelete(h) ==
    queue' = IF FindByHash(h) = 0 THEN queue
             ELSE LET k == First(Positions(h))
                  IN SubSeq(queue, 1, k - 1) \o SubSeq(queue, k + 1, Len(queue))

Busy(h) == \/ \E a \in asking : obj[a.id].hash = h
           \/ \E d \in dropping : obj[d.id].hash = h

\* A call of RemoveTorrent that has found an object, or none.
Ask(i, drop, by) ==
    /\ Cardinality(asking) < MaxAsking
    /\ asking' = IF i = 0 THEN asking ELSE asking \cup {[id |-> i, drop |-> drop, by |-> by]}

----------------------------------------------------------------------------
(* AddTorrent *)

\* The object of h that AddTorrent makes.  libtorrent answers with the handle
\* it has when the torrent is there already, and AddTorrent goes on with an
\* object that the queue refuses.
Add(h, meta, chosen) ==
    LET i == adds + 1
    IN /\ adds < MaxAdds
       /\ adds' = i
       /\ session' = session \cup {h}
       /\ obj' = [obj EXCEPT ![i] = [NoObj EXCEPT !.hash = h, !.meta = meta, !.chosen = chosen]]
       /\ QueueAdd(i, h)
       /\ excused' = IF Busy(h) \/ FindByHash(h) # 0 THEN excused \cup {h} ELSE excused

\* SetTorrent of a player; other requests only use the object.
SetTorrent(i, kind) ==
    IF kind = "api" THEN obj[i]
    ELSE [obj[i] EXCEPT !.attached = @ + 1, !.next = FALSE, !.timer = FALSE]

\* A request to play or to download looks for the torrent in the list.
Request(p, h, kind) ==
    /\ player[p].pc = "idle"
    /\ LET i == FindByHash(h)
       IN /\ player' = [player EXCEPT ![p] = [pc |-> IF i = 0 THEN "add" ELSE "choose",
                                              id |-> i, hash |-> h, kind |-> kind]]
          /\ obj' = IF i = 0 THEN obj ELSE [obj EXCEPT ![i] = SetTorrent(i, kind)]
    /\ UNCHANGED <<session, queue, item, saved, loading, saving, asking, dropping, manager,
                   adds, excused>>

\* AddTorrent up to the wait for the metadata, which the handle can have.
AddTorrent(p) ==
    /\ player[p].pc = "add"
    /\ LET h == player[p].hash
       IN Add(h, h \in session /\ \E i \in Ids : obj[i].hash = h /\ obj[i].meta, FALSE)
    /\ player' = [player EXCEPT ![p].pc = "wait", ![p].id = adds + 1]
    /\ UNCHANGED <<item, saved, loading, saving, asking, dropping, manager>>

\* The metadata is there, or the torrent is being dropped: AddTorrent returns
\* the object in both cases, and onMetadataReceived saves it in one.  The alert
\* reaches the objects of the queue alone.
GotMetadata(p) ==
    /\ player[p].pc = "wait"
    /\ LET i == player[p].id
       IN /\ obj[i].meta \/ obj[i].closed \/ \E k \in 1..Len(queue) : queue[k] = i
          /\ saving' = IF obj[i].closed THEN saving ELSE saving \cup {i}
          /\ obj' = [obj EXCEPT ![i] = [SetTorrent(i, player[p].kind) EXCEPT !.meta = ~obj[i].closed]]
    /\ player' = [player EXCEPT ![p].pc = "choose"]
    /\ UNCHANGED <<session, queue, item, saved, loading, asking, dropping, manager,
                   adds, excused>>

\* The time for it is over: AddTorrent removes whatever object the list has for
\* the torrent, and the request fails.
MetadataTimeout(p) ==
    /\ player[p].pc = "wait" /\ ~obj[player[p].id].meta
    /\ Ask(FindByHash(player[p].hash), FALSE, None)
    /\ player' = [player EXCEPT ![p] = Idle]
    /\ UNCHANGED <<session, obj, queue, item, saved, loading, saving, dropping, manager,
                   adds, excused>>

\* The goroutine of onMetadataReceived writes the .torrent file, whatever has
\* become of the torrent meanwhile.
SaveMetainfo(i) ==
    /\ i \in saving
    /\ saving' = saving \ {i}
    /\ saved' = saved \cup {obj[i].hash}
    /\ UNCHANGED <<session, obj, queue, item, player, loading, asking, dropping, manager,
                   adds, excused>>

----------------------------------------------------------------------------
(* Requests: the choice of a file, and the end of a player *)

\* processMetadata, or the handler of api/torrents.go: a file is chosen and the
\* item is saved, also when the torrent has been removed.
ChooseFile(p) ==
    /\ player[p].pc = "choose" /\ obj[player[p].id].meta
    /\ obj' = [obj EXCEPT ![player[p].id].chosen = TRUE]
    /\ item' = item \cup {player[p].hash}
    /\ player' = [player EXCEPT ![p] = IF player[p].kind = "api" THEN Idle ELSE [@ EXCEPT !.pc = "play"]]
    /\ UNCHANGED <<session, queue, saved, loading, saving, asking, dropping, manager,
                   adds, excused>>

\* The handler has saved an item without files, and no file is chosen.
ChooseNothing(p) ==
    /\ player[p].pc = "choose" /\ player[p].kind = "api"
    /\ item' = item \ {player[p].hash}
    /\ player' = [player EXCEPT ![p] = Idle]
    /\ UNCHANGED <<session, obj, queue, saved, loading, saving, asking, dropping, manager,
                   adds, excused>>

\* Player.Close: a watched file that has a next one leaves the torrent to the
\* timer; else the last player removes it, after a failure too.
ClosePlayer(p, next) ==
    /\ player[p].kind = "play"
    /\ player[p].pc = "play" \/ (player[p].pc = "choose" /\ ~next)
    /\ LET i == player[p].id
           remove == ~next /\ obj[i].attached <= 1 /\ FindByHash(player[p].hash) # 0
       IN /\ obj' = IF next THEN [obj EXCEPT ![i].next = TRUE, ![i].timer = TRUE] ELSE obj
          /\ IF remove THEN Ask(FindByHash(player[p].hash), FALSE, p) ELSE UNCHANGED asking
          /\ player' = [player EXCEPT ![p].pc = IF remove THEN "ask" ELSE "detach"]
    /\ UNCHANGED <<session, queue, item, saved, loading, saving, dropping, manager,
                   adds, excused>>

\* The goroutine of Close.
DetachPlayer(p) ==
    /\ player[p].pc = "detach"
    /\ obj' = [obj EXCEPT ![player[p].id].attached = @ - 1]
    /\ player' = [player EXCEPT ![p] = Idle]
    /\ UNCHANGED <<session, queue, item, saved, loading, saving, asking, dropping, manager,
                   adds, excused>>

\* UnDownloadAllTorrent and DownloadAllTorrent; without metadata there are no
\* files to choose.
Select(h, chosen) ==
    /\ FindByHash(h) # 0
    /\ obj[FindByHash(h)].meta \/ ~chosen
    /\ obj' = [obj EXCEPT ![FindByHash(h)].chosen = chosen]
    /\ item' = IF chosen THEN item \cup {h} ELSE item \ {h}
    /\ UNCHANGED <<session, queue, saved, player, loading, saving, asking, dropping, manager,
                   adds, excused>>

----------------------------------------------------------------------------
(* RemoveTorrent and Drop *)

\* DELETE by the web.
RemoveByUser(h) ==
    /\ FindByHash(h) # 0
    /\ Ask(FindByHash(h), TRUE, None)
    /\ UNCHANGED <<session, obj, queue, item, saved, player, loading, saving, dropping, manager,
                   adds, excused>>

\* The timer of a torrent that waits for its next file.
NextTimer(i) ==
    /\ obj[i].timer /\ ~obj[i].closed
    /\ obj' = [obj EXCEPT ![i].timer = FALSE]
    /\ IF obj[i].next THEN Ask(FindByHash(obj[i].hash), FALSE, None) ELSE UNCHANGED asking
    /\ UNCHANGED <<session, queue, item, saved, player, loading, saving, dropping, manager,
                   adds, excused>>

Answered(a) ==
    /\ asking' = asking \ {a}
    /\ player' = IF a.by \in Players THEN [player EXCEPT ![a.by].pc = "detach"] ELSE player

\* RemoveTorrent answers: the torrent is kept, for the setting or the user.
KeepTorrent(a) ==
    /\ a \in asking
    /\ ~a.drop /\ obj[a.id].chosen
    /\ Answered(a)
    /\ UNCHANGED <<session, obj, queue, item, saved, loading, saving, dropping, manager,
                   adds, excused>>

\* The torrent goes: out of the list, Drop, and out of the database.
RemoveTorrent(a) ==
    /\ a \in asking
    /\ Answered(a)
    /\ LET h == obj[a.id].hash
       IN /\ QueueDelete(h)
          /\ obj' = [obj EXCEPT ![a.id].closed = TRUE]
          /\ item' = item \ {h}
          /\ dropping' = dropping \cup {[id |-> a.id, at |-> "session"]}
    /\ UNCHANGED <<session, saved, loading, saving, manager, adds, excused>>

\* The goroutine of Drop: the torrent leaves the session ...
DropSession(d) ==
    /\ d \in dropping /\ d.at = "session"
    /\ dropping' = (dropping \ {d}) \cup {[d EXCEPT !.at = "files"]}
    /\ session' = session \ {obj[d.id].hash}
    /\ UNCHANGED <<obj, queue, item, saved, player, loading, saving, asking, manager,
                   adds, excused>>

\* A Drop that leaves the .torrent file.
KeepFiles(d) ==
    /\ d \in dropping /\ d.at = "files"
    /\ dropping' = dropping \ {d}
    /\ UNCHANGED <<session, obj, queue, item, saved, player, loading, saving, asking, manager,
                   adds, excused>>

\* ... and its files the disk, before or after SaveMetainfo has written one.
DropFiles(d) ==
    /\ d \in dropping /\ d.at = "files"
    /\ dropping' = dropping \ {d}
    /\ LET h == obj[d.id].hash
       IN /\ saved' = saved \ {h}
          /\ excused' = IF \E i \in saving : obj[i].hash = h THEN excused \cup {h} ELSE excused
    /\ UNCHANGED <<session, obj, queue, item, player, loading, saving, asking, manager,
                   adds>>

----------------------------------------------------------------------------
(* StopNextFiles and the download manager *)

\* OnPlay: StopNextFiles removes what waits for a next file and has no player
\* (its loop ranges over the slice that the removals shift, and can pass over some).
StopNextFiles(i) ==
    /\ obj[i].next /\ obj[i].attached = 0
    /\ obj' = [obj EXCEPT ![i].next = FALSE, ![i].timer = FALSE]
    /\ Ask(FindByHash(obj[i].hash), FALSE, None)
    /\ UNCHANGED <<session, queue, item, saved, player, loading, saving, dropping, manager,
                   adds, excused>>

\* onDownloadProgress: a completed torrent is to be moved (see CompletedMove).
MoveFound(h) ==
    /\ manager = None /\ h \in session
    /\ FindByHash(h) # 0 /\ h \in item
    /\ obj[FindByHash(h)].chosen
    /\ manager' = [hash |-> h, at |-> "found"]
    /\ UNCHANGED <<session, obj, queue, item, saved, player, loading, saving, asking, dropping,
                   adds, excused>>

\* It is removed first.  RemoveTorrent reads the name of the object in front of
\* its test for nil: a torrent that has gone meanwhile is a panic (the daemon ends).
MoveRemove ==
    /\ manager # None /\ manager.at = "found"
    /\ FindByHash(manager.hash) # 0
    /\ Ask(FindByHash(manager.hash), FALSE, "manager")
    /\ manager' = [manager EXCEPT !.at = "asked"]
    /\ UNCHANGED <<session, obj, queue, item, saved, player, loading, saving, dropping,
                   adds, excused>>

\* Then the manager deletes the .torrent file itself, also of a torrent that was
\* kept or that has come again, and moves the files.
MoveStart ==
    /\ manager # None /\ manager.at = "asked"
    /\ \A a \in asking : a.by # "manager"
    /\ saved' = saved \ {manager.hash}
    /\ excused' = IF FindByHash(manager.hash) # 0 \/ \E i \in saving : obj[i].hash = manager.hash
                  THEN excused \cup {manager.hash} ELSE excused
    /\ manager' = None
    /\ UNCHANGED <<session, obj, queue, item, player, loading, saving, asking, dropping,
                   adds>>

----------------------------------------------------------------------------
(* The start of the daemon *)

\* loadTorrentFiles begins with Clean, while requests are already served.
LoadTorrentFiles ==
    /\ loading.at = "no"
    /\ queue' = <<>>
    /\ excused' = excused \cup {obj[queue[k]].hash : k \in 1..Len(queue)}
    /\ loading' = [at |-> "add", todo |-> saved]
    /\ UNCHANGED <<session, obj, item, saved, player, saving, asking, dropping, manager,
                   adds>>

\* A .torrent file is added, and the files of its item are chosen again; one
\* that has been deleted meanwhile is an error, and the next one follows.
LoadTorrent(h) ==
    /\ h \in loading.todo
    /\ \/ /\ h \in saved
          /\ Add(h, TRUE, h \in item)
          /\ saving' = saving \cup {adds + 1}
       \/ /\ h \notin saved
          /\ UNCHANGED <<session, obj, queue, saving, adds, excused>>
    /\ loading' = [loading EXCEPT !.todo = @ \ {h}]
    /\ UNCHANGED <<item, saved, player, asking, dropping, manager>>

LoadEnds ==
    /\ loading.at = "add" /\ loading.todo = {}
    /\ loading' = [loading EXCEPT !.at = "done"]
    /\ UNCHANGED <<session, obj, queue, item, saved, player, saving, asking, dropping, manager,
                   adds, excused>>

Next ==
    \/ \E p \in Players :
          \/ \E h \in Hashes, k \in {"play", "api"} : Request(p, h, k)
          \/ AddTorrent(p) \/ GotMetadata(p) \/ MetadataTimeout(p)
          \/ ChooseFile(p) \/ ChooseNothing(p)
          \/ \E next \in BOOLEAN : ClosePlayer(p, next)
          \/ DetachPlayer(p)
    \/ \E i \in Ids : SaveMetainfo(i) \/ NextTimer(i) \/ StopNextFiles(i)
    \/ \E h \in Hashes :
          \/ \E chosen \in BOOLEAN : Select(h, chosen)
          \/ RemoveByUser(h) \/ MoveFound(h) \/ LoadTorrent(h)
    \/ \E a \in asking : KeepTorrent(a) \/ RemoveTorrent(a)
    \/ \E d \in dropping : DropSession(d) \/ DropFiles(d)
    \/ MoveRemove \/ MoveStart
    \/ LoadTorrentFiles \/ LoadEnds

Spec == Init /\ [][Next]_vars

----------------------------------------------------------------------------
(* Properties.  The accidents: an AddTorrent while the torrent is in the list *)
(* or is being removed; Drop or the download manager deletes the .torrent     *)
(* file while onMetadataReceived has yet to write it, or the manager while    *)
(* the torrent is in the list; Clean takes it off the list at the start.      *)

Listed(h) == FindByHash(h) # 0

\* What is in the list is in the session, and what is in the session is in the
\* list or on its way out of it.
ListMirrorsSession ==
    \A h \in Hashes \ excused :
        /\ Listed(h) => h \in session
        /\ h \in session => Listed(h) \/ \E d \in dropping : obj[d.id].hash = h /\ d.at = "session"

\* When nothing is under way for a torrent, the file that brings it back at the
\* next start is there if and only if it is in the list.
RestartBringsBack ==
    \A h \in Hashes \ excused :
        /\ loading.at = "done" /\ ~Busy(h)
        /\ \A i \in saving : obj[i].hash # h
        /\ \A p \in Players : player[p].hash = h => player[p].pc # "wait"
        => (Listed(h) <=> h \in saved)

============================================================================
