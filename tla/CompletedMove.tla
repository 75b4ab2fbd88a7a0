--------------------------- MODULE CompletedMove ---------------------------
(***************************************************************************)
(* Where the files of completed torrents are (service.go, RemoveTorrent    *)
(* and onDownloadProgress; torrent.go, Drop; shutil.go, Move): the         *)
(* download manager removes a torrent that has been seeded long enough, or *)
(* is paused, and a goroutine per file moves what there is of it to the    *)
(* completed folder and then removes the folder the file was in.  Users    *)
(* and players remove torrents at the same time, and add them again.       *)
(* KeepDownloading asks, and the answer is any.                            *)
(***************************************************************************)
EXTENDS Naturals, FiniteSets

CONSTANTS Torrents,
          Files,     \* the files of a torrent
          Folder,    \* Folder[f]: the folder f lies in, or None
          Name,      \* Name[f]: the name of f without its folder
          Choices,   \* what may be chosen of a torrent
          MaxAdds,   \* bound: how often a torrent is added
          Part,      \* what lies in the completed folder of a file that was not complete
          None

ASSUME FilesAssumption ==
    /\ None \notin Torrents \X Files /\ Part \notin (Torrents \X Files) \cup {None}
    /\ DOMAIN Folder = Files /\ DOMAIN Name = Files
    /\ Choices \subseteq SUBSET Files
    /\ MaxAdds \in Nat

VARIABLES
    keepFiles, \* KeepFilesPlaying: "yes", "ask" or "no"
    listed,    \* the torrents of the queue
    chosenFiles,   \* chosenFiles[t]: the files of t that are wanted
    item,      \* item[t]: Files of the BTItem, or None
    dropping,  \* goroutines of Drop
    data,      \* data[t]: complete files in place
    begun,     \* begun[t]: files in place that are not complete
    folder,    \* folder[n]: the file that has name n in the completed folder
    checked,   \* pathChecked of the item's type
    warned,    \* warnedMissing
    manager,   \* the torrent onDownloadProgress is moving, or None
    movers,    \* its goroutines
    adds,
    was,       \* history: files that have been complete
    wanted,    \* history: torrents whose data was deleted on request
    early      \* history: torrents the manager itself had deleted

moveVars == <<keepFiles, listed, chosenFiles, item, dropping, data, begun, folder, checked, warned, manager,
          movers, adds, was, wanted, early>>

Answers == {"yes", "ask", "no"}

MoveTypeOK ==
    /\ keepFiles \in Answers
    /\ {listed, warned, wanted, early} \subseteq SUBSET Torrents
    /\ chosenFiles \in [Torrents -> SUBSET Files] /\ data \in [Torrents -> SUBSET Files]
    /\ begun \in [Torrents -> SUBSET Files]
    /\ item \in [Torrents -> (SUBSET Files) \cup {None}]
    /\ dropping \subseteq [of : Torrents, outcome : {"files", "nothing"}]
    /\ folder \in [{Name[f] : f \in Files} -> (Torrents \X Files) \cup {None, Part}]
    /\ checked \in BOOLEAN
    /\ manager \in [of : Torrents, files : SUBSET Files, at : {"remove", "start"}] \cup {None}
    /\ movers \subseteq [of : Torrents, file : Files, at : {"move", "sweep"}]
    /\ adds \in 0..MaxAdds
    /\ was \subseteq Torrents \X Files

MoveInit ==
    /\ keepFiles \in Answers
    /\ listed = {} /\ dropping = {} /\ movers = {} /\ manager = None
    /\ chosenFiles = [t \in Torrents |-> {}] /\ data = chosenFiles /\ begun = chosenFiles
    /\ item = [t \in Torrents |-> None]
    /\ folder = [n \in {Name[f] : f \in Files} |-> None]
    /\ checked = FALSE /\ warned = {}
    /\ adds = 0
    /\ was = {} /\ wanted = {} /\ early = {}

----------------------------------------------------------------------------
(* Torrents come, complete and go *)

\* AddTorrent and the choice of files; what is in place is found complete, and
\* the rest is begun.
AddTorrent(t, files) ==
    /\ t \notin listed /\ adds < MaxAdds
    /\ adds' = adds + 1
    /\ listed' = listed \cup {t}
    /\ chosenFiles' = [chosenFiles EXCEPT ![t] = files]
    /\ item' = [item EXCEPT ![t] = files]
    /\ begun' = [begun EXCEPT ![t] = @ \cup (files \ data[t])]
    /\ UNCHANGED <<keepFiles, dropping, data, folder, checked, warned, manager, movers, was, wanted, early>>

\* UnDownloadAll.
UnDownloadAll(t) ==
    /\ t \in listed
    /\ chosenFiles' = [chosenFiles EXCEPT ![t] = {}]
    /\ item' = [item EXCEPT ![t] = IF @ = None THEN None ELSE {}]
    /\ UNCHANGED <<keepFiles, listed, dropping, data, begun, folder, checked, warned, manager, movers,
                   adds, was, wanted, early>>

Complete(t, f) ==
    /\ t \in listed /\ f \in chosenFiles[t] \ data[t]
    /\ data' = [data EXCEPT ![t] = @ \cup {f}]
    /\ begun' = [begun EXCEPT ![t] = @ \ {f}]
    /\ was' = was \cup {<<t, f>>}
    /\ UNCHANGED <<keepFiles, listed, chosenFiles, item, dropping, folder, checked, warned, manager, movers,
                   adds, wanted, early>>

\* What RemoveTorrent does of a torrent in the list: nothing when it is kept.
\* Its data goes when the caller forces that, when no file is chosen, or by the
\* setting or the answer of the user.
Outcomes(t, drop, delete) ==
    {o \in {"kept", "files", "nothing"} :
        /\ o = "kept" => ~drop /\ chosenFiles[t] # {}
        /\ o = "files" => ~delete /\ chosenFiles[t] # {} /\ keepFiles # "no"
        /\ o = "nothing" => delete \/ chosenFiles[t] = {} \/ keepFiles # "yes"}

Removed(t, outcome) ==
    IF outcome = "kept" THEN UNCHANGED <<listed, item, dropping>>
    ELSE /\ listed' = listed \ {t}
         /\ item' = [item EXCEPT ![t] = None]
         /\ dropping' = dropping \cup {[of |-> t, outcome |-> outcome]}

\* RemoveTorrent by the web, which forces, or by a player or a timer.
RemoveTorrent(t, drop, delete) ==
    /\ t \in listed
    /\ \E o \in Outcomes(t, drop, delete) :
          /\ Removed(t, o)
          /\ wanted' = IF o = "nothing" THEN wanted \cup {t} ELSE wanted
    /\ UNCHANGED <<keepFiles, chosenFiles, data, begun, folder, checked, warned, manager, movers, adds, was, early>>

\* A Drop that has the session delete the data of every torrent it removes.
DropAll(d) ==
    /\ d \in dropping
    /\ dropping' = dropping \ {d}
    /\ data' = [data EXCEPT ![d.of] = {}] /\ begun' = [begun EXCEPT ![d.of] = {}]
    /\ UNCHANGED <<keepFiles, listed, chosenFiles, item, folder, checked, warned, manager, movers,
                   adds, was, wanted, early>>

\* The goroutine of Drop: libtorrent deletes the data, or leaves it.
Drop(d) ==
    /\ d \in dropping
    /\ dropping' = dropping \ {d}
    /\ IF d.outcome = "nothing"
       THEN data' = [data EXCEPT ![d.of] = {}] /\ begun' = [begun EXCEPT ![d.of] = {}]
       ELSE UNCHANGED <<data, begun>>
    /\ UNCHANGED <<keepFiles, listed, chosenFiles, item, folder, checked, warned, manager, movers,
                   adds, was, wanted, early>>

----------------------------------------------------------------------------
(* The download manager *)

\* A torrent in the list is complete or paused, was seeded long enough or has
\* shared enough or is marked, nothing plays, and its item is in the database.
\* The completed folder is tested for the first torrent alone.
MoveFound(t, isPaused, writable) ==
    /\ manager = None /\ t \in listed \ warned
    /\ isPaused \/ chosenFiles[t] \subseteq data[t]
    /\ IF item[t] = None \/ (~checked /\ ~writable)
       THEN warned' = warned \cup {t} /\ UNCHANGED manager
       ELSE /\ manager' = [of |-> t, files |-> item[t], at |-> "remove"]
            /\ UNCHANGED warned
    /\ checked' = (checked \/ item[t] # None)
    /\ UNCHANGED <<keepFiles, listed, chosenFiles, item, dropping, data, begun, folder, movers, adds, was, wanted, early>>

\* The torrent is removed "without deleting files"; RemoveTorrent follows the
\* settings of a player that closes.  A torrent that is no longer in the list
\* is a panic, the end of the daemon.
MoveRemove ==
    /\ manager # None /\ manager.at = "remove"
    /\ manager.of \in listed
    /\ \E o \in Outcomes(manager.of, FALSE, FALSE) :
          /\ Removed(manager.of, o)
          /\ early' = IF o = "nothing" THEN early \cup {manager.of} ELSE early
    /\ manager' = [manager EXCEPT !.at = "start"]
    /\ UNCHANGED <<keepFiles, chosenFiles, data, begun, folder, checked, warned, movers, adds, was, wanted>>

\* A goroutine per file of the item starts; an item without files is an error.
MoveStart ==
    /\ manager # None /\ manager.at = "start"
    /\ movers' = movers \cup {[of |-> manager.of, file |-> f, at |-> "move"] : f \in manager.files}
    /\ manager' = None
    /\ UNCHANGED <<keepFiles, listed, chosenFiles, item, dropping, data, begun, folder, checked, warned,
                   adds, was, wanted, early>>

\* util.Move fails, renames the file over what has its name, or copies it and
\* fails to remove the source.
Move(m) ==
    /\ m \in movers /\ m.at = "move"
    /\ \/ /\ movers' = movers \ {m}
          /\ UNCHANGED <<data, begun, folder>>
       \/ /\ m.file \in data[m.of] \cup begun[m.of]
          /\ folder' = [folder EXCEPT ![Name[m.file]] =
                          IF m.file \in data[m.of] THEN <<m.of, m.file>> ELSE Part]
          /\ \/ /\ data' = [data EXCEPT ![m.of] = @ \ {m.file}]
                /\ begun' = [begun EXCEPT ![m.of] = @ \ {m.file}]
                /\ movers' = (movers \ {m}) \cup {[m EXCEPT !.at = "sweep"]}
             \/ /\ movers' = movers \ {m}
                /\ UNCHANGED <<data, begun>>
    /\ UNCHANGED <<keepFiles, listed, chosenFiles, item, dropping, checked, warned, manager,
                   adds, was, wanted, early>>

\* os.RemoveAll of the folder the file was in.
Sweep(m) ==
    /\ m \in movers /\ m.at = "sweep"
    /\ movers' = movers \ {m}
    /\ IF Folder[m.file] = None THEN UNCHANGED <<data, begun>>
       ELSE LET beside == {f \in Files : Folder[f] = Folder[m.file]}
            IN /\ data' = [data EXCEPT ![m.of] = @ \ beside]
               /\ begun' = [begun EXCEPT ![m.of] = @ \ beside]
    /\ UNCHANGED <<keepFiles, listed, chosenFiles, item, dropping, folder, checked, warned, manager,
                   adds, was, wanted, early>>

MoveNext ==
    \/ \E t \in Torrents :
          \/ \E files \in Choices : AddTorrent(t, files)
          \/ UnDownloadAll(t)
          \/ \E f \in Files : Complete(t, f)
          \/ \E drop, delete \in BOOLEAN : (delete => drop) /\ RemoveTorrent(t, drop, delete)
          \/ \E isPaused, writable \in BOOLEAN : MoveFound(t, isPaused, writable)
    \/ \E d \in dropping : Drop(d)
    \/ MoveRemove \/ MoveStart
    \/ \E m \in movers : Move(m) \/ Sweep(m)

MoveSpec == MoveInit /\ [][MoveNext]_moveVars

----------------------------------------------------------------------------
(* Properties *)

\* A file is in place, or in the completed folder.
Kept(t, f) == f \in data[t] \/ \E n \in DOMAIN folder : folder[n] = <<t, f>>

\* Another file has its name in the completed folder, or has taken along the
\* folder it lay in.
Displaced(f) ==
    \/ folder[Name[f]] # None
    \/ \E g \in Files \ {f} : /\ Folder[g] # None /\ Folder[g] = Folder[f]
                              /\ folder[Name[g]] # None

\* A file that has been complete is in place or in the completed folder, unless
\* it was displaced or the torrent was removed with its data: by the user, by a
\* player that closed, or by the download manager, as the settings wanted.
LostOnlyOnRequest ==
    \A tf \in was : Kept(tf[1], tf[2]) \/ Displaced(tf[2]) \/ tf[1] \in wanted \cup early

\* onDownloadProgress (service.go:1456) removes the torrent "without deleting
\* files after Completed move": what it removes is not lost.
ManagerDeletesNothing ==
    \A tf \in was : Kept(tf[1], tf[2]) \/ Displaced(tf[2]) \/ tf[1] \in wanted

============================================================================
