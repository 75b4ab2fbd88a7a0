--------------------------- MODULE TorrentFSEntry ---------------------------
(***************************************************************************)
(* The life of the files that the HTTP server opens on one torrent         *)
(* (bittorrent/torrentfs.go): Open, a Read that waits for a piece, Close;  *)
(* and who wakes that Read when the torrent goes: Drop (torrent.go), which *)
(* closes the readers it finds, the alert that libtorrent sends to every   *)
(* reader that listens by then, and Close itself.  All of them set the     *)
(* event `removed` of the entry.                                           *)
(*                                                                         *)
(* A reader is one entry of t.readers; Drop walks through that map without *)
(* the lock under which Open and Close write to it.                        *)
(***************************************************************************)
EXTENDS Naturals

CONSTANTS Readers, NoSetter

Setters == {"drop", "alert", "http"}

VARIABLES
  drop,        \* where RemoveTorrent is: "no", "loop", "session" or "gone"
  toClose,     \* the readers that its loop meets
  readers,     \* t.readers
  sub,         \* per reader: consumeAlerts: "none", "starting", "on" or "alert"
  pc,          \* per reader: where its request is
  mine,        \* per reader: the channel of `removed` that its Read waits on
  late,        \* history: the readers that were registered after Closer was set
  ch, shut, flag, mu, setter,   \* the event `removed` of every reader
  crashed      \* the process is dead

removed == <<ch, shut, flag, mu, setter>>
torrent == <<drop, toClose>>
vars == <<torrent, readers, sub, pc, mine, late, removed, crashed>>

E == INSTANCE Event WITH Events <- Readers

listed == drop = "no"    \* the torrent is in the queue

closer == drop # "no"    \* t.Closer

AtRead == {"event", "make", "got", "wait"}

TypeOK ==
  /\ crashed \in BOOLEAN
  /\ drop \in {"no", "loop", "session", "gone"}
  /\ toClose \subseteq Readers /\ readers \subseteq Readers /\ late \subseteq Readers
  /\ sub \in [Readers -> {"none", "starting", "on", "alert"}]
  /\ pc \in [Readers -> AtRead \cup {"none", "opening", "open", "close", "delete", "over"}]
  /\ mine \in [Readers -> E!Channels]
  /\ E!EventTypeOK

Init ==
  /\ drop = "no" /\ toClose = {} /\ readers = {}
  /\ sub = [r \in Readers |-> "none"]
  /\ pc = [r \in Readers |-> "none"]
  /\ mine = [r \in Readers |-> 0]
  /\ late = {}
  /\ E!EventInit
  /\ crashed = FALSE

-----------------------------------------------------------------------------
(* A map written while Drop iterates over it may kill the process. *)
WriteReaders(set) ==
  /\ readers' = set
  /\ crashed' \in (IF drop = "loop" THEN BOOLEAN ELSE {FALSE})

To(r, where) == pc' = [pc EXCEPT ![r] = where]

SubTo(r, where) == sub' = [sub EXCEPT ![r] = where]

(* Open finds the torrent in the queue. *)
Open(r) ==
  /\ pc[r] = "none"
  /\ listed
  /\ To(r, "opening")
  /\ UNCHANGED <<torrent, readers, sub, mine, late, removed, crashed>>

(* NewTorrentFSEntry: a loop under way may still meet the new entry. *)
Register(r) ==
  /\ pc[r] = "opening"
  /\ WriteReaders(readers \cup {r})
  /\ toClose' \in (IF drop = "loop" THEN {toClose, toClose \cup {r}} ELSE {toClose})
  /\ late' = IF closer THEN late \cup {r} ELSE late
  /\ SubTo(r, "starting")
  /\ To(r, "open")
  /\ UNCHANGED <<drop, mine, removed>>

(* consumeAlerts, once it listens *)
ListenAlerts(r) ==
  /\ sub[r] = "starting"
  /\ SubTo(r, "on")
  /\ UNCHANGED <<torrent, readers, pc, mine, late, removed, crashed>>

(* Read, waitForPiece: the piece is not there. *)
Read(r) ==
  /\ pc[r] = "open"
  /\ To(r, "event")
  /\ UNCHANGED <<torrent, readers, sub, mine, late, removed, crashed>>

(* removed.C(): a channel, made first if there is none *)
GetChannel(r) ==
  /\ \/ /\ pc[r] = "event" /\ E!NoChannel(r)
        /\ To(r, "make")
        /\ UNCHANGED <<ch, mine>>
     \/ /\ pc[r] = "make"
        /\ E!MakeChannel(r)
        /\ To(r, "got")
        /\ UNCHANGED mine
     \/ /\ pc[r] = "got" \/ (pc[r] = "event" /\ ~E!NoChannel(r))
        /\ mine' = [mine EXCEPT ![r] = ch[r]]
        /\ To(r, "wait")
        /\ UNCHANGED ch
  /\ UNCHANGED <<torrent, readers, sub, late, shut, flag, mu, setter, crashed>>

(* hasPiece: libtorrent is no more asked once Closer is set. *)
PieceArrives(r) ==
  /\ pc[r] = "wait"
  /\ ~closer
  /\ To(r, "open")
  /\ mine' = [mine EXCEPT ![r] = 0]
  /\ UNCHANGED <<torrent, readers, sub, late, removed, crashed>>

(* "File was closed": Read fails, and the request with it. *)
FileClosed(r) ==
  /\ pc[r] = "wait"
  /\ mine[r] \in shut[r]
  /\ To(r, "close")
  /\ mine' = [mine EXCEPT ![r] = 0]
  /\ UNCHANGED <<torrent, readers, sub, late, removed, crashed>>

(* The request is answered, or its client is gone. *)
EndRequest(r) ==
  /\ pc[r] = "open"
  /\ To(r, "close")
  /\ UNCHANGED <<torrent, readers, sub, mine, late, removed, crashed>>

(* Close, once it has set removed *)
CloseTest(r) ==
  /\ pc[r] = "close"
  /\ setter[r]["http"] = "end"
  /\ To(r, IF closer THEN "over" ELSE "delete")
  /\ UNCHANGED <<torrent, readers, sub, mine, late, removed, crashed>>

(* A loop that has not come to the entry does not find it any more. *)
CloseDelete(r) ==
  /\ pc[r] = "delete"
  /\ WriteReaders(readers \ {r})
  /\ toClose' = IF setter[r]["drop"] = "idle" THEN toClose \ {r} ELSE toClose
  /\ To(r, "over")
  /\ UNCHANGED <<drop, sub, mine, late, removed>>
-----------------------------------------------------------------------------
(* Who may be at removed.Set(): Drop closes one reader after the other. *)
MaySet(r, s) ==
  CASE s = "http"  -> pc[r] = "close"
    [] s = "alert" -> sub[r] = "alert"
    [] s = "drop"  -> /\ drop = "loop" /\ r \in toClose
                      /\ \A q \in toClose \ {r} : setter[q]["drop"] \in {"idle", "end"}

(* One of its steps; to close a channel twice is the end of the process. *)
SetRemoved(r, s) ==
  /\ MaySet(r, s)
  /\ E!SetStep(r, s)
  /\ crashed' = E!ClosesTwice(r, s)
  /\ UNCHANGED <<torrent, readers, sub, pc, mine, late>>

(* Mutant: the alert of any torrent will do. *)
AnyAlert(r) ==
  /\ sub[r] = "on"
  /\ SubTo(r, "alert")
  /\ UNCHANGED <<torrent, readers, pc, mine, late, removed, crashed>>

(* consumeAlerts, the removal of another torrent: it will do once Closer is *)
(* set.                                                                     *)
OtherAlert(r) ==
  /\ sub[r] = "on"
  /\ closer
  /\ SubTo(r, "alert")
  /\ UNCHANGED <<torrent, readers, pc, mine, late, removed, crashed>>

(* Mutant: Drop closes no reader and leaves it to the alert. *)
DropNone ==
  /\ listed
  /\ drop' = "session"
  /\ UNCHANGED <<toClose, readers, sub, pc, mine, late, removed, crashed>>

(* RemoveTorrent takes the torrent off the queue; Drop sets Closer. *)
DropStart ==
  /\ listed
  /\ drop' = "loop"
  /\ toClose' = readers
  /\ UNCHANGED <<readers, sub, pc, mine, late, removed, crashed>>

DropLoopEnds ==
  /\ drop = "loop"
  /\ \A r \in toClose : setter[r]["drop"] = "end"
  /\ drop' = "session"
  /\ UNCHANGED <<toClose, readers, sub, pc, mine, late, removed, crashed>>

(* Session.RemoveTorrent: those who listen by now are told. *)
SessionRemoves ==
  /\ drop = "session"
  /\ drop' = "gone"
  /\ sub' = [r \in Readers |-> IF sub[r] = "on" THEN "alert" ELSE sub[r]]
  /\ UNCHANGED <<toClose, readers, pc, mine, late, removed, crashed>>
-----------------------------------------------------------------------------
Request(r) ==
  Register(r) \/ GetChannel(r) \/ FileClosed(r) \/ SetRemoved(r, "http") \/ CloseTest(r)
    \/ CloseDelete(r)

Alerts(r) == ListenAlerts(r) \/ SetRemoved(r, "alert")

Drop ==
  (\E r \in Readers : SetRemoved(r, "drop")) \/ DropLoopEnds \/ SessionRemoves

Next ==
  /\ ~crashed
  /\ \/ \E r \in Readers : \/ Open(r) \/ Read(r) \/ PieceArrives(r) \/ EndRequest(r)
                           \/ Request(r) \/ Alerts(r) \/ OtherAlert(r)
     \/ DropStart \/ Drop

(* The goroutine of a request, of its alerts and of Drop runs when it can;  *)
(* nothing of the pieces, of the clients and of whoever removes a torrent.  *)
Fairness ==
  /\ \A r \in Readers : WF_vars(~crashed /\ Request(r)) /\ WF_vars(~crashed /\ Alerts(r))
  /\ WF_vars(~crashed /\ Drop)

Spec == Init /\ [][Next]_vars

FairSpec == Spec /\ Fairness

-----------------------------------------------------------------------------
(* The event wakes whoever waits when it is set, unless C and Set have each *)
(* made a channel at the same time (event.go:29, 53): a waiter holds the    *)
(* channel that was closed.                                                 *)
SetWakes ==
  \A r \in Readers : pc[r] = "wait" /\ flag[r] /\ ch[r] = 1 => mine[r] \in shut[r]

(* The process dies of a reader only while its torrent is being dropped: a  *)
(* request that ends never meets another setter of its event before.        *)
DiesOnlyInDrop == crashed => closer

(* Drop wakes every reader that waits, but the one whose event has lost its *)
(* channel and the one that was opened meanwhile: that one is neither in    *)
(* the loop nor, for certain, told of the removal.                          *)
DropWakes ==
  \A r \in Readers :
    (pc[r] = "wait" /\ closer) ~> (pc[r] # "wait" \/ crashed \/ ch[r] = 2 \/ r \in late)
=============================================================================
