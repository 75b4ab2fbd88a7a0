--------------------------- MODULE TorrentsProofs ---------------------------
(***************************************************************************)
(* ListMirrorsSession and RestartBringsBack of Torrents, for any torrents, *)
(* any number of requests at once and any number of additions.             *)
(***************************************************************************)
EXTENDS Torrents, Integers, SequenceTheorems, TLAPS

Added == 1..adds
Slots == 1..Len(queue)

Fields == {"hash", "meta", "chosen", "next", "timer", "attached", "closed"}

\* The list of objects is one, whatever their fields hold.
Objects(f) == DOMAIN f = Ids /\ \A i \in Ids : DOMAIN f[i] = Fields

Requests == [pc : {"idle", "add", "wait", "choose", "play", "ask", "detach"}, id : Nat,
             hash : Hashes \cup {None}, kind : {"play", "api"}]

Types ==
    /\ adds \in Nat /\ adds <= MaxAdds
    /\ Objects(obj)
    /\ \A i \in Added : obj[i].hash \in Hashes
    /\ queue \in Seq(Added)
    /\ \A a \in asking : a.id \in Added
    /\ \A d \in dropping : d.id \in Added
    /\ saving \subseteq Added
    /\ player \in [Players -> Requests]
    /\ \A p \in Players : player[p].pc = "add" => player[p].hash \in Hashes
    /\ DOMAIN loading = {"at", "todo"}

\* The queue has one object of a torrent (Queue.Add).
Unique == \A j, k \in Slots : obj[queue[j]].hash = obj[queue[k]].hash => j = k

\* A torrent has an object in the queue.
InQueue(h) == \E k \in Slots : obj[queue[k]].hash = h
Dropped(h) == \E d \in dropping : obj[d.id].hash = h

\* A request that waits for metadata waits for its own object, and one that
\* waits for RemoveTorrent waits for one call.
Waiting == \A p \in Players : player[p].pc = "wait" => /\ player[p].id \in Added
                                                       /\ obj[player[p].id].hash = player[p].hash
Asking ==
    /\ \A a \in asking : a.by \in Players => player[a.by].pc = "ask"
    /\ \A a, b \in asking : a.by \in Players /\ a.by = b.by => a = b

\* The session and the list: what Drop has yet to remove is not in the list.
Mirror(h) ==
    /\ InQueue(h) => h \in session
    /\ h \in session => InQueue(h) \/ \E d \in dropping : obj[d.id].hash = h /\ d.at = "session"
    /\ Dropped(h) => ~InQueue(h)

\* An object is closed exactly when it has left the list, and a torrent that is
\* being removed has no other object.
ClosedOutside(h) ==
    /\ \A i \in Added : obj[i].hash = h /\ ~obj[i].closed => \E k \in Slots : queue[k] = i
    /\ \A k \in Slots : obj[queue[k]].hash = h => ~obj[queue[k]].closed
    /\ \A a \in asking : obj[a.id].hash = h /\ obj[a.id].closed => ~InQueue(h)
    /\ \A i \in Added : obj[i].hash = h /\ ~obj[i].closed /\ ~obj[i].meta => ~obj[i].chosen

\* Who is about to write a .torrent file, and who is about to delete it.
Saving(h) ==
    /\ \A i \in saving : obj[i].hash = h => InQueue(h) \/ Dropped(h)
    /\ h \in saved => \/ InQueue(h) \/ Dropped(h) \/ loading.at = "no"
                      \/ loading.at = "add" /\ h \in loading.todo

\* The file of a torrent in the list is there or will be, or the torrent has got
\* no metadata in time and is about to go.
Written(i) ==
    \/ obj[i].hash \in saved \/ i \in saving
    \/ \E p \in Players : player[p].pc = "wait" /\ player[p].id = i
    \/ ~obj[i].meta /\ ~obj[i].chosen /\ \E a \in asking : a.id = i

Back(h) ==
    /\ ClosedOutside(h) /\ Saving(h)
    /\ \A i \in Added : obj[i].hash = h /\ ~obj[i].closed => Written(i)

\* The two inductive invariants.
Base == Types /\ Unique /\ Waiting /\ \A h \in Hashes \ excused : Mirror(h)
Restart == Asking /\ \A h \in Hashes \ excused : Back(h)

----------------------------------------------------------------------------
(* The queue *)

\* The places of a torrent in the queue: none, or the one that is found.
LEMMA OnePlace ==
    ASSUME Types, Unique, NEW h
    PROVE  /\ ~InQueue(h) => FindByHash(h) = 0 /\ Positions(h) = {}
           /\ InQueue(h) => /\ First(Positions(h)) \in Slots
                            /\ FindByHash(h) = queue[First(Positions(h))]
                            /\ FindByHash(h) \in Added /\ obj[FindByHash(h)].hash = h
<1>1. CASE ~InQueue(h)
  BY <1>1 DEF InQueue, Positions, Slots, FindByHash
<1>2. CASE InQueue(h)
  <2>1. PICK k \in Slots : obj[queue[k]].hash = h
    BY <1>2 DEF InQueue
  <2>2. Positions(h) = {k}
    BY <2>1 DEF Positions, Slots, Unique
  <2>3. First({k}) = k
    BY <2>1 DEF First, Slots
  <2>4. queue[k] \in Added
    BY <2>1 DEF Types, Slots
  <2> QED
    BY <1>2, <2>1, <2>2, <2>3, <2>4 DEF FindByHash
<1> QED
  BY <1>1, <1>2

\* A sequence without its k-th element.
Cut(q, k) == SubSeq(q, 1, k - 1) \o SubSeq(q, k + 1, Len(q))

LEMMA Concatenated ==
    ASSUME NEW S, NEW a \in Seq(S), NEW b \in Seq(S)
    PROVE  /\ a \o b \in Seq(S) /\ Len(a \o b) = Len(a) + Len(b)
           /\ \A j \in 1..(Len(a) + Len(b)) : (a \o b)[j] = IF j <= Len(a) THEN a[j] ELSE b[j - Len(a)]
BY ConcatProperties

LEMMA Without ==
    ASSUME NEW S, NEW q \in Seq(S), NEW k \in 1..Len(q)
    PROVE  /\ Cut(q, k) \in Seq(S) /\ Len(Cut(q, k)) = Len(q) - 1
           /\ \A j \in 1..(Len(q) - 1) : Cut(q, k)[j] = IF j < k THEN q[j] ELSE q[j + 1]
<1> DEFINE a == SubSeq(q, 1, k - 1)
           b == SubSeq(q, k + 1, Len(q))
<1>1. a \in Seq(S) /\ Len(a) = k - 1 /\ \A j \in 1..(k - 1) : a[j] = q[j]
  OBVIOUS
<1>2. b \in Seq(S) /\ Len(b) = Len(q) - k /\ \A j \in 1..(Len(q) - k) : b[j] = q[j + k]
  OBVIOUS
<1>3. Cut(q, k) = a \o b
  BY DEF Cut
<1>4. k \in Nat /\ k > 0 /\ k <= Len(q) /\ Len(q) \in Nat
  OBVIOUS
<1> HIDE DEF a, b
<1> DEFINE r == a \o b
<1>5. /\ r \in Seq(S) /\ Len(r) = Len(a) + Len(b)
      /\ \A j \in 1..(Len(a) + Len(b)) : r[j] = IF j <= Len(a) THEN a[j] ELSE b[j - Len(a)]
  BY <1>1, <1>2, Concatenated
<1> HIDE DEF r
<1>6. Len(a) + Len(b) = Len(q) - 1
  BY <1>1, <1>2, <1>4
<1>7. ASSUME NEW j \in 1..(Len(q) - 1) PROVE r[j] = IF j < k THEN q[j] ELSE q[j + 1]
  <2>0. j \in Nat /\ j > 0 /\ j <= Len(q) - 1
    BY <1>4
  <2>1. CASE j < k
    BY <1>1, <1>5, <1>6, <1>4, <2>0, <2>1
  <2>2. CASE j >= k
    <3>1. r[j] = b[j - (k - 1)] /\ j - (k - 1) \in 1..(Len(q) - k)
      BY <1>1, <1>5, <1>6, <1>4, <2>0, <2>2
    <3>2. (j - (k - 1)) + k = j + 1
      BY <1>4, <2>0
    <3> QED
      BY <1>2, <2>2, <3>1, <3>2, <2>0, <1>4
  <2> QED
    BY <1>4, <2>0, <2>1, <2>2
<1>8. Len(r) = Len(q) - 1 /\ Cut(q, k) = r
  BY <1>3, <1>5, <1>6 DEF r
<1> QED
  BY <1>5, <1>7, <1>8
----------------------------------------------------------------------------
(* Steps that touch neither the list nor the session *)

\* The list and the session stay, and who is in which torrent, and closed.
Quiet ==
    /\ adds' = adds /\ queue' = queue /\ session' = session
    /\ excused \subseteq excused'
    /\ Objects(obj')
    /\ \A i \in Added : obj'[i].hash = obj[i].hash /\ obj'[i].closed = obj[i].closed

LEMMA Sizes ==
    ASSUME Types
    PROVE  /\ MaxAdds \in Nat /\ adds \in Nat /\ Added \subseteq Ids /\ 0 \notin Added
           /\ Len(queue) \in Nat /\ \A k \in Slots : queue[k] \in Added
           /\ None \notin Hashes
BY TorrentsAssumption DEF Types, Added, Ids, Slots

LEMMA QuietKeeps ==
    ASSUME Types, Unique, Quiet, dropping' \subseteq dropping,
           \A d \in dropping \ dropping' : d.at # "session"
    PROVE  /\ Unique'
           /\ \A h \in Hashes : InQueue(h)' <=> InQueue(h)
           /\ \A h \in Hashes : Mirror(h) => Mirror(h)'
<1>1. \A k \in Slots : queue'[k] = queue[k] /\ queue[k] \in Added /\ obj'[queue'[k]].hash = obj[queue[k]].hash
  BY Sizes DEF Quiet
<1>2. Slots' = Slots
  BY DEF Quiet, Slots
<1>3. Unique'
  BY <1>1, <1>2 DEF Unique, Quiet
<1>4. \A h \in Hashes : InQueue(h)' <=> InQueue(h)
  BY <1>1, <1>2 DEF InQueue, Quiet
<1>5. \A d \in dropping' : d \in dropping /\ obj'[d.id].hash = obj[d.id].hash
  BY DEF Types, Quiet
<1>6. \A d \in dropping : d.at = "session" => d \in dropping' /\ obj'[d.id].hash = obj[d.id].hash
  BY DEF Types, Quiet
<1>7. ASSUME NEW h \in Hashes, Mirror(h) PROVE Mirror(h)'
  BY <1>4, <1>5, <1>6, <1>7 DEF Mirror, Dropped, Quiet
<1> QED
  BY <1>3, <1>4, <1>7

\* A request that is to add or waits is the one it was.
Same(q) == player'[q].pc \in {"add", "wait"} => player'[q] = player[q]

\* The changes of an object keep what it is.
LEMMA Attach ==
    ASSUME Types, NEW i, NEW kind, NEW f, f = [obj EXCEPT ![i] = SetTorrent(i, kind)]
    PROVE  /\ Objects(f)
           /\ \A j \in Ids : /\ f[j].hash = obj[j].hash /\ f[j].meta = obj[j].meta
                              /\ f[j].chosen = obj[j].chosen /\ f[j].closed = obj[j].closed
BY DEF Types, SetTorrent, Objects, Fields


\* Calls of RemoveTorrent are about objects that were added.
LEMMA AskAdded ==
    ASSUME Types, Unique, NEW h, NEW drop, NEW by, Ask(FindByHash(h), drop, by)
    PROVE  \A a \in asking' : a \in asking \/ (a.id \in Added /\ a.id = FindByHash(h) /\ a.by = by /\ a.drop = drop)
<1>1. FindByHash(h) # 0 => FindByHash(h) \in Added
  BY OnePlace
<1> QED
  BY <1>1 DEF Ask

\* What is left of Types when the list is left alone.
LEMMA QuietTypes ==
    ASSUME Types, Quiet, \A a \in asking' : a.id \in Added, dropping' \subseteq dropping,
           saving' \subseteq Added, player' \in [Players -> Requests],
           \A q \in Players : Same(q), loading' = loading
    PROVE  Types'
BY DEF Types, Quiet, Added, Same

LEMMA QuietWaiting ==
    ASSUME Types, Waiting, Quiet,
           \A q \in Players : player'[q].pc = "wait" => player'[q] = player[q]
    PROVE  Waiting'
BY DEF Types, Quiet, Added, Waiting

\* A step that touches no object.
LEMMA SameObjects ==
    ASSUME Types, UNCHANGED <<adds, queue, session, obj>>, excused \subseteq excused'
    PROVE  Quiet
BY DEF Types, Quiet

LEMMA RequestQuiet ==
    ASSUME Types, Unique, Waiting, NEW p \in Players, NEW h \in Hashes, NEW k \in {"play", "api"}, Request(p, h, k)
    PROVE  Types' /\ Waiting' /\ Quiet
<1>1. FindByHash(h) \in Nat
  BY OnePlace, Sizes DEF Ids
<1>2. player' \in [Players -> Requests] /\ \A q \in Players : player'[q].pc = "add" => player'[q].hash \in Hashes
  BY <1>1 DEF Types, Request, Requests, Same
<1>3. Quiet
  <2>1. Objects(obj')
    BY Attach DEF Types, Request
  <2>2. \A i \in Added : obj'[i].hash = obj[i].hash /\ obj'[i].closed = obj[i].closed
    BY Attach, Sizes DEF Types, Request
  <2> QED
    BY <2>1, <2>2 DEF Request, Quiet
<1>4. \A q \in Players : player'[q].pc = "wait" => player'[q] = player[q]
  BY DEF Request, Types, Requests
<1>5. Waiting'
  BY <1>3, <1>4, QuietWaiting
<1> QED
  BY <1>2, <1>3, <1>5 DEF Request, Types, Quiet, Added

LEMMA GotMetadataQuiet ==
    ASSUME Types, Waiting, NEW p \in Players, GotMetadata(p)
    PROVE  Types' /\ Waiting' /\ Quiet
<1>1. player[p].id \in Added
  BY DEF Waiting, GotMetadata
<1>2. DOMAIN obj' = Ids /\ \A j \in Ids \ {player[p].id} : obj'[j] = obj[j]
  BY DEF Types, Objects, GotMetadata
<1>3. LET r == obj'[player[p].id]
      IN DOMAIN r = Fields /\ r.hash = obj[player[p].id].hash /\ r.closed = obj[player[p].id].closed
  BY <1>1, Sizes DEF Types, Objects, GotMetadata, SetTorrent, Fields
<1>4. Quiet
  BY <1>2, <1>3, Sizes DEF Quiet, GotMetadata, Objects, Types
<1>5. player' \in [Players -> Requests] /\ \A q \in Players : Same(q)
  BY DEF Types, GotMetadata, Requests, Same
<1>6. saving' \subseteq Added /\ asking' = asking /\ dropping' = dropping /\ loading' = loading
  BY <1>1 DEF GotMetadata, Types
<1> QED
  BY <1>4, <1>5, <1>6, QuietTypes, QuietWaiting DEF Types, Same

LEMMA RequestsQuiet ==
    ASSUME Types, Unique, Waiting, NEW p \in Players,
           MetadataTimeout(p) \/ ChooseFile(p) \/ ChooseNothing(p) \/ DetachPlayer(p)
    PROVE  Types' /\ Waiting' /\ Quiet
<1>1. CASE MetadataTimeout(p)
  <2>1. \A a \in asking' : a.id \in Added
    BY <1>1, AskAdded DEF MetadataTimeout, Types
  <2>2. player' \in [Players -> Requests] /\ \A q \in Players : Same(q)
    BY <1>1 DEF Types, MetadataTimeout, Requests, Idle, Same
  <2> QED
    BY <1>1, <2>1, <2>2, SameObjects, QuietTypes, QuietWaiting DEF MetadataTimeout, Types, Same
<1>2. CASE ChooseFile(p)
  <2>1. Quiet
    BY <1>2, Sizes DEF Types, Objects, ChooseFile, Quiet, Fields
  <2>2. player' \in [Players -> Requests] /\ \A q \in Players : Same(q)
    BY <1>2 DEF Types, ChooseFile, Requests, Idle, Same
  <2> QED
    BY <1>2, <2>1, <2>2, QuietTypes, QuietWaiting DEF ChooseFile, Types, Same
<1>3. CASE ChooseNothing(p)
  <2>2. player' \in [Players -> Requests] /\ \A q \in Players : Same(q)
    BY <1>3 DEF Types, ChooseNothing, Requests, Idle, Same
  <2> QED
    BY <1>3, <2>2, SameObjects, QuietTypes, QuietWaiting DEF ChooseNothing, Types, Same
<1>4. CASE DetachPlayer(p)
  <2>1. Quiet
    BY <1>4, Sizes DEF Types, Objects, DetachPlayer, Quiet, Fields
  <2>2. player' \in [Players -> Requests] /\ \A q \in Players : Same(q)
    BY <1>4 DEF Types, DetachPlayer, Requests, Idle, Same
  <2> QED
    BY <1>4, <2>1, <2>2, QuietTypes, QuietWaiting DEF DetachPlayer, Types, Same
<1> QED
  BY <1>1, <1>2, <1>3, <1>4

LEMMA ClosePlayerQuiet ==
    ASSUME Types, Unique, Waiting, NEW p \in Players, NEW next \in BOOLEAN, ClosePlayer(p, next)
    PROVE  Types' /\ Waiting' /\ Quiet
<1>1. Quiet
  BY Sizes DEF Types, Objects, ClosePlayer, Quiet, Fields
<1>2. \A a \in asking' : a.id \in Added
  BY AskAdded DEF ClosePlayer, Types
<1>3. player' \in [Players -> Requests] /\ \A q \in Players : Same(q)
  BY DEF Types, ClosePlayer, Requests, Same
<1> QED
  BY <1>1, <1>2, <1>3, QuietTypes, QuietWaiting DEF ClosePlayer, Types, Same

LEMMA ObjectsQuiet ==
    ASSUME Types, Unique, Waiting, NEW i \in Ids, NextTimer(i) \/ StopNextFiles(i) \/ SaveMetainfo(i)
    PROVE  Types' /\ Waiting' /\ Quiet
<1>1. Quiet
  <2>1. CASE NextTimer(i)
    BY <2>1, Sizes DEF Types, Objects, NextTimer, Quiet, Fields
  <2>2. CASE StopNextFiles(i)
    BY <2>2, Sizes DEF Types, Objects, StopNextFiles, Quiet, Fields
  <2>3. CASE SaveMetainfo(i)
    BY <2>3, SameObjects DEF SaveMetainfo
  <2> QED
    BY <2>1, <2>2, <2>3
<1>2. \A a \in asking' : a.id \in Added
  BY AskAdded DEF NextTimer, StopNextFiles, SaveMetainfo, Types
<1>3. player' = player /\ saving' \subseteq saving /\ dropping' = dropping /\ loading' = loading
  BY DEF NextTimer, StopNextFiles, SaveMetainfo
<1> QED
  BY <1>1, <1>2, <1>3, QuietTypes, QuietWaiting DEF Types, Same

LEMMA ListQuiet ==
    ASSUME Types, Unique, Waiting, NEW h \in Hashes,
           RemoveByUser(h) \/ MoveFound(h) \/ \E chosen \in BOOLEAN : Select(h, chosen)
    PROVE  Types' /\ Waiting' /\ Quiet
<1>1. Quiet
  <2>1. CASE RemoveByUser(h) \/ MoveFound(h)
    BY <2>1, SameObjects DEF RemoveByUser, MoveFound
  <2>2. ASSUME NEW chosen \in BOOLEAN, Select(h, chosen) PROVE Quiet
    BY <2>2, Sizes DEF Types, Objects, Select, Quiet, Fields
  <2> QED
    BY <2>1, <2>2
<1>2. \A a \in asking' : a.id \in Added
  BY AskAdded DEF RemoveByUser, MoveFound, Select, Types
<1>3. player' = player /\ saving' = saving /\ dropping' = dropping /\ loading' = loading
  BY DEF RemoveByUser, MoveFound, Select
<1> QED
  BY <1>1, <1>2, <1>3, QuietTypes, QuietWaiting DEF Types, Same

\* A call that has its answer.
LEMMA AnsweredFacts ==
    ASSUME Types, NEW a \in asking, Answered(a)
    PROVE  player' \in [Players -> Requests] /\ \A q \in Players : Same(q)
<1>1. CASE a.by \in Players
  <2>1. PICK p \in Players : p = a.by
    BY <1>1
  <2>2. player' = [player EXCEPT ![p].pc = "detach"] /\ player \in [Players -> Requests]
    BY <2>1 DEF Answered, Types
  <2> QED
    BY <2>2 DEF Requests, Same
<1>2. CASE a.by \notin Players
  BY <1>2 DEF Types, Answered, Same
<1> QED
  BY <1>1, <1>2

LEMMA OthersQuiet ==
    ASSUME Types, Unique, Waiting,
           MoveRemove \/ MoveStart \/ (\E a \in asking : KeepTorrent(a)) \/ (\E d \in dropping : DropFiles(d))
    PROVE  Types' /\ Waiting' /\ Quiet
<1>1. Quiet
  BY SameObjects DEF MoveRemove, MoveStart, KeepTorrent, DropFiles
<1>2. \A a \in asking' : a.id \in Added
  BY AskAdded DEF MoveRemove, MoveStart, KeepTorrent, DropFiles, Types, Answered
<1>3. saving' = saving /\ dropping' \subseteq dropping /\ loading' = loading
  BY DEF MoveRemove, MoveStart, KeepTorrent, DropFiles
<1>4. player' \in [Players -> Requests] /\ \A q \in Players : Same(q)
  <2>1. ASSUME NEW a \in asking, KeepTorrent(a) PROVE player' \in [Players -> Requests] /\ \A q \in Players : Same(q)
    BY <2>1, AnsweredFacts DEF KeepTorrent
  <2> QED
    BY <2>1 DEF MoveRemove, MoveStart, DropFiles, Types, Same
<1> QED
  BY <1>1, <1>2, <1>3, <1>4, QuietTypes, QuietWaiting DEF Types, Same

LEMMA LoadEndsQuiet ==
    ASSUME Types, Waiting, LoadEnds
    PROVE  Types' /\ Waiting' /\ Quiet
<1>1. Quiet
  BY SameObjects DEF LoadEnds
<1> QED
  BY <1>1, QuietWaiting DEF LoadEnds, Types, Added

----------------------------------------------------------------------------
(* AddTorrent *)

LEMMA AddFacts ==
    ASSUME Types, Unique, NEW h \in Hashes, NEW m, NEW c, Add(h, m, c)
    PROVE  /\ adds' = adds + 1 /\ adds' \in Nat /\ adds' <= MaxAdds
           /\ Objects(obj')
           /\ \A i \in Added : obj'[i] = obj[i]
           /\ obj'[adds'].hash = h /\ obj'[adds'].meta = m /\ obj'[adds'].chosen = c /\ ~obj'[adds'].closed
           /\ Added' = Added \cup {adds'} /\ adds' \notin Added
           /\ queue' \in Seq(Added')
           /\ InQueue(h) => queue' = queue /\ h \in excused'
           /\ ~InQueue(h) => /\ Len(queue') = Len(queue) + 1 /\ queue'[Len(queue')] = adds'
                             /\ \A k \in Slots : queue'[k] = queue[k]
<1>1. adds' = adds + 1 /\ adds' \in Nat /\ adds' <= MaxAdds /\ adds' \in Ids
  BY Sizes DEF Add, Ids
<1>2. Added' = Added \cup {adds'} /\ adds' \notin Added
  BY <1>1, Sizes DEF Added
<1>3. obj' = [obj EXCEPT ![adds'] = [NoObj EXCEPT !.hash = h, !.meta = m, !.chosen = c]]
  BY <1>1 DEF Add
<1>4. /\ Objects(obj') /\ \A i \in Added : obj'[i] = obj[i]
      /\ obj'[adds'].hash = h /\ obj'[adds'].meta = m /\ obj'[adds'].chosen = c /\ ~obj'[adds'].closed
  BY <1>1, <1>2, <1>3 DEF Types, Objects, NoObj, Fields
<1>5. InQueue(h) => queue' = queue /\ h \in excused'
  BY OnePlace, Sizes DEF Add, QueueAdd
<1>6. ~InQueue(h) => queue' = Append(queue, adds')
  BY <1>1, OnePlace DEF Add, QueueAdd
<1>7. queue \in Seq(Added') /\ adds' \in Added' /\ Len(queue) \in Nat
  BY <1>2, Sizes DEF Types
<1>8. ~InQueue(h) => /\ queue' \in Seq(Added') /\ Len(queue') = Len(queue) + 1 /\ queue'[Len(queue')] = adds'
                     /\ \A k \in Slots : queue'[k] = queue[k]
  BY <1>6, <1>7 DEF Slots
<1> QED
  BY <1>1, <1>2, <1>4, <1>5, <1>7, <1>8
\* A torrent that is added joins the list and the session.
LEMMA AddKeeps ==
    ASSUME Base, NEW h \in Hashes, NEW m, NEW c, Add(h, m, c), dropping' = dropping, asking' = asking
    PROVE  /\ Unique' /\ \A g \in Hashes \ excused' : Mirror(g)'
           /\ \A g \in Hashes : InQueue(g)' <=> InQueue(g) \/ g = h
           /\ excused \subseteq excused'
           /\ h \notin excused' => ~InQueue(h) /\ ~Dropped(h) /\ \A a \in asking : obj[a.id].hash # h
<1> USE DEF Base
<1>1. /\ adds' \notin Added /\ \A i \in Added : obj'[i] = obj[i]
      /\ obj'[adds'].hash = h /\ Len(queue) \in Nat /\ \A k \in Slots : queue[k] \in Added
      /\ \A d \in dropping : d.id \in Added /\ obj'[d.id] = obj[d.id]
  BY AddFacts, Sizes DEF Types
<1>2. excused \subseteq excused' /\ session' = session \cup {h}
  BY DEF Add
<1>3. h \notin excused' => ~InQueue(h) /\ ~Dropped(h) /\ \A a \in asking : obj[a.id].hash # h
  BY OnePlace, Sizes DEF Add, Busy, Dropped
<1>4. CASE InQueue(h)
  <2>1. queue' = queue /\ h \in excused' /\ Slots' = Slots
    BY <1>4, AddFacts DEF Slots
  <2>2. Unique' /\ \A g \in Hashes : InQueue(g)' <=> InQueue(g)
    BY <2>1, <1>1 DEF Unique, InQueue
  <2>3. ASSUME NEW g \in Hashes \ excused' PROVE Mirror(g)'
    BY <2>1, <2>2, <1>1, <1>2 DEF Mirror, Dropped
  <2> QED
    BY <1>2, <1>3, <1>4, <2>2, <2>3
<1>5. CASE ~InQueue(h)
  <2>1. /\ Len(queue') = Len(queue) + 1 /\ queue'[Len(queue')] = adds'
        /\ \A k \in Slots : queue'[k] = queue[k]
    BY <1>5, AddFacts
  <2>2. Slots' = Slots \cup {Len(queue')} /\ Len(queue') \notin Slots
    BY <2>1, <1>1 DEF Slots
  <2>3. \A k \in Slots : obj'[queue'[k]].hash = obj[queue[k]].hash /\ obj'[queue'[k]].hash # h
    BY <1>1, <1>5, <2>1 DEF InQueue
  <2>4. obj'[queue'[Len(queue')]].hash = h
    BY <1>1, <2>1
  <2>5. Unique'
    BY <2>2, <2>3, <2>4 DEF Unique
  <2>6. \A g \in Hashes : InQueue(g)' <=> InQueue(g) \/ g = h
    BY <2>2, <2>3, <2>4 DEF InQueue
  <2>7. ASSUME NEW g \in Hashes \ excused' PROVE Mirror(g)'
    <3>1. Dropped(g)' <=> Dropped(g)
      BY <1>1 DEF Dropped
    <3>2. CASE g = h
      BY <3>1, <3>2, <2>6, <2>7, <1>2, <1>3 DEF Mirror
    <3>3. CASE g # h
      BY <3>1, <3>3, <2>6, <2>7, <1>1, <1>2 DEF Mirror
    <3> QED
      BY <3>2, <3>3
  <2> QED
    BY <1>2, <1>3, <2>5, <2>6, <2>7
<1> QED
  BY <1>4, <1>5

LEMMA AddTorrentStep ==
    ASSUME Base, NEW p \in Players, AddTorrent(p)
    PROVE  Base'
<1> USE DEF Base
<1>1. player[p].hash \in Hashes
  BY DEF Types, AddTorrent
<1>2. PICK m : Add(player[p].hash, m, FALSE)
  BY DEF AddTorrent
<1>3. adds' = adds + 1
  BY <1>2 DEF Add
<1>4. player' = [player EXCEPT ![p].pc = "wait", ![p].id = adds'] /\ adds' \in Nat
  BY <1>1, <1>2, <1>3, AddFacts DEF AddTorrent
<1>5. /\ player' \in [Players -> Requests]
      /\ player'[p].pc = "wait" /\ player'[p].id = adds' /\ player'[p].hash = player[p].hash
      /\ \A q \in Players \ {p} : player'[q] = player[q]
  BY <1>4 DEF Types, Requests
<1>6. /\ adds' \in Nat /\ adds' <= MaxAdds /\ Objects(obj') /\ queue' \in Seq(Added')
      /\ \A i \in Added : obj'[i] = obj[i]
      /\ obj'[adds'].hash = player[p].hash /\ Added' = Added \cup {adds'}
  BY <1>1, <1>2, AddFacts
<1>7. Types'
  <2>1. \A i \in Added' : obj'[i].hash \in Hashes
    BY <1>1, <1>6 DEF Types
  <2>2. \A a \in asking' : a.id \in Added'
    BY <1>6 DEF Types, AddTorrent
  <2>3. \A d \in dropping' : d.id \in Added'
    BY <1>6 DEF Types, AddTorrent
  <2>4. saving' \subseteq Added'
    BY <1>6 DEF Types, AddTorrent
  <2>5. \A q \in Players : player'[q].pc = "add" => player'[q].hash \in Hashes
    BY <1>5 DEF Types
  <2>6. loading' = loading
    BY DEF AddTorrent
  <2> QED
    BY <1>5, <1>6, <2>1, <2>2, <2>3, <2>4, <2>5, <2>6 DEF Types
<1>8. Waiting'
  BY <1>5, <1>6 DEF Waiting
<1> QED
  BY <1>1, <1>2, <1>7, <1>8, AddKeeps DEF AddTorrent

LEMMA LoadTorrentStep ==
    ASSUME Base, NEW h \in Hashes, LoadTorrent(h)
    PROVE  Base'
<1> USE DEF Base
<1>0. DOMAIN loading' = {"at", "todo"}
  BY DEF LoadTorrent, Types
<1>1. CASE h \in saved
  <2>1. Add(h, TRUE, h \in item) /\ saving' = saving \cup {adds + 1}
    BY <1>1 DEF LoadTorrent
  <2>2. /\ adds' = adds + 1 /\ adds' \in Nat /\ adds' <= MaxAdds /\ Objects(obj') /\ queue' \in Seq(Added')
        /\ \A i \in Added : obj'[i] = obj[i]
        /\ obj'[adds'].hash = h /\ Added' = Added \cup {adds'}
    BY <2>1, AddFacts
  <2>3. UNCHANGED <<player, asking, dropping>>
    BY DEF LoadTorrent
  <2>4. \A i \in Added' : obj'[i].hash \in Hashes
    BY <2>2 DEF Types
  <2>5. (\A a \in asking' : a.id \in Added') /\ (\A d \in dropping' : d.id \in Added') /\ saving' \subseteq Added'
    BY <2>1, <2>2, <2>3 DEF Types
  <2>6. Types'
    BY <1>0, <2>2, <2>3, <2>4, <2>5 DEF Types
  <2>7. Waiting'
    BY <2>2, <2>3 DEF Waiting
  <2> QED
    BY <2>1, <2>3, <2>6, <2>7, AddKeeps
<1>2. CASE h \notin saved
  <2>1. UNCHANGED <<session, obj, queue, saving, adds, excused, item, saved, player, asking, dropping, manager>>
    BY <1>2 DEF LoadTorrent
  <2>2. Types' /\ Waiting' /\ Unique'
    BY <1>0, <2>1 DEF Types, Added, Unique, Slots, Waiting
  <2>3. \A g \in Hashes \ excused' : Mirror(g)'
    BY <2>1 DEF Mirror, InQueue, Dropped, Slots
  <2> QED
    BY <2>2, <2>3
<1> QED
  BY <1>1, <1>2

\* Clean takes all off the list and excuses them.
LEMMA LoadTorrentFilesStep ==
    ASSUME Base, LoadTorrentFiles
    PROVE  Base'
<1> USE DEF Base
<1>1. queue' = <<>> /\ Len(queue') = 0 /\ Slots' = {}
  BY DEF LoadTorrentFiles, Slots
<1>2. UNCHANGED <<obj, adds, asking, dropping, saving, player, session>>
  BY DEF LoadTorrentFiles
<1>3. Types' /\ Waiting' /\ Unique'
  BY <1>1, <1>2 DEF LoadTorrentFiles, Types, Added, Waiting, Unique
<1>4. ASSUME NEW g \in Hashes \ excused' PROVE Mirror(g)'
  <2>1. ~InQueue(g) /\ ~InQueue(g)' /\ g \notin excused
    BY <1>1, <1>4 DEF LoadTorrentFiles, InQueue, Slots
  <2> QED
    BY <1>2, <2>1 DEF Mirror
<1> QED
  BY <1>3, <1>4

----------------------------------------------------------------------------
(* RemoveTorrent and Drop *)

\* The torrent leaves the list, and the others stay.
LEMMA DeleteFacts ==
    ASSUME Types, Unique, NEW h \in Hashes, QueueDelete(h)
    PROVE  /\ queue' \in Seq(Added)
           /\ \A j \in Slots' : \E k \in Slots : queue'[j] = queue[k] /\ obj[queue[k]].hash # h
           /\ \A k \in Slots : obj[queue[k]].hash # h => \E j \in Slots' : queue'[j] = queue[k]
           /\ \A i, j \in Slots' : obj[queue'[i]].hash = obj[queue'[j]].hash => i = j
<1>0. queue \in Seq(Added) /\ Len(queue) \in Nat
  BY DEF Types
<1>1. CASE ~InQueue(h)
  BY <1>0, <1>1, OnePlace DEF QueueDelete, InQueue, Unique, Slots
<1>2. CASE InQueue(h)
  <2> DEFINE k == First(Positions(h))
  <2>1. k \in Slots /\ obj[queue[k]].hash = h /\ FindByHash(h) # 0
    BY <1>2, OnePlace, Sizes
  <2>2. queue' = Cut(queue, k)
    BY <2>1 DEF QueueDelete, Cut
  <2> HIDE DEF k
  <2>3. /\ queue' \in Seq(Added) /\ Len(queue') = Len(queue) - 1
        /\ \A j \in 1..(Len(queue) - 1) : queue'[j] = IF j < k THEN queue[j] ELSE queue[j + 1]
    BY <1>0, <2>1, <2>2, Without DEF Slots
  <2>4. Slots' = 1..(Len(queue) - 1) /\ k \in 1..Len(queue) /\ Slots = 1..Len(queue)
    BY <2>1, <2>3 DEF Slots
  <2>5. ASSUME NEW j \in Slots'
        PROVE  \E l \in Slots : l # k /\ queue'[j] = queue[l] /\ (l = j \/ l = j + 1) /\ (l = j <=> j < k)
    <3>1. CASE j < k
      <4>1. j \in Slots /\ j # k /\ queue'[j] = queue[j]
        BY <1>0, <2>3, <2>4, <3>1
      <4> QED
        BY <3>1, <4>1
    <3>2. CASE ~(j < k)
      <4>1. j + 1 \in Slots /\ j + 1 # k /\ queue'[j] = queue[j + 1] /\ j + 1 # j
        BY <1>0, <2>3, <2>4, <3>2
      <4> QED
        BY <3>2, <4>1
    <3> QED
      BY <3>1, <3>2
  <2>6. \A l \in Slots : obj[queue[l]].hash = h => l = k
    BY <2>1 DEF Unique
  <2>7. \A j \in Slots' : \E l \in Slots : queue'[j] = queue[l] /\ obj[queue[l]].hash # h
    BY <2>5, <2>6
  <2>8. ASSUME NEW l \in Slots, obj[queue[l]].hash # h PROVE \E j \in Slots' : queue'[j] = queue[l]
    <3>1. l # k
      BY <2>1, <2>8
    <3>2. CASE l < k
      BY <1>0, <2>3, <2>4, <3>2
    <3>3. CASE l > k
      <4>1. l - 1 \in Slots' /\ ~(l - 1 < k) /\ (l - 1) + 1 = l
        BY <1>0, <2>4, <3>3
      <4> QED
        BY <2>3, <2>4, <4>1
    <3> QED
      BY <2>4, <3>1, <3>2, <3>3, <1>0
  <2>9. ASSUME NEW i \in Slots', NEW j \in Slots', obj[queue'[i]].hash = obj[queue'[j]].hash PROVE i = j
    <3>1. PICK l \in Slots : queue'[i] = queue[l] /\ (l = i \/ l = i + 1) /\ (l = i <=> i < k)
      BY <2>5
    <3>2. PICK m \in Slots : queue'[j] = queue[m] /\ (m = j \/ m = j + 1) /\ (m = j <=> j < k)
      BY <2>5
    <3>3. l = m
      BY <2>9, <3>1, <3>2 DEF Unique
    <3> QED
      BY <1>0, <2>4, <3>1, <3>2, <3>3
  <2> QED
    BY <2>3, <2>7, <2>8, <2>9
<1> QED
  BY <1>1, <1>2

LEMMA RemoveTorrentStep ==
    ASSUME Base, NEW a \in asking, RemoveTorrent(a)
    PROVE  Base'
<1> USE DEF Base
<1>0. a.id \in Added /\ a.id \in Ids
  BY Sizes DEF Types
<1>1. PICK h \in Hashes : h = obj[a.id].hash
  BY <1>0 DEF Types
<1>2. /\ QueueDelete(h) /\ obj' = [obj EXCEPT ![a.id].closed = TRUE]
      /\ dropping' = dropping \cup {[id |-> a.id, at |-> "session"]}
  BY <1>1 DEF RemoveTorrent
<1>3. UNCHANGED <<session, saving, excused, adds, loading>> /\ asking' = asking \ {a} /\ Added' = Added
  BY DEF RemoveTorrent, Answered, Added
<1>4. Objects(obj') /\ \A i \in Added : obj'[i].hash = obj[i].hash
  BY <1>0, <1>1, <1>2, Sizes DEF Types, Objects, Fields
<1>5. /\ queue' \in Seq(Added)
      /\ \A j \in Slots' : \E k \in Slots : queue'[j] = queue[k] /\ obj[queue[k]].hash # h
      /\ \A k \in Slots : obj[queue[k]].hash # h => \E j \in Slots' : queue'[j] = queue[k]
      /\ \A i, j \in Slots' : obj[queue'[i]].hash = obj[queue'[j]].hash => i = j
  BY <1>0, <1>1, <1>2, DeleteFacts
<1>6. /\ player' \in [Players -> Requests] /\ \A q \in Players : Same(q)
  BY AnsweredFacts DEF RemoveTorrent
<1>7. Types'
  <2>1. \A d \in dropping' : d.id \in Added'
    BY <1>0, <1>1, <1>2, <1>3 DEF Types
  <2> QED
    BY <1>3, <1>4, <1>5, <1>6, <2>1 DEF Types, Same
<1>8. Waiting'
  BY <1>3, <1>4, <1>6 DEF Waiting, Same
<1>9. \A j \in Slots' : queue'[j] \in Added /\ obj'[queue'[j]].hash = obj[queue'[j]].hash
  BY <1>4, <1>5, Sizes
<1>10. Unique'
  BY <1>5, <1>9 DEF Unique
<1>11. ~InQueue(h)' /\ \A g : g # h => (InQueue(g)' <=> InQueue(g))
  BY <1>5, <1>9 DEF InQueue
<1>12. /\ \A d \in dropping : d \in dropping' /\ obj'[d.id].hash = obj[d.id].hash
       /\ \A d \in dropping' : d \in dropping \/ obj'[d.id].hash = h
       /\ \E d \in dropping' : obj'[d.id].hash = h /\ d.at = "session"
  <2> DEFINE e == [id |-> a.id, at |-> "session"]
  <2>1. e.id = a.id /\ e.at = "session" /\ dropping' = dropping \cup {e}
    BY <1>2
  <2> HIDE DEF e
  <2>2. obj'[e.id].hash = h
    BY <1>0, <1>1, <1>4, <2>1
  <2> QED
    BY <1>4, <2>1, <2>2 DEF Types
<1>13. ASSUME NEW g \in Hashes \ excused' PROVE Mirror(g)'
  <2>1. Mirror(g)
    BY <1>3, <1>13
  <2>2. CASE g = h
    BY <1>11, <1>12, <2>2 DEF Mirror
  <2>3. CASE g # h
    BY <1>3, <1>11, <1>12, <2>1, <2>3 DEF Mirror, Dropped
  <2> QED
    BY <2>2, <2>3
<1> QED
  BY <1>7, <1>8, <1>10, <1>13

LEMMA DropSessionStep ==
    ASSUME Base, NEW d \in dropping, DropSession(d)
    PROVE  Base'
<1> USE DEF Base
<1>1. UNCHANGED <<obj, queue, saving, player, asking, adds, excused, loading>>
  BY DEF DropSession
<1>2. d.id \in Added
  BY DEF Types
<1> DEFINE e == [d EXCEPT !.at = "files"]
           h == obj[d.id].hash
<1>3. d.at = "session" /\ dropping' = (dropping \ {d}) \cup {e} /\ session' = session \ {h}
  BY DEF DropSession
<1>4. e.id = d.id
  OBVIOUS
<1> HIDE DEF e, h
<1>5. Types' /\ Waiting' /\ Unique'
  BY <1>1, <1>2, <1>3, <1>4 DEF Types, Added, Waiting, Unique, Slots
<1>6. ASSUME NEW g \in Hashes \ excused' PROVE Mirror(g)'
  <2>1. Mirror(g) /\ (InQueue(g)' <=> InQueue(g)) /\ (Dropped(g)' <=> Dropped(g))
    BY <1>1, <1>3, <1>4, <1>6 DEF InQueue, Slots, Dropped
  <2>2. CASE g = h
    <3>1. Dropped(g)
      BY <2>2 DEF Dropped, h
    <3> QED
      BY <1>3, <2>1, <2>2, <3>1 DEF Mirror
  <2>3. CASE g # h
    <3>1. \A x \in dropping : obj[x.id].hash = g => x \in dropping'
      BY <1>3, <2>3 DEF h
    <3> QED
      BY <1>1, <1>3, <2>1, <2>3, <3>1 DEF Mirror
  <2> QED
    BY <2>2, <2>3
<1> QED
  BY <1>5, <1>6

----------------------------------------------------------------------------
(* The list mirrors the session *)

LEMMA QuietStep ==
    ASSUME Base, Types' /\ Waiting' /\ Quiet,
           dropping' \subseteq dropping, \A d \in dropping \ dropping' : d.at # "session"
    PROVE  Base'
<1>1. \A h \in Hashes : h \notin excused' => h \notin excused
  BY DEF Quiet
<1> QED
  BY <1>1, QuietKeeps DEF Base

LEMMA MirrorInit == Init => Base
<1> SUFFICES ASSUME Init PROVE Base
  OBVIOUS
<1>1. adds = 0 /\ queue = <<>> /\ Len(queue) = 0 /\ Added = {} /\ Slots = {}
  BY DEF Init, Added, Slots
<1>2. Objects(obj)
  BY DEF Init, Objects, NoObj, Fields
<1>3. player \in [Players -> Requests] /\ \A p \in Players : player[p].pc = "idle"
  BY DEF Init, Idle, Requests
<1>4. Types /\ Unique /\ Waiting
  BY <1>1, <1>2, <1>3, TorrentsAssumption DEF Init, Types, Unique, Waiting
<1> QED
  BY <1>1, <1>4 DEF Init, Base, Mirror, InQueue, Dropped

LEMMA MirrorStep == Base /\ [Next]_vars => Base'
<1> SUFFICES ASSUME Base, [Next]_vars PROVE Base'
  OBVIOUS
<1>0. Types /\ Unique /\ Waiting
  BY DEF Base
<1>1. ASSUME NEW p \in Players, NEW h \in Hashes, NEW k \in {"play", "api"}, Request(p, h, k) PROVE Base'
  BY <1>0, <1>1, RequestQuiet, QuietStep DEF Request
<1>2. ASSUME NEW p \in Players, AddTorrent(p) PROVE Base'
  BY <1>2, AddTorrentStep
<1>3. ASSUME NEW p \in Players, GotMetadata(p) PROVE Base'
  BY <1>0, <1>3, GotMetadataQuiet, QuietStep DEF GotMetadata
<1>4. ASSUME NEW p \in Players, MetadataTimeout(p) \/ ChooseFile(p) \/ ChooseNothing(p) \/ DetachPlayer(p) PROVE Base'
  <2>1. dropping' = dropping
    BY <1>4 DEF MetadataTimeout, ChooseFile, ChooseNothing, DetachPlayer
  <2> QED
    BY <1>0, <1>4, <2>1, RequestsQuiet, QuietStep
<1>5. ASSUME NEW p \in Players, NEW next \in BOOLEAN, ClosePlayer(p, next) PROVE Base'
  BY <1>0, <1>5, ClosePlayerQuiet, QuietStep DEF ClosePlayer
<1>6. ASSUME NEW i \in Ids, SaveMetainfo(i) \/ NextTimer(i) \/ StopNextFiles(i) PROVE Base'
  <2>1. dropping' = dropping
    BY <1>6 DEF SaveMetainfo, NextTimer, StopNextFiles
  <2> QED
    BY <1>0, <1>6, <2>1, ObjectsQuiet, QuietStep
<1>7. ASSUME NEW h \in Hashes, RemoveByUser(h) \/ MoveFound(h) \/ \E chosen \in BOOLEAN : Select(h, chosen)
      PROVE Base'
  <2>1. dropping' = dropping
    BY <1>7 DEF RemoveByUser, MoveFound, Select
  <2> QED
    BY <1>0, <1>7, <2>1, ListQuiet, QuietStep
<1>8. ASSUME NEW h \in Hashes, LoadTorrent(h) PROVE Base'
  BY <1>8, LoadTorrentStep
<1>9. ASSUME NEW a \in asking, RemoveTorrent(a) PROVE Base'
  BY <1>9, RemoveTorrentStep
<1>10. ASSUME NEW d \in dropping, DropSession(d) PROVE Base'
  BY <1>10, DropSessionStep
<1>11. CASE MoveRemove \/ MoveStart \/ (\E a \in asking : KeepTorrent(a)) \/ (\E d \in dropping : DropFiles(d))
  <2>1. dropping' \subseteq dropping /\ \A d \in dropping \ dropping' : d.at # "session"
    BY <1>11 DEF MoveRemove, MoveStart, KeepTorrent, DropFiles
  <2> QED
    BY <1>0, <1>11, <2>1, OthersQuiet, QuietStep
<1>12. CASE LoadTorrentFiles
  BY <1>12, LoadTorrentFilesStep
<1>13. CASE LoadEnds
  BY <1>0, <1>13, LoadEndsQuiet, QuietStep DEF LoadEnds
<1>14. CASE UNCHANGED vars
  BY <1>0, <1>14, SameObjects, QuietStep, QuietWaiting DEF vars, Types, Added
<1> QED
  BY <1>1, <1>2, <1>3, <1>4, <1>5, <1>6, <1>7, <1>8, <1>9, <1>10, <1>11, <1>12, <1>13, <1>14 DEF Next

\* A torrent is in the list if and only if libtorrent has it, but for one that RemoveTorrent has
\* taken off the list and Drop is about to remove from the session, and for accidents.
THEOREM ListAndSessionAgree == Spec => []ListMirrorsSession
<1>1. Base => ListMirrorsSession
  BY OnePlace, Sizes DEF Base, ListMirrorsSession, Listed, Mirror
<1> QED
  BY <1>1, MirrorInit, MirrorStep, PTL DEF Spec

----------------------------------------------------------------------------
(* What brings a torrent back: steps that are quiet *)

\* The object of a torrent that is in the list, and its object that is not closed, are one.
LEMMA OneObject ==
    ASSUME Base, NEW h \in Hashes, ClosedOutside(h), NEW i \in Added, obj[i].hash = h
    PROVE  /\ ~obj[i].closed => InQueue(h) /\ FindByHash(h) = i
           /\ InQueue(h) /\ FindByHash(h) = i => ~obj[i].closed
<1> USE DEF Base
<1>1. ASSUME ~obj[i].closed PROVE InQueue(h) /\ FindByHash(h) = i
  <2>1. PICK k \in Slots : queue[k] = i
    BY <1>1 DEF ClosedOutside
  <2>2. InQueue(h)
    BY <2>1 DEF InQueue
  <2>3. First(Positions(h)) = k
    BY <2>1, <2>2, OnePlace DEF Unique
  <2> QED
    BY <2>1, <2>2, <2>3, OnePlace
<1>2. ASSUME InQueue(h), FindByHash(h) = i PROVE ~obj[i].closed
  BY <1>2, OnePlace DEF ClosedOutside
<1> QED
  BY <1>1, <1>2

\* A step keeps what it does not touch of one object.
LEMMA QuietWritten ==
    ASSUME Base, Quiet, NEW i \in Added, Written(i), saved \subseteq saved', asking \subseteq asking',
           i \in saving => i \in saving' \/ obj[i].hash \in saved',
           \A p \in Players : player[p].pc = "wait" /\ player[p].id = i => player'[p] = player[p],
           obj'[i].meta = obj[i].meta, obj'[i].chosen => obj[i].chosen \/ obj[i].meta
    PROVE  Written(i)'
BY DEF Written, Quiet

LEMMA QuietBack ==
    ASSUME Base, Quiet, NEW h \in Hashes, Back(h), dropping' = dropping, loading' = loading,
           \A i \in Added : obj[i].hash = h /\ ~obj[i].closed /\ ~obj'[i].meta => ~obj'[i].chosen,
           \A a \in asking' : a.id \in Added /\ (a \in asking \/ \E k \in Slots : queue[k] = a.id),
           \A i \in saving' : i \in Added /\ (i \in saving \/ ~obj[i].closed),
           h \in saved' => h \in saved \/ \E i \in saving : obj[i].hash = h,
           \A i \in Added : obj[i].hash = h /\ ~obj[i].closed /\ Written(i) => Written(i)'
    PROVE  Back(h)'
<1> USE DEF Base
<1>1. queue' = queue /\ Slots' = Slots /\ Added' = Added
  BY DEF Quiet, Slots, Added
<1>2. \A i \in Added : obj'[i].hash = obj[i].hash /\ obj'[i].closed = obj[i].closed
  BY DEF Quiet
<1>3. (InQueue(h)' <=> InQueue(h)) /\ (Dropped(h)' <=> Dropped(h))
  BY <1>2, QuietKeeps DEF Dropped, Types
<1>4. \A k \in Slots : queue[k] \in Added
  BY Sizes
<1>5. ClosedOutside(h)'
  BY <1>1, <1>2, <1>3, <1>4 DEF ClosedOutside, Back
<1>6. \A i \in saving : i \in Added
  BY DEF Types
<1>7. Saving(h)'
  <2>1. \A i \in saving' : obj'[i].hash = h => InQueue(h)' \/ Dropped(h)'
    BY <1>2, <1>3, OneObject DEF Saving, Back
  <2> QED
    BY <1>3, <2>1 DEF Saving, Back
<1>8. \A i \in Added : obj'[i].hash = h /\ ~obj'[i].closed => Written(i)'
  BY <1>2 DEF Back
<1> QED
  BY <1>1, <1>5, <1>7, <1>8 DEF Back

\* A step that changes no object's metadata or choice, and lets those that wait wait.
LEMMA QuietAll ==
    ASSUME Base, Quiet, \A h \in Hashes \ excused : Back(h), dropping' = dropping, loading' = loading,
           \A i \in Added : obj'[i].meta = obj[i].meta /\ (obj'[i].chosen => obj[i].chosen \/ obj[i].meta),
           asking \subseteq asking',
           \A a \in asking' : a.id \in Added /\ (a \in asking \/ \E k \in Slots : queue[k] = a.id),
           saving' \subseteq saving, \A i \in saving : i \in saving' \/ obj[i].hash \in saved',
           saved \subseteq saved', \A g \in saved' \ saved : \E i \in saving : obj[i].hash = g,
           \A p \in Players : player[p].pc = "wait" => player'[p] = player[p]
    PROVE  \A h \in Hashes \ excused' : Back(h)'
<1> USE DEF Base
<1>1. ASSUME NEW h \in Hashes \ excused' PROVE Back(h)'
  <2>1. Back(h) /\ h \in Hashes
    BY <1>1 DEF Quiet
  <2>2. \A i \in Added : obj[i].hash = h /\ ~obj[i].closed /\ ~obj'[i].meta => ~obj'[i].chosen
    BY <2>1 DEF Back, ClosedOutside
  <2>3. ASSUME NEW i \in Added, Written(i) PROVE Written(i)'
    BY <2>3, QuietWritten
  <2>4. \A i \in saving' : i \in Added /\ (i \in saving \/ ~obj[i].closed)
    BY DEF Types
  <2> QED
    BY <2>1, <2>2, <2>3, <2>4, QuietBack
<1> QED
  BY <1>1

\* Calls that no request makes, and requests that wait for none.
LEMMA AskingKept ==
    ASSUME Asking, \A a \in asking' : a \in asking \/ a.by \notin Players,
           \A p \in Players : player[p].pc = "ask" => player'[p] = player[p]
    PROVE  Asking'
BY DEF Asking

\* A call is about the object in the list.
LEMMA AskListed ==
    ASSUME Types, Unique, NEW h, NEW drop, NEW by, Ask(FindByHash(h), drop, by)
    PROVE  /\ asking \subseteq asking'
           /\ \A a \in asking' : a.id \in Added /\ (a \in asking \/ (a.by = by /\ \E k \in Slots : queue[k] = a.id))
<1>1. \A a \in asking : a.id \in Added
  BY DEF Types
<1>2. FindByHash(h) # 0 => FindByHash(h) \in Added /\ \E k \in Slots : queue[k] = FindByHash(h)
  BY OnePlace
<1> QED
  BY <1>1, <1>2 DEF Ask

LEMMA RequestBack ==
    ASSUME Base, Restart, NEW p \in Players, NEW h \in Hashes, NEW k \in {"play", "api"}, Request(p, h, k)
    PROVE  Restart'
<1> USE DEF Base, Restart
<1>1. Quiet
  BY RequestQuiet
<1>2. \A i \in Added : obj'[i].meta = obj[i].meta /\ obj'[i].chosen = obj[i].chosen
  BY Attach, Sizes DEF Request
<1>3. UNCHANGED <<dropping, loading, asking, saving, saved>>
  BY DEF Request
<1>4. \A q \in Players : player[q].pc \in {"wait", "ask"} => player'[q] = player[q]
  BY DEF Request, Types
<1>5. \A a \in asking : a.id \in Added
  BY DEF Types
<1> QED
  BY <1>1, <1>2, <1>3, <1>4, <1>5, QuietAll, AskingKept

LEMMA GotMetadataBack ==
    ASSUME Base, Restart, NEW p \in Players, GotMetadata(p)
    PROVE  Restart'
<1> USE DEF Base, Restart
<1> DEFINE i == player[p].id
<1>1. Quiet /\ i \in Added /\ i \in Ids
  BY GotMetadataQuiet, Sizes DEF GotMetadata, Waiting
<1>2. UNCHANGED <<dropping, loading, asking, saved, excused>>
  BY DEF GotMetadata
<1>3. saving' = IF obj[i].closed THEN saving ELSE saving \cup {i}
  BY DEF GotMetadata
<1>4. \A q \in Players : player[q].pc = "ask" => player'[q] = player[q]
  BY DEF GotMetadata, Types
<1>5. \A q \in Players \ {p} : player'[q] = player[q]
  BY DEF GotMetadata, Types
<1>6. (\A j \in Added \ {i} : obj'[j] = obj[j]) /\ obj'[i].meta = ~obj[i].closed /\ obj'[i].chosen = obj[i].chosen
  BY <1>1, Sizes DEF GotMetadata, Types, Objects, SetTorrent, Fields
<1> HIDE DEF i
<1>7. ASSUME NEW h \in Hashes \ excused' PROVE Back(h)'
  <2>1. Back(h)
    BY <1>2, <1>7
  <2>2. \A j \in Added : obj[j].hash = h /\ ~obj[j].closed /\ ~obj'[j].meta => ~obj'[j].chosen
    BY <1>6, <2>1 DEF Back, ClosedOutside
  <2>3. \A a \in asking' : a.id \in Added /\ (a \in asking \/ \E k \in Slots : queue[k] = a.id)
    BY <1>2 DEF Types
  <2>4. \A j \in saving' : j \in Added /\ (j \in saving \/ ~obj[j].closed)
    BY <1>1, <1>3 DEF Types
  <2>5. ASSUME NEW j \in Added, obj[j].hash = h, ~obj[j].closed, Written(j) PROVE Written(j)'
    <3>1. CASE j = i
      BY <1>3, <2>5, <3>1 DEF Written
    <3>2. CASE j # i
      <4>1. \A q \in Players : player[q].pc = "wait" /\ player[q].id = j => player'[q] = player[q]
        BY <1>5, <3>2 DEF i
      <4> QED
        BY <1>1, <1>2, <1>3, <1>6, <2>5, <3>2, <4>1, QuietWritten
    <3> QED
      BY <3>1, <3>2
  <2> QED
    BY <1>1, <1>2, <2>1, <2>2, <2>3, <2>4, <2>5, QuietBack
<1> QED
  BY <1>2, <1>4, <1>7, AskingKept

\* The torrent whose metadata came too late is about to be removed.
LEMMA MetadataTimeoutBack ==
    ASSUME Base, Restart, NEW p \in Players, MetadataTimeout(p)
    PROVE  Restart'
<1> USE DEF Base, Restart
<1> DEFINE i == player[p].id
<1>1. Quiet /\ i \in Added /\ obj[i].hash = player[p].hash /\ ~obj[i].meta
  BY RequestsQuiet DEF MetadataTimeout, Waiting
<1>2. UNCHANGED <<dropping, loading, saving, saved, excused, obj>>
  BY DEF MetadataTimeout
<1>3. \A q \in Players : player[q].pc = "ask" => player'[q] = player[q]
  BY DEF MetadataTimeout, Types
<1>4. \A q \in Players \ {p} : player'[q] = player[q]
  BY DEF MetadataTimeout, Types
<1>5. Ask(FindByHash(obj[i].hash), FALSE, None)
  BY <1>1 DEF MetadataTimeout
<1>6. /\ asking \subseteq asking'
      /\ \A a \in asking' : a.id \in Added /\ (a \in asking \/ (a.by = None /\ \E k \in Slots : queue[k] = a.id))
  BY <1>5, AskListed
<1> HIDE DEF i
<1>7. ASSUME NEW h \in Hashes \ excused' PROVE Back(h)'
  <2>1. Back(h)
    BY <1>2, <1>7
  <2>2. \A j \in Added : obj[j].hash = h /\ ~obj[j].closed /\ ~obj'[j].meta => ~obj'[j].chosen
    BY <1>2, <2>1 DEF Back, ClosedOutside
  <2>3. \A j \in saving' : j \in Added /\ (j \in saving \/ ~obj[j].closed)
    BY <1>2 DEF Types
  <2>4. ASSUME NEW j \in Added, obj[j].hash = h, ~obj[j].closed, Written(j) PROVE Written(j)'
    <3>1. CASE j = i
      <4>1. FindByHash(h) = i /\ i # 0
        BY <1>1, <2>1, <2>4, <3>1, OneObject, Sizes DEF Back
      <4>2. \E a \in asking' : a.id = i
        <5> DEFINE e == [id |-> FindByHash(h), drop |-> FALSE, by |-> None]
        <5>1. e \in asking' /\ e.id = i
          BY <1>5, <2>4, <3>1, <4>1 DEF Ask
        <5> QED
          BY <5>1
      <4>3. ~obj[i].chosen
        BY <1>1, <2>1, <2>4, <3>1 DEF Back, ClosedOutside
      <4> QED
        BY <1>1, <1>2, <3>1, <4>2, <4>3 DEF Written
    <3>2. CASE j # i
      <4>1. \A q \in Players : player[q].pc = "wait" /\ player[q].id = j => player'[q] = player[q]
        BY <1>4, <3>2 DEF i
      <4> QED
        BY <1>1, <1>2, <1>6, <2>4, <4>1, QuietWritten
    <3> QED
      BY <3>1, <3>2
  <2> QED
    BY <1>1, <1>2, <1>6, <2>1, <2>2, <2>3, <2>4, QuietBack
<1>8. None \notin Players
  BY TorrentsAssumption
<1> QED
  BY <1>2, <1>3, <1>6, <1>7, <1>8, AskingKept

\* Requests that choose, and close.
LEMMA ChooseBack ==
    ASSUME Base, Restart, NEW p \in Players, ChooseFile(p) \/ ChooseNothing(p) \/ DetachPlayer(p)
    PROVE  Restart'
<1> USE DEF Base, Restart
<1>1. Quiet
  BY RequestsQuiet
<1>2. UNCHANGED <<dropping, loading, asking, saving, saved>>
  BY DEF ChooseFile, ChooseNothing, DetachPlayer
<1>3. \A q \in Players : player[q].pc \in {"wait", "ask"} => player'[q] = player[q]
  BY DEF ChooseFile, ChooseNothing, DetachPlayer, Types
<1>4. \A i \in Added : obj'[i].meta = obj[i].meta /\ (obj'[i].chosen => obj[i].chosen \/ obj[i].meta)
  <2>1. CASE ChooseFile(p)
    BY <2>1, Sizes DEF ChooseFile, Types, Objects, Fields
  <2>2. CASE ChooseNothing(p)
    BY <2>2 DEF ChooseNothing
  <2>3. CASE DetachPlayer(p)
    BY <2>3, Sizes DEF DetachPlayer, Types, Objects, Fields
  <2> QED
    BY <2>1, <2>2, <2>3
<1>5. \A a \in asking : a.id \in Added
  BY DEF Types
<1> QED
  BY <1>1, <1>2, <1>3, <1>4, <1>5, QuietAll, AskingKept

\* A player that asks had no call yet.
LEMMA ClosePlayerBack ==
    ASSUME Base, Restart, NEW p \in Players, NEW next \in BOOLEAN, ClosePlayer(p, next)
    PROVE  Restart'
<1> USE DEF Base, Restart
<1>1. Quiet
  BY ClosePlayerQuiet
<1>2. UNCHANGED <<dropping, loading, saving, saved>> /\ player[p].pc \in {"play", "choose"}
  BY DEF ClosePlayer
<1>3. \A q \in Players : player[q].pc \in {"wait", "ask"} => player'[q] = player[q]
  BY DEF ClosePlayer, Types
<1>4. \A i \in Added : obj'[i].meta = obj[i].meta /\ obj'[i].chosen = obj[i].chosen
  BY Sizes DEF ClosePlayer, Types, Objects, Fields
<1>5. /\ asking \subseteq asking'
      /\ \A a \in asking' : a.id \in Added /\ (a \in asking \/ \E k \in Slots : queue[k] = a.id)
  BY AskListed DEF ClosePlayer, Types
<1>6. \A h \in Hashes \ excused' : Back(h)'
  BY <1>1, <1>2, <1>3, <1>4, <1>5, QuietAll
<1>7. Asking'
  <2>1. CASE asking' = asking
    BY <1>3, <2>1, AskingKept
  <2>2. CASE asking' # asking
    <3>1. Ask(FindByHash(player[p].hash), FALSE, p) /\ player' = [player EXCEPT ![p].pc = "ask"]
      BY <2>2 DEF ClosePlayer
    <3> DEFINE e == [id |-> FindByHash(player[p].hash), drop |-> FALSE, by |-> p]
    <3>2. asking' = asking \cup {e} /\ e.by = p
      BY <2>2, <3>1 DEF Ask
    <3> HIDE DEF e
    <3>3. player'[p].pc = "ask" /\ \A a \in asking : a.by # p
      BY <1>2, <3>1 DEF Types, Requests, Asking
    <3> QED
      BY <1>3, <3>2, <3>3 DEF Asking
  <2> QED
    BY <2>1, <2>2
<1> QED
  BY <1>6, <1>7

LEMMA ObjectsBack ==
    ASSUME Base, Restart, NEW i \in Ids, SaveMetainfo(i) \/ NextTimer(i) \/ StopNextFiles(i)
    PROVE  Restart'
<1> USE DEF Base, Restart
<1>1. Quiet
  BY ObjectsQuiet
<1>2. UNCHANGED <<dropping, loading, player>>
  BY DEF SaveMetainfo, NextTimer, StopNextFiles
<1>3. \A j \in Added : obj'[j].meta = obj[j].meta /\ obj'[j].chosen = obj[j].chosen
  <2>1. CASE SaveMetainfo(i)
    BY <2>1 DEF SaveMetainfo
  <2>2. CASE NextTimer(i)
    BY <2>2, Sizes DEF NextTimer, Types, Objects, Fields
  <2>3. CASE StopNextFiles(i)
    BY <2>3, Sizes DEF StopNextFiles, Types, Objects, Fields
  <2> QED
    BY <2>1, <2>2, <2>3
<1>4. /\ asking \subseteq asking'
      /\ \A a \in asking' : a.id \in Added /\ (a \in asking \/ (a.by = None /\ \E k \in Slots : queue[k] = a.id))
  BY AskListed DEF SaveMetainfo, NextTimer, StopNextFiles, Types
<1>5. /\ saving' \subseteq saving /\ \A j \in saving : j \in saving' \/ obj[j].hash \in saved'
      /\ saved \subseteq saved' /\ \A g \in saved' \ saved : \E j \in saving : obj[j].hash = g
  BY DEF SaveMetainfo, NextTimer, StopNextFiles
<1>6. None \notin Players
  BY TorrentsAssumption
<1> QED
  BY <1>1, <1>2, <1>3, <1>4, <1>5, <1>6, QuietAll, AskingKept

LEMMA ListBack ==
    ASSUME Base, Restart, NEW h \in Hashes,
           RemoveByUser(h) \/ MoveFound(h) \/ \E chosen \in BOOLEAN : Select(h, chosen)
    PROVE  Restart'
<1> USE DEF Base, Restart
<1>1. Quiet
  BY ListQuiet
<1>2. UNCHANGED <<dropping, loading, player, saving, saved>>
  BY DEF RemoveByUser, MoveFound, Select
<1>3. \A j \in Added : obj'[j].meta = obj[j].meta /\ (obj'[j].chosen => obj[j].chosen \/ obj[j].meta)
  <2>1. CASE RemoveByUser(h) \/ MoveFound(h)
    BY <2>1 DEF RemoveByUser, MoveFound
  <2>2. ASSUME NEW chosen \in BOOLEAN, Select(h, chosen)
        PROVE \A j \in Added : obj'[j].meta = obj[j].meta /\ (obj'[j].chosen => obj[j].chosen \/ obj[j].meta)
    BY <2>2, Sizes DEF Select, Types, Objects, Fields
  <2> QED
    BY <2>1, <2>2
<1>4. /\ asking \subseteq asking'
      /\ \A a \in asking' : a.id \in Added /\ (a \in asking \/ (a.by = None /\ \E k \in Slots : queue[k] = a.id))
  BY AskListed DEF RemoveByUser, MoveFound, Select, Types
<1>5. None \notin Players
  BY TorrentsAssumption
<1> QED
  BY <1>1, <1>2, <1>3, <1>4, <1>5, QuietAll, AskingKept

LEMMA MoveRemoveBack ==
    ASSUME Base, Restart, MoveRemove
    PROVE  Restart'
<1> USE DEF Base, Restart
<1>1. Quiet /\ UNCHANGED <<dropping, loading, player, saving, saved, obj>>
  BY SameObjects DEF MoveRemove
<1>2. /\ asking \subseteq asking'
      /\ \A a \in asking' : a.id \in Added /\ (a \in asking \/ (a.by = "manager" /\ \E k \in Slots : queue[k] = a.id))
  BY AskListed DEF MoveRemove
<1>3. "manager" \notin Players
  BY TorrentsAssumption
<1> QED
  BY <1>1, <1>2, <1>3, QuietAll, AskingKept

LEMMA StillBack ==
    ASSUME Base, Restart, LoadEnds \/ UNCHANGED vars
    PROVE  Restart'
<1> USE DEF Base, Restart
<1>1. UNCHANGED <<session, obj, queue, saved, player, saving, asking, dropping, adds, excused>>
  BY DEF LoadEnds, vars
<1>2. \A h \in Hashes : (h \in loading.todo /\ loading.at = "add" => h \in loading'.todo /\ loading'.at = "add")
                         /\ (loading.at = "no" => loading'.at = "no")
  BY DEF LoadEnds, Types, vars
<1>3. ASSUME NEW h \in Hashes \ excused', Back(h) PROVE Back(h)'
  BY <1>1, <1>2, <1>3 DEF Back, ClosedOutside, Saving, Written, InQueue, Dropped, Added, Slots
<1> QED
  BY <1>1, <1>3 DEF Asking

----------------------------------------------------------------------------
(* What brings a torrent back: answers, removals and additions *)

\* A request whose call is answered has no other.
LEMMA AnsweredAsking ==
    ASSUME Base, Asking, NEW a \in asking, Answered(a)
    PROVE  /\ Asking'
           /\ \A q \in Players : player[q].pc = "wait" => player'[q] = player[q]
<1>1. asking' = asking \ {a}
  BY DEF Answered
<1>2. CASE a.by \in Players
  <2>1. PICK p \in Players : p = a.by
    BY <1>2
  <2>2. player' = [player EXCEPT ![p].pc = "detach"] /\ player \in [Players -> Requests]
    BY <2>1 DEF Answered, Base, Types
  <2>3. \A q \in Players \ {p} : player'[q] = player[q]
    BY <2>2
  <2>4. player[p].pc = "ask" /\ \A b \in asking' : b.by # p
    BY <1>1, <2>1 DEF Asking
  <2> QED
    BY <1>1, <2>3, <2>4 DEF Asking
<1>3. CASE a.by \notin Players
  BY <1>1, <1>3 DEF Answered, Asking
<1> QED
  BY <1>2, <1>3

\* A torrent is kept when it has chosen files, thus has its metadata.
LEMMA KeepTorrentBack ==
    ASSUME Base, Restart, NEW a \in asking, KeepTorrent(a)
    PROVE  Restart'
<1> USE DEF Base, Restart
<1>1. Quiet /\ UNCHANGED <<session, obj, queue, saved, saving, dropping, adds, excused, loading>>
  BY SameObjects DEF KeepTorrent
<1>2. Asking' /\ \A q \in Players : player[q].pc = "wait" => player'[q] = player[q]
  BY AnsweredAsking DEF KeepTorrent
<1>3. asking' = asking \ {a} /\ obj[a.id].chosen /\ \A b \in asking : b.id \in Added
  BY DEF KeepTorrent, Answered, Types
<1>4. ASSUME NEW h \in Hashes \ excused' PROVE Back(h)'
  <2>1. Back(h)
    BY <1>1, <1>4
  <2>2. ASSUME NEW i \in Added, Written(i) PROVE Written(i)'
    BY <1>1, <1>2, <1>3, <2>2 DEF Written
  <2>3. \A i \in Added : obj[i].hash = h /\ ~obj[i].closed /\ ~obj'[i].meta => ~obj'[i].chosen
    BY <1>1, <2>1 DEF Back, ClosedOutside
  <2>4. \A i \in saving' : i \in Added /\ i \in saving
    BY <1>1 DEF Types
  <2> QED
    BY <1>1, <1>3, <2>1, <2>2, <2>3, <2>4, QuietBack
<1> QED
  BY <1>2, <1>4

\* Who deletes a .torrent file that one is about to write, or that is of a torrent in the list, excuses it.
LEMMA DropFilesBack ==
    ASSUME Base, Restart, NEW d \in dropping, DropFiles(d)
    PROVE  Restart'
<1> USE DEF Base, Restart
<1>1. UNCHANGED <<session, obj, queue, player, saving, asking, adds, loading>>
  BY DEF DropFiles
<1>2. PICK g \in Hashes : g = obj[d.id].hash
  BY DEF Types
<1>3. /\ dropping' = dropping \ {d} /\ saved' = saved \ {g} /\ excused \subseteq excused'
      /\ (\E i \in saving : obj[i].hash = g) => g \in excused'
  BY <1>2 DEF DropFiles
<1>4. ASSUME NEW h \in Hashes \ excused' PROVE Back(h)'
  <2>1. Back(h) /\ Mirror(h)
    BY <1>3, <1>4
  <2>2. (InQueue(h)' <=> InQueue(h)) /\ Added' = Added /\ Slots' = Slots
    BY <1>1 DEF InQueue, Slots, Added
  <2>3. ClosedOutside(h)'
    BY <1>1, <2>1, <2>2 DEF Back, ClosedOutside
  <2>4. CASE h = g
    <3>1. ~InQueue(h)
      BY <1>2, <2>1, <2>4 DEF Mirror, Dropped
    <3>2. \A i \in saving : obj[i].hash # h
      BY <1>3, <1>4, <2>4
    <3>3. Saving(h)'
      BY <1>1, <1>3, <2>4, <3>2 DEF Saving
    <3>4. \A i \in Added : obj[i].hash = h => obj[i].closed
      BY <2>1, <3>1, OneObject DEF Back
    <3> QED
      BY <1>1, <2>2, <2>3, <3>3, <3>4 DEF Back
  <2>5. CASE h # g
    <3>1. Dropped(h)' <=> Dropped(h)
      BY <1>1, <1>2, <1>3, <2>5 DEF Dropped
    <3>2. Saving(h)'
      BY <1>1, <1>3, <2>1, <2>2, <3>1 DEF Back, Saving
    <3>3. ASSUME NEW i \in Added, obj[i].hash = h, Written(i) PROVE Written(i)'
      BY <1>1, <1>3, <2>5, <3>3 DEF Written
    <3> QED
      BY <1>1, <2>1, <2>2, <2>3, <3>2, <3>3 DEF Back
  <2> QED
    BY <2>4, <2>5
<1> QED
  BY <1>1, <1>4 DEF Asking

LEMMA MoveStartBack ==
    ASSUME Base, Restart, MoveStart
    PROVE  Restart'
<1> USE DEF Base, Restart
<1>1. UNCHANGED <<session, obj, queue, player, saving, asking, dropping, adds, loading>>
  BY DEF MoveStart
<1> DEFINE g == manager.hash
<1>2. /\ saved' = saved \ {g} /\ excused \subseteq excused'
      /\ FindByHash(g) # 0 \/ (\E i \in saving : obj[i].hash = g) => g \in excused'
  BY DEF MoveStart
<1> HIDE DEF g
<1>4. ASSUME NEW h \in Hashes \ excused' PROVE Back(h)'
  <2>1. Back(h)
    BY <1>2, <1>4
  <2>2. /\ InQueue(h)' <=> InQueue(h)
        /\ Dropped(h)' <=> Dropped(h)
        /\ Added' = Added /\ Slots' = Slots
    BY <1>1 DEF InQueue, Slots, Added, Dropped
  <2>3. ClosedOutside(h)'
    BY <1>1, <2>1, <2>2 DEF Back, ClosedOutside
  <2>4. Saving(h)'
    BY <1>1, <1>2, <2>1, <2>2 DEF Back, Saving
  <2>5. CASE h = g
    <3>1. ~InQueue(h)
      BY <1>2, <1>4, <2>5, OnePlace, Sizes
    <3>2. \A i \in Added : obj[i].hash = h => obj[i].closed
      BY <2>1, <3>1, OneObject DEF Back
    <3> QED
      BY <1>1, <2>2, <2>3, <2>4, <3>2 DEF Back
  <2>6. CASE h # g
    <3>1. ASSUME NEW i \in Added, obj[i].hash = h, Written(i) PROVE Written(i)'
      BY <1>1, <1>2, <2>6, <3>1 DEF Written
    <3> QED
      BY <1>1, <2>1, <2>2, <2>3, <2>4, <3>1 DEF Back
  <2> QED
    BY <2>5, <2>6
<1> QED
  BY <1>1, <1>4 DEF Asking

LEMMA DropSessionBack ==
    ASSUME Base, Restart, NEW d \in dropping, DropSession(d)
    PROVE  Restart'
<1> USE DEF Base, Restart
<1>1. UNCHANGED <<obj, queue, player, saving, saved, asking, adds, loading, excused>>
  BY DEF DropSession
<1> DEFINE e == [d EXCEPT !.at = "files"]
<1>2. dropping' = (dropping \ {d}) \cup {e} /\ e.id = d.id
  BY DEF DropSession
<1> HIDE DEF e
<1>3. ASSUME NEW h \in Hashes \ excused' PROVE Back(h)'
  <2>1. Back(h)
    BY <1>1, <1>3
  <2>2. (Dropped(h)' <=> Dropped(h)) /\ (InQueue(h)' <=> InQueue(h)) /\ Added' = Added /\ Slots' = Slots
    BY <1>1, <1>2 DEF Dropped, InQueue, Added, Slots
  <2> QED
    BY <1>1, <2>1, <2>2 DEF Back, ClosedOutside, Saving, Written
<1> QED
  BY <1>1, <1>3 DEF Asking

\* The object of the call is the one in the list, or the torrent has left it.
LEMMA RemoveTorrentBack ==
    ASSUME Base, Restart, NEW a \in asking, RemoveTorrent(a)
    PROVE  Restart'
<1> USE DEF Base, Restart
<1>0. a.id \in Added /\ a.id \in Ids
  BY Sizes DEF Types
<1>1. PICK h \in Hashes : h = obj[a.id].hash
  BY <1>0 DEF Types
<1>2. QueueDelete(h) /\ obj' = [obj EXCEPT ![a.id].closed = TRUE]
  BY <1>1 DEF RemoveTorrent
<1>3. UNCHANGED <<session, saved, saving, excused, adds, loading>> /\ asking' = asking \ {a} /\ Added' = Added
  BY DEF RemoveTorrent, Answered, Added
<1>4. /\ obj'[a.id].closed
      /\ \A i \in Added \ {a.id} : obj'[i] = obj[i]
      /\ \A i \in Added : obj'[i].hash = obj[i].hash /\ obj'[i].meta = obj[i].meta /\ obj'[i].chosen = obj[i].chosen
  BY <1>0, <1>2, Sizes DEF Types, Objects, Fields
<1>5. /\ \A j \in Slots' : \E k \in Slots : queue'[j] = queue[k] /\ obj[queue[k]].hash # h
      /\ \A k \in Slots : obj[queue[k]].hash # h => \E j \in Slots' : queue'[j] = queue[k]
  BY <1>1, <1>2, DeleteFacts
<1>6. \A j \in Slots' : queue'[j] \in Added \ {a.id} /\ obj'[queue'[j]] = obj[queue'[j]] /\ obj'[queue'[j]].hash # h
  BY <1>1, <1>4, <1>5, Sizes
<1>7. ~InQueue(h)' /\ \A g : g # h => (InQueue(g)' <=> InQueue(g))
  BY <1>5, <1>6 DEF InQueue
<1>8. Dropped(h)' /\ \A g : g # h => (Dropped(g)' <=> Dropped(g))
  <2> DEFINE e == [id |-> a.id, at |-> "session"]
  <2>1. e.id = a.id /\ dropping' = dropping \cup {e}
    BY DEF RemoveTorrent
  <2> HIDE DEF e
  <2>2. obj'[e.id].hash = h /\ \A d \in dropping : obj'[d.id].hash = obj[d.id].hash
    BY <1>0, <1>1, <1>4, <2>1 DEF Types
  <2> QED
    BY <2>1, <2>2 DEF Dropped
<1>9. Asking' /\ \A q \in Players : player[q].pc = "wait" => player'[q] = player[q]
  BY AnsweredAsking DEF RemoveTorrent
<1>10. \A x \in asking' : x \in asking /\ x.id \in Added /\ x # a
  BY <1>3 DEF Types
<1>11. ASSUME NEW g \in Hashes \ excused' PROVE Back(g)'
  <2>1. Back(g)
    BY <1>3, <1>11
  <2>2. CASE g = h
    <3>1. \A i \in Added : obj[i].hash = h => obj'[i].closed
      <4>1. ASSUME NEW i \in Added, obj[i].hash = h, ~obj[i].closed PROVE i = a.id
        <5>1. InQueue(h) /\ FindByHash(h) = i
          BY <2>1, <2>2, <4>1, OneObject DEF Back
        <5>2. ~obj[a.id].closed
          BY <1>1, <2>1, <2>2, <5>1 DEF Back, ClosedOutside
        <5> QED
          BY <1>0, <1>1, <2>1, <2>2, <5>1, <5>2, OneObject DEF Back
      <4> QED
        BY <1>4, <4>1
    <3>2. ClosedOutside(g)'
      BY <1>3, <1>4, <1>6, <1>7, <2>2, <3>1 DEF ClosedOutside
    <3>3. Saving(g)'
      BY <1>8, <2>2 DEF Saving
    <3> QED
      BY <1>3, <1>4, <2>2, <3>1, <3>2, <3>3 DEF Back
  <2>3. CASE g # h
    <3>1. (InQueue(g)' <=> InQueue(g)) /\ (Dropped(g)' <=> Dropped(g))
      BY <1>7, <1>8, <2>3
    <3>2. \A i \in Added : obj[i].hash = g => obj'[i] = obj[i] /\ i # a.id
      BY <1>1, <1>4, <2>3
    <3>3. ClosedOutside(g)'
      <4>1. ASSUME NEW i \in Added, obj[i].hash = g, ~obj[i].closed PROVE \E j \in Slots' : queue'[j] = i
        <5>1. PICK k \in Slots : queue[k] = i
          BY <2>1, <4>1 DEF Back, ClosedOutside
        <5> QED
          BY <1>5, <2>3, <4>1, <5>1
      <4>2. \A j \in Slots' : obj'[queue'[j]].hash = g => ~obj'[queue'[j]].closed
        BY <1>5, <1>6, <2>1 DEF Back, ClosedOutside
      <4>3. \A x \in asking' : obj'[x.id].hash = g /\ obj'[x.id].closed => ~InQueue(g)'
        BY <1>4, <1>10, <2>1, <3>1, <3>2 DEF Back, ClosedOutside
      <4>4. \A i \in Added : obj'[i].hash = g /\ ~obj'[i].closed /\ ~obj'[i].meta => ~obj'[i].chosen
        BY <1>4, <2>1, <3>2 DEF Back, ClosedOutside
      <4> QED
        BY <1>3, <1>4, <3>2, <4>1, <4>2, <4>3, <4>4 DEF ClosedOutside
    <3>4. Saving(g)'
      BY <1>3, <1>4, <2>1, <3>1 DEF Back, Saving, Types
    <3>5. ASSUME NEW i \in Added, obj[i].hash = g, Written(i) PROVE Written(i)'
      BY <1>3, <1>9, <3>2, <3>5 DEF Written
    <3> QED
      BY <1>3, <1>4, <2>1, <3>2, <3>3, <3>4, <3>5 DEF Back
  <2> QED
    BY <2>2, <2>3
<1> QED
  BY <1>9, <1>11

\* A torrent that is added brings an object that is not closed, and who has added it writes its file.
LEMMA AddBack ==
    ASSUME Base, Restart, NEW h \in Hashes, NEW m, NEW c, Add(h, m, c), c => m,
           UNCHANGED <<dropping, asking, saved>>, saving' \in {saving, saving \cup {adds'}},
           \/ adds' \in saving'
           \/ \E p \in Players : player'[p].pc = "wait" /\ player'[p].id = adds',
           \A q \in Players : player[q].pc = "wait" => player'[q] = player[q],
           loading'.at = loading.at, loading.todo \ {h} \subseteq loading'.todo
    PROVE  \A g \in Hashes \ excused' : Back(g)'
<1> USE DEF Base, Restart
<1>0. PICK n : n = adds'
  OBVIOUS
<1>1. /\ Added' = Added \cup {n} /\ n \notin Added
      /\ \A i \in Added : obj'[i] = obj[i]
      /\ obj'[n].hash = h /\ obj'[n].meta = m /\ obj'[n].chosen = c /\ ~obj'[n].closed
  BY <1>0, AddFacts
<1>2. /\ \A g \in Hashes : InQueue(g)' <=> InQueue(g) \/ g = h
      /\ excused \subseteq excused'
      /\ h \notin excused' => ~InQueue(h) /\ ~Dropped(h) /\ \A a \in asking : obj[a.id].hash # h
  BY AddKeeps
<1>3. \A g \in Hashes : Dropped(g)' <=> Dropped(g)
  BY <1>1 DEF Dropped, Types
<1>4. ASSUME NEW i \in Added, Written(i) PROVE Written(i)'
  BY <1>1, <1>4 DEF Written
<1>5. Written(n)'
  BY <1>0 DEF Written
<1>6. /\ \A k \in Slots : k \in Slots' /\ queue'[k] = queue[k] /\ queue[k] \in Added
      /\ \A k \in Slots' : k \in Slots \/ queue'[k] = n
      /\ h \notin excused' => \E k \in Slots' : queue'[k] = n
  <2>1. Len(queue) \in Nat /\ \A k \in Slots : queue[k] \in Added
    BY Sizes
  <2>2. CASE InQueue(h)
    BY <2>1, <2>2, AddFacts DEF Slots
  <2>3. CASE ~InQueue(h)
    <3>1. Len(queue') = Len(queue) + 1 /\ queue'[Len(queue')] = n /\ \A k \in Slots : queue'[k] = queue[k]
      BY <1>0, <2>3, AddFacts
    <3>2. Slots' = Slots \cup {Len(queue')} /\ Slots \subseteq Slots'
      BY <2>1, <3>1 DEF Slots
    <3> QED
      BY <2>1, <3>1, <3>2
  <2> QED
    BY <2>2, <2>3
<1>7. ASSUME NEW g \in Hashes \ excused' PROVE Back(g)'
  <2>1. Back(g)
    BY <1>2, <1>7
  <2>2. Saving(g)'
    <3>1. ASSUME NEW i \in saving', obj'[i].hash = g PROVE InQueue(g)' \/ Dropped(g)'
      <4>1. CASE i \in saving
        BY <1>1, <1>2, <1>3, <2>1, <3>1, <4>1 DEF Back, Saving, Types
      <4>2. CASE i = n
        BY <1>1, <1>2, <3>1, <4>2
      <4> QED
        BY <1>0, <4>1, <4>2
    <3>2. g \in saved' => InQueue(g)' \/ Dropped(g)'
                           \/ loading'.at = "no" \/ (loading'.at = "add" /\ g \in loading'.todo)
      BY <1>2, <1>3, <2>1 DEF Back, Saving
    <3> QED
      BY <3>1, <3>2 DEF Saving
  <2>3. ASSUME NEW i \in Added', obj'[i].hash = g, ~obj'[i].closed PROVE Written(i)'
    BY <1>1, <1>4, <1>5, <2>1, <2>3 DEF Back
  <2>4. ClosedOutside(g)'
    <3>1. \A k \in Slots' : queue'[k] \in Added'
      BY AddFacts DEF Slots
    <3>2. ASSUME NEW i \in Added', obj'[i].hash = g, ~obj'[i].closed PROVE \E k \in Slots' : queue'[k] = i
      BY <1>1, <1>7, <1>6, <2>1, <3>2 DEF Back, ClosedOutside
    <3>3. \A k \in Slots' : obj'[queue'[k]].hash = g => ~obj'[queue'[k]].closed
      BY <1>1, <1>6, <2>1 DEF Back, ClosedOutside
    <3>4. \A x \in asking' : obj'[x.id].hash = g /\ obj'[x.id].closed => ~InQueue(g)'
      <4>1. ASSUME NEW x \in asking, obj'[x.id].hash = g, obj'[x.id].closed PROVE ~InQueue(g)'
        <5>1. obj[x.id].hash = g /\ obj[x.id].closed
          BY <1>1, <4>1 DEF Types
        <5> QED
          BY <1>2, <1>7, <2>1, <5>1 DEF Back, ClosedOutside
      <4> QED
        BY <4>1
    <3>5. \A i \in Added' : obj'[i].hash = g /\ ~obj'[i].closed /\ ~obj'[i].meta => ~obj'[i].chosen
      BY <1>1, <2>1 DEF Back, ClosedOutside
    <3> QED
      BY <3>2, <3>3, <3>4, <3>5 DEF ClosedOutside
  <2> QED
    BY <2>2, <2>3, <2>4 DEF Back
<1> QED
  BY <1>7

LEMMA AddTorrentBack ==
    ASSUME Base, Restart, NEW p \in Players, AddTorrent(p)
    PROVE  Restart'
<1> USE DEF Base, Restart
<1>1. PICK m : Add(player[p].hash, m, FALSE)
  BY DEF AddTorrent
<1>2. player[p].hash \in Hashes /\ player[p].pc = "add"
  BY DEF Types, AddTorrent
<1>3. UNCHANGED <<saved, loading, saving, asking, dropping>>
  BY DEF AddTorrent
<1>4. adds' = adds + 1
  BY <1>1 DEF Add
<1>5. /\ player'[p].pc = "wait" /\ player'[p].id = adds'
      /\ \A q \in Players \ {p} : player'[q] = player[q]
  BY <1>4 DEF AddTorrent, Types, Requests
<1>6. \A q \in Players : player[q].pc \in {"wait", "ask"} => player'[q] = player[q]
  BY <1>2, <1>5
<1>7. \A g \in Hashes \ excused' : Back(g)'
  BY <1>1, <1>2, <1>3, <1>5, <1>6, AddBack
<1> QED
  BY <1>3, <1>6, <1>7, AskingKept

LEMMA LoadTorrentBack ==
    ASSUME Base, Restart, NEW h \in Hashes, LoadTorrent(h)
    PROVE  Restart'
<1> USE DEF Base, Restart
<1>1. UNCHANGED <<item, saved, player, asking, dropping, manager>>
  BY DEF LoadTorrent
<1>2. loading'.at = loading.at /\ loading'.todo = loading.todo \ {h}
  BY DEF LoadTorrent, Types
<1>3. CASE h \in saved
  <2>1. Add(h, TRUE, h \in item) /\ saving' = saving \cup {adds'}
    BY <1>3 DEF LoadTorrent, Add
  <2>2. adds' \in saving'
    BY <2>1
  <2>3. \A g \in Hashes \ excused' : Back(g)'
    BY <1>1, <1>2, <2>1, <2>2, AddBack
  <2> QED
    BY <1>1, <2>3 DEF Asking
<1>4. CASE h \notin saved
  <2>1. UNCHANGED <<session, obj, queue, saving, adds, excused>>
    BY <1>4 DEF LoadTorrent
  <2>2. ASSUME NEW g \in Hashes \ excused' PROVE Back(g)'
    <3>1. Back(g)
      BY <2>1, <2>2
    <3>2. UNCHANGED <<Added, Slots>> /\ (InQueue(g)' <=> InQueue(g)) /\ (Dropped(g)' <=> Dropped(g))
      BY <1>1, <2>1 DEF Added, Slots, InQueue, Dropped
    <3>3. Saving(g)'
      BY <1>1, <1>2, <1>4, <2>1, <3>1, <3>2 DEF Back, Saving
    <3>4. ClosedOutside(g)'
      BY <1>1, <2>1, <3>1, <3>2 DEF Back, ClosedOutside
    <3>5. ASSUME NEW i, Written(i) PROVE Written(i)'
      BY <1>1, <2>1, <3>5 DEF Written
    <3> QED
      BY <2>1, <3>1, <3>2, <3>3, <3>4, <3>5 DEF Back
  <2> QED
    BY <1>1, <2>2 DEF Asking
<1> QED
  BY <1>3, <1>4

LEMMA LoadTorrentFilesBack ==
    ASSUME Base, Restart, LoadTorrentFiles
    PROVE  Restart'
<1> USE DEF Base, Restart
<1>1. UNCHANGED <<session, obj, saved, player, saving, asking, dropping, adds>> /\ Added' = Added
  BY DEF LoadTorrentFiles, Added
<1>2. queue' = <<>> /\ Slots' = {} /\ loading'.at = "add" /\ loading'.todo = saved
  BY DEF LoadTorrentFiles, Slots
<1>3. ASSUME NEW g \in Hashes \ excused' PROVE Back(g)'
  <2>1. ~InQueue(g) /\ ~InQueue(g)' /\ g \notin excused
    BY <1>2, <1>3 DEF LoadTorrentFiles, InQueue, Slots
  <2>2. Back(g) /\ \A i \in Added : obj[i].hash = g => obj[i].closed
    BY <2>1, OneObject DEF Back
  <2>3. Dropped(g)' <=> Dropped(g)
    BY <1>1 DEF Dropped
  <2>4. Saving(g)'
    BY <1>1, <1>2, <2>1, <2>2, <2>3 DEF Back, Saving
  <2>5. ClosedOutside(g)'
    BY <1>1, <1>2, <2>1, <2>2 DEF ClosedOutside
  <2> QED
    BY <1>1, <2>2, <2>4, <2>5 DEF Back
<1> QED
  BY <1>1, <1>3 DEF Asking

----------------------------------------------------------------------------
(* The next start brings back what is in the list *)

LEMMA RestartInit == Init => Restart
<1> SUFFICES ASSUME Init PROVE Restart
  OBVIOUS
<1>1. adds = 0 /\ Added = {} /\ Slots = {}
  BY DEF Init, Added, Slots
<1> QED
  BY <1>1 DEF Init, Restart, Asking, Back, ClosedOutside, Saving

LEMMA RestartStep == Base /\ Restart /\ [Next]_vars => Restart'
<1> SUFFICES ASSUME Base, Restart, [Next]_vars PROVE Restart'
  OBVIOUS
<1>1. ASSUME NEW p \in Players, NEW h \in Hashes, NEW k \in {"play", "api"}, Request(p, h, k) PROVE Restart'
  BY <1>1, RequestBack
<1>2. ASSUME NEW p \in Players, AddTorrent(p) PROVE Restart'
  BY <1>2, AddTorrentBack
<1>3. ASSUME NEW p \in Players, GotMetadata(p) PROVE Restart'
  BY <1>3, GotMetadataBack
<1>4. ASSUME NEW p \in Players, MetadataTimeout(p) PROVE Restart'
  BY <1>4, MetadataTimeoutBack
<1>5. ASSUME NEW p \in Players, ChooseFile(p) \/ ChooseNothing(p) \/ DetachPlayer(p) PROVE Restart'
  BY <1>5, ChooseBack
<1>6. ASSUME NEW p \in Players, NEW next \in BOOLEAN, ClosePlayer(p, next) PROVE Restart'
  BY <1>6, ClosePlayerBack
<1>7. ASSUME NEW i \in Ids, SaveMetainfo(i) \/ NextTimer(i) \/ StopNextFiles(i) PROVE Restart'
  BY <1>7, ObjectsBack
<1>8. ASSUME NEW h \in Hashes, RemoveByUser(h) \/ MoveFound(h) \/ \E chosen \in BOOLEAN : Select(h, chosen)
      PROVE Restart'
  BY <1>8, ListBack
<1>9. ASSUME NEW h \in Hashes, LoadTorrent(h) PROVE Restart'
  BY <1>9, LoadTorrentBack
<1>10. ASSUME NEW a \in asking, KeepTorrent(a) \/ RemoveTorrent(a) PROVE Restart'
  BY <1>10, KeepTorrentBack, RemoveTorrentBack
<1>11. ASSUME NEW d \in dropping, DropSession(d) \/ DropFiles(d) PROVE Restart'
  BY <1>11, DropSessionBack, DropFilesBack
<1>12. CASE MoveRemove \/ MoveStart
  BY <1>12, MoveRemoveBack, MoveStartBack
<1>13. CASE LoadTorrentFiles
  BY <1>13, LoadTorrentFilesBack
<1>14. CASE LoadEnds \/ UNCHANGED vars
  BY <1>14, StillBack
<1> QED
  BY <1>1, <1>2, <1>3, <1>4, <1>5, <1>6, <1>7, <1>8, <1>9, <1>10, <1>11, <1>12, <1>13, <1>14 DEF Next

\* Once the start is over and nothing is under way for a torrent, it has its .torrent file if and
\* only if it is in the list: what a restart brings back is what the user has left, but for accidents.
THEOREM RestartKeepsTheList == Spec => []RestartBringsBack
<1>1. Base /\ Restart => RestartBringsBack
  <2> SUFFICES ASSUME Base, Restart, NEW h \in Hashes \ excused,
                      loading.at = "done", ~Busy(h), \A i \in saving : obj[i].hash # h,
                      \A p \in Players : player[p].hash = h => player[p].pc # "wait"
               PROVE  Listed(h) <=> h \in saved
    BY DEF RestartBringsBack
  <2> USE DEF Base, Restart
  <2>1. Back(h) /\ ~Dropped(h) /\ \A a \in asking : obj[a.id].hash # h
    BY DEF Busy, Dropped
  <2>2. h \in saved => InQueue(h)
    BY <2>1 DEF Back, Saving
  <2>3. ASSUME InQueue(h) PROVE h \in saved
    <3>1. PICK i \in Added : i = FindByHash(h) /\ obj[i].hash = h
      BY <2>3, OnePlace
    <3>2. Written(i)
      BY <2>1, <2>3, <3>1, OneObject DEF Back
    <3>3. ~(\E p \in Players : player[p].pc = "wait" /\ player[p].id = i)
      BY <3>1 DEF Waiting
    <3> QED
      BY <2>1, <3>1, <3>2, <3>3 DEF Written
  <2>4. Listed(h) <=> InQueue(h)
    BY OnePlace, Sizes DEF Listed
  <2> QED
    BY <2>2, <2>3, <2>4
<1> QED
  BY <1>1, MirrorInit, MirrorStep, RestartInit, RestartStep, PTL DEF Spec
=============================================================================
