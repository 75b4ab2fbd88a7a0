----------------------------- MODULE TorrentFS ------------------------------
(***************************************************************************)
(* What the readers of a served file do to the pieces of its torrent:      *)
(* Seek and Read (bittorrent/torrentfs.go), and the priorities that follow *)
(* the readers (PrioritizePieces and its kind in bittorrent/torrent.go).   *)
(*                                                                         *)
(* A reader is one request: Open, a Seek to the start of the range, reads  *)
(* of Chunk bytes, Close.  A read that meets a missing piece asks for it   *)
(* and waits.  PrioritizePieces runs in Seek, and every second in another  *)
(* goroutine of its own; its runs are not excluded from one another, so    *)
(* that an older one may tell libtorrent after a newer one.  A torrent in  *)
(* memory keeps only what its readers are about to read.  How a read ends  *)
(* when the torrent is dropped is the matter of TorrentFSEntry.            *)
(***************************************************************************)
EXTENDS Integers, FiniteSetsExt, SequencesExt

CONSTANTS
  Readers,
  PieceLength, NumPieces, FileOffset, FileSize,   \* in bytes
  Chunk,        \* what a request reads at a time
  Ahead,        \* GetReadaheadSize
  Starts,       \* the offsets at which requests start
  BufferPieces, \* what Buffer wants of the file: its first and last pieces
  MaxTicks,     \* bound on the runs of the ticker that are under way at once, ...
  MaxTogether,  \* ... and on them and the readers together when one begins
  Ticker

ASSUME LayoutAssumption ==
  /\ {PieceLength, NumPieces, FileSize, Chunk} \subseteq Nat \ {0}
  /\ {FileOffset, Ahead} \subseteq Nat
  /\ FileOffset + FileSize <= PieceLength * NumPieces
  /\ Starts \subseteq 0 .. FileSize - 1
  /\ BufferPieces \subseteq 0 .. NumPieces - 1
  /\ MaxTicks \in Nat /\ MaxTogether \in Nat /\ Ticker \notin Readers

VARIABLES
  memory,      \* IsMemoryStorage
  have,        \* the pieces that libtorrent has
  deadline,    \* the pieces with a deadline
  wanted,      \* the pieces with a priority above 0 in libtorrent
  kept,        \* the reader pieces of the memory storage
  awaiting,    \* t.awaitingPieces
  last,        \* t.lastPrioritization
  runs,        \* the runs of PrioritizePieces, by the age of what they have read
  playing,     \* t.IsPlaying
  buffering,   \* t.IsBuffering
  readers,     \* t.readers
  pc,          \* per reader: "none", "seek", "prioritize", "move", "ready", "test", "wait", "copy" or "over"
  pos,         \* per reader: the offset in its file
  left,        \* per reader: the bytes that its Read has left
  active,      \* per reader: isActive
  ahead,       \* per reader: readahead
  overtaken,   \* history: a run went on in front of an older one, and no run since
               \* has set what it found alone
  holes        \* history: a read has returned bytes of a missing piece

libtorrent == <<have, deadline, wanted, kept>>
torrent == <<memory, awaiting, last, runs, playing, buffering>>
file == <<pos, left, active, ahead>>
vars == <<libtorrent, torrent, readers, pc, file, overtaken, holes>>

Pieces == 0 .. NumPieces - 1

FilePieces == {p \in Pieces : p * PieceLength < FileOffset + FileSize
                              /\ (p + 1) * PieceLength > FileOffset}

Reading == {"test", "wait", "copy"}

(* A run of PrioritizePieces: who has called it, whether it has still to   *)
(* compare its status to the last one or to call libtorrent, and with what. *)
Run == [by : Readers \cup {Ticker}, step : {"compare", "set"}, want : SUBSET Pieces,
        status : Int \X Int \X Int \X Int \X Int]

RunsOf(x) == {i \in DOMAIN runs : runs[i].by = x}

TypeOK ==
  /\ {memory, playing, buffering, overtaken, holes} \subseteq BOOLEAN
  /\ have \subseteq Pieces /\ kept \subseteq Pieces
  /\ deadline \subseteq Pieces /\ wanted \subseteq Pieces
  /\ awaiting \subseteq Pieces
  /\ runs \in Seq(Run) /\ Cardinality(RunsOf(Ticker)) <= MaxTicks
  /\ readers \subseteq Readers
  /\ pc \in [Readers -> Reading \cup {"none", "seek", "prioritize", "move", "ready", "over"}]
  /\ pos \in [Readers -> 0 .. FileSize]
  /\ left \in [Readers -> 0 .. Chunk]
  /\ active \in [Readers -> BOOLEAN]
  /\ ahead \in [Readers -> 0 .. Ahead]

Init ==
  /\ memory \in BOOLEAN
  /\ have = {} /\ awaiting = {} /\ deadline = {} /\ kept = {}
  /\ wanted = {} /\ last = <<>> /\ runs = <<>>
  /\ playing = FALSE /\ buffering = FALSE /\ readers = {}
  /\ pc = [r \in Readers |-> "none"]
  /\ pos = [r \in Readers |-> 0]
  /\ left = [r \in Readers |-> 0]
  /\ active = [r \in Readers |-> TRUE]
  /\ ahead = [r \in Readers |-> 0]
  /\ overtaken = FALSE /\ holes = FALSE

-----------------------------------------------------------------------------
(* pieceFromOffset *)
Piece(offset) == Min({(FileOffset + offset) \div PieceLength, NumPieces})

InPiece(offset) == (FileOffset + offset) % PieceLength

(* Mutant: an active reader has what the idle ones leave, however many the *)
(* active ones are.                                                         *)
ReadaheadUndivided(set, busy) ==
  LET idle == \E r \in set : ~busy[r]
      third == (Ahead * 33) \div 100
      share == IF idle THEN Ahead - third ELSE Ahead
  IN [r \in Readers |-> IF r \notin set THEN ahead[r] ELSE IF busy[r] THEN share ELSE third]

(* ResetReaders: how the memory is shared out. *)
Readahead(set, busy) ==
  LET idle == \E r \in set : ~busy[r]
      third == (Ahead * 33) \div 100
      share == IF idle THEN Ahead - third
               ELSE Ahead \div Min({2, Cardinality(set)})
  IN [r \in Readers |-> IF r \notin set THEN ahead[r] ELSE IF busy[r] THEN share ELSE third]

(* ReaderPiecesRange: the pieces of the next bytes, one at least; at the    *)
(* end of the file it is the first piece of the torrent.                    *)
Begin(r) == (FileOffset + pos[r]) \div PieceLength

End(r) ==
  LET wish == IF ahead[r] > 0 THEN ahead[r] ELSE 1
      rest == FileSize - pos[r]
  IN (FileOffset + pos[r] + (IF wish < rest THEN wish ELSE rest) - 1) \div PieceLength

Window(r) == IF pos[r] = FileSize THEN {0} ELSE Begin(r) .. End(r)

Nearness(n) == CASE n <= 0 -> 6 [] n <= 2 -> 5 [] n <= 5 -> 4 [] n <= 9 -> 3 [] OTHER -> 2

ReaderPieces == {p \in Pieces : \E r \in readers : p \in Window(r)}

(* What is to have a priority: the files chosen for download too, when they *)
(* are stored on disk.                                                      *)
Wanted == ReaderPieces \cup (IF memory THEN {} ELSE FilePieces)

(* Where windows overlap, the reader that the map yields last decides. *)
Priorities(p) ==
  LET by == {r \in readers : p \in Window(r)}
  IN CASE by = {}         -> {1}
       [] p \in awaiting -> {7}
       [] OTHER           -> {Nearness(p - Begin(r)) : r \in by}

(* Mutant: the status tells the number of the pieces only. *)
StatusCount == {<<Cardinality(Wanted)>>}

(* The status by which one prioritization is told from another.  A window   *)
(* that spans all of the pieces has the same priorities as any other that   *)
(* does, so the choices at both ends are independent.                       *)
Statuses ==
  IF Wanted = {} THEN {<<-1, 0, -1, 0, 0>>}
  ELSE {<<Min(Wanted), a, Max(Wanted), b, Cardinality(Wanted)>> :
           a \in Priorities(Min(Wanted)), b \in Priorities(Max(Wanted))}

(* libtorrent: no priority, no deadline. *)
SetPriorities(set) ==
  /\ wanted' = set
  /\ deadline' = deadline \cap set

(* PrioritizePiece: the piece and the next two; those behind the last piece *)
(* of the torrent, which the code adds as well, nobody ever looks at.       *)
PrioritizePiece(p) ==
  LET asked == (Pieces \cap p .. p + 2) \ (awaiting \cup have)
  IN IF buffering \/ p \in awaiting
     THEN UNCHANGED <<awaiting, deadline>>
     ELSE /\ awaiting' = awaiting \cup asked
          /\ deadline' = deadline \cup asked

-----------------------------------------------------------------------------
To(r, where) == pc' = [pc EXCEPT ![r] = where]

(* Open: NewTorrentFSEntry, with ResetReaders *)
Open(r) ==
  /\ pc[r] = "none"
  /\ readers' = readers \cup {r}
  /\ ahead' = Readahead(readers', active)
  /\ To(r, "seek")
  /\ UNCHANGED <<libtorrent, torrent, pos, left, active, overtaken, holes>>

(* Seek to the start of the range: the others become idle, ... *)
SeekIdle(r) ==
  /\ pc[r] = "seek"
  /\ active' = [q \in Readers |-> q = r \/ (q \notin readers /\ active[q])]
  /\ ahead' = IF \E q \in readers \ {r} : active[q] THEN Readahead(readers, active') ELSE ahead
  /\ To(r, "prioritize")
  /\ UNCHANGED <<libtorrent, torrent, readers, pos, left, overtaken, holes>>

(* ... PrioritizePieces runs (SeekPrioritize, below), and when it has       *)
(* returned the file is moved.                                              *)
SeekMove(r) ==
  /\ pc[r] = "move" /\ RunsOf(r) = {}
  /\ \E s \in Starts : pos' = [pos EXCEPT ![r] = s]
  /\ To(r, "ready")
  /\ UNCHANGED <<libtorrent, torrent, readers, left, active, ahead, overtaken, holes>>

(* Read; the HTTP server never asks for more than the file has left. *)
ReadStart(r) ==
  /\ pc[r] = "ready"
  /\ pos[r] < FileSize
  /\ left' = [left EXCEPT ![r] = Min({Chunk, FileSize - pos[r]})]
  /\ active' = [active EXCEPT ![r] = TRUE]
  /\ To(r, "test")
  /\ UNCHANGED <<libtorrent, torrent, readers, pos, ahead, overtaken, holes>>

(* waitForPiece: the piece is there, or it is asked for. *)
WaitForPiece(r) ==
  /\ pc[r] = "test"
  /\ IF Piece(pos[r]) \in have
     THEN To(r, "copy") /\ UNCHANGED <<awaiting, deadline>>
     ELSE To(r, "wait") /\ PrioritizePiece(Piece(pos[r]))
  /\ UNCHANGED <<have, wanted, kept, memory, last, runs, playing, buffering, readers, file, overtaken, holes>>

PieceArrives(r) ==
  /\ pc[r] = "wait"
  /\ Piece(pos[r]) \in have
  /\ awaiting' = awaiting \ {Piece(pos[r])}
  /\ To(r, "copy")
  /\ UNCHANGED <<libtorrent, memory, last, runs, playing, buffering, readers, file, overtaken, holes>>

(* Mutant: a read is not cut at the end of the piece. *)
SizeUncut(r) == left[r]

(* What one turn of Read's loop may read of a piece. *)
Size(r) == Min({left[r], PieceLength - InPiece(pos[r])})

(* The bytes are read, from the file or from the memory of the piece, which *)
(* may be gone: then they are waited for again.                             *)
Copy(r) ==
  LET n == Size(r)
      touched == {Piece(pos[r] + i) : i \in 0 .. n - 1}
  IN /\ pc[r] = "copy"
     /\ UNCHANGED <<libtorrent, torrent, readers, active, ahead, overtaken>>
     /\ IF memory /\ Piece(pos[r]) \notin have
        THEN To(r, "test") /\ UNCHANGED <<pos, left, holes>>
        ELSE /\ pos' = [pos EXCEPT ![r] = @ + n]
             /\ left' = [left EXCEPT ![r] = @ - n]
             /\ holes' = (holes \/ ~(touched \subseteq have))
             /\ To(r, IF left[r] = n THEN "ready" ELSE "test")

(* Close, between two reads: the request is answered or its client is gone. *)
Close(r) ==
  /\ pc[r] = "ready"
  /\ readers' = readers \ {r}
  /\ ahead' = [Readahead(readers', active) EXCEPT ![r] = 0]
  /\ pos' = [pos EXCEPT ![r] = 0]
  /\ active' = [active EXCEPT ![r] = TRUE]
  /\ To(r, "over")
  /\ UNCHANGED <<libtorrent, torrent, left, overtaken, holes>>
-----------------------------------------------------------------------------
(* A run of PrioritizePieces reads the windows; what has arrived of them is *)
(* awaited no more.                                                         *)
Prioritizing == playing /\ ~buffering

Decide(x) ==
  /\ awaiting' = awaiting \ (have \cap ReaderPieces)
  /\ \E s \in Statuses :
       runs' = Append(runs, [by |-> x, step |-> "compare", want |-> Wanted, status |-> s])

SeekPrioritize(r) ==
  /\ pc[r] = "prioritize"
  /\ To(r, "move")
  /\ IF Prioritizing THEN Decide(r) ELSE UNCHANGED <<awaiting, runs>>
  /\ UNCHANGED <<libtorrent, memory, last, playing, buffering, readers, file, overtaken, holes>>

(* go PrioritizePieces, every second and when Kodi tells of a seek, be the  *)
(* last run over or not.                                                    *)
PrioritizeTick ==
  /\ Prioritizing
  /\ Cardinality(RunsOf(Ticker)) < MaxTicks
  /\ Cardinality(RunsOf(Ticker)) + Cardinality(readers) < MaxTogether
  /\ Decide(Ticker)
  /\ UNCHANGED <<libtorrent, memory, last, playing, buffering, readers, pc, file, overtaken, holes>>

(* It tells the memory storage, and is over when its status is the last one: *)
(* Wanted is what the readers want and, on disk, the files.                  *)
PrioritizeCompare(i) ==
  /\ runs[i].step = "compare"
  /\ kept' = IF memory THEN runs[i].want ELSE {}
  /\ last' = runs[i].status
  /\ runs' = IF last' = last THEN RemoveAt(runs, i) ELSE [runs EXCEPT ![i].step = "set"]
  /\ overtaken' = (overtaken \/ i > 1)
  /\ UNCHANGED <<have, deadline, wanted, memory, awaiting, playing, buffering, readers, pc, file, holes>>

(* It calls libtorrent. *)
PrioritizeSet(i) ==
  /\ runs[i].step = "set"
  /\ SetPriorities(runs[i].want)
  /\ runs' = RemoveAt(runs, i)
  /\ overtaken' = (overtaken /\ (Len(runs) > 1 \/ runs[i].status # last))
  /\ UNCHANGED <<have, kept, memory, awaiting, last, playing, buffering, readers, pc, file, holes>>

(* playerLoop sees that Kodi plays. *)
Play ==
  /\ ~playing
  /\ playing' = TRUE
  /\ UNCHANGED <<libtorrent, memory, awaiting, last, runs, buffering, readers, pc, file, overtaken, holes>>

(* Another player of the torrent buffers: Buffer adds to the priorities that *)
(* libtorrent has.                                                           *)
Buffer ==
  /\ ~buffering
  /\ buffering' = TRUE
  /\ wanted' = wanted \cup BufferPieces
  /\ deadline' = IF memory THEN deadline ELSE deadline \cup (BufferPieces \ have)
  /\ UNCHANGED <<have, kept, memory, awaiting, last, runs, playing, readers, pc, file, overtaken, holes>>

(* bufferFinishedEvent, or its player is over. *)
BufferFinished ==
  /\ buffering
  /\ buffering' = FALSE
  /\ UNCHANGED <<libtorrent, memory, awaiting, last, runs, playing, readers, pc, file, overtaken, holes>>

Download(p) ==
  /\ p \notin have
  /\ p \in deadline \/ p \in wanted
  /\ have' = have \cup {p}
  /\ deadline' = deadline \ {p}
  /\ UNCHANGED <<wanted, kept, torrent, readers, pc, file, overtaken, holes>>

(* The memory storage makes room: pieces that no reader is about to read. *)
Evict(p) ==
  /\ memory
  /\ p \in have \ kept
  /\ have' = have \ {p}
  /\ UNCHANGED <<deadline, wanted, kept, torrent, readers, pc, file, overtaken, holes>>

Request(r) ==
  SeekIdle(r) \/ SeekPrioritize(r) \/ SeekMove(r) \/ ReadStart(r) \/ WaitForPiece(r) \/ PieceArrives(r) \/ Copy(r)
    \/ Close(r)

Next ==
  \/ \E r \in Readers : Open(r) \/ Request(r)
  \/ PrioritizeTick \/ Play \/ Buffer \/ BufferFinished
  \/ \E i \in DOMAIN runs : PrioritizeCompare(i) \/ PrioritizeSet(i)
  \/ \E p \in Pieces : Download(p) \/ Evict(p)

Spec == Init /\ [][Next]_vars

-----------------------------------------------------------------------------
(* No request is ever given bytes of a piece that is not there: a file on   *)
(* disk has holes in their place.                                           *)
NoHoles == ~holes

(* Two readers never claim more of the memory than there is.  (Three do:    *)
(* each has a half of it.)                                                  *)
WindowsFit ==
  Cardinality(readers) <= 2 =>
    \A r \in readers : /\ ahead[r] <= Ahead
                       /\ \A q \in readers \ {r} : ahead[r] + ahead[q] <= Ahead

(* Between the windows there are pieces that no reader wants. *)
Gapped == Wanted # {} /\ Wanted # Min(Wanted) .. Max(Wanted)

(* What a read waits for has been asked for when no run of PrioritizePieces *)
(* is under way and the next would be skipped as stale: nothing else will    *)
(* ask for it.  Excepted is what the code does: a newer run that an older    *)
(* one has overtaken at libtorrent, whose status counts as the last one, and *)
(* windows with a gap, which their status does not tell from another gap.    *)
WaitedForIsAsked ==
  \A r \in Readers :
    pc[r] = "wait" /\ runs = <<>> /\ last \in Statuses =>
      Piece(pos[r]) \in have \cup deadline \cup wanted \/ overtaken \/ Gapped
=============================================================================
