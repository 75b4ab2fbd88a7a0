--------------------------- MODULE TorrentFSProofs ---------------------------
(***************************************************************************)
(* NoHoles, WindowsFit and WaitedForIsAsked of TorrentFS, for any layout   *)
(* of the file, any chunk, any memory, any number of readers and of runs   *)
(* of PrioritizePieces at once.                                            *)
(***************************************************************************)
EXTENDS TorrentFS, FiniteSetTheorems, SequenceTheorems, WellFoundedInduction, TLAPS

\* The types of what a read looks at.
Types ==
  /\ memory \in BOOLEAN
  /\ pc \in [Readers -> Reading \cup {"none", "seek", "prioritize", "move", "ready", "over"}]
  /\ pos \in [Readers -> Nat]
  /\ left \in [Readers -> Nat]

\* A piece on disk that was there when its read began stays.
OnDisk(r) == ~memory /\ pc[r] = "copy" => Piece(pos[r]) \in have

IInv == Types /\ NoHoles /\ \A r \in Readers : OnDisk(r)

-----------------------------------------------------------------------------
\* The smaller of two numbers.
LEMMA MinOfTwo ==
  ASSUME NEW a \in Int, NEW b \in Int
  PROVE  Min({a, b}) = IF a <= b THEN a ELSE b
<1> DEFINE m == IF a <= b THEN a ELSE b
<1>1. m \in {a, b} /\ \A y \in {a, b} : m <= y
  OBVIOUS
<1>2. \A x \in {a, b} : (\A y \in {a, b} : x <= y) => x = m
  OBVIOUS
<1> QED
  BY <1>1, <1>2 DEF Min

\* Bytes before the end of their piece are in that piece.
LEMMA SamePiece ==
  ASSUME NEW o \in Nat, NEW i \in Nat, NEW len \in Nat \ {0}, i < len - (o % len)
  PROVE  (o + i) \div len = o \div len
<1> DEFINE q == o \div len
           m == o % len
<1>1. o = q * len + m /\ m >= 0 /\ m < len /\ q \in Int /\ m \in Int
  OBVIOUS
<1>2. o + i = q * len + (m + i) /\ 0 <= m + i /\ m + i < len
  BY <1>1
<1>3. (o + i) \div len = q
  BY <1>2, <1>1
<1> QED
  BY <1>3

LEMMA SizeBound ==
  ASSUME Types, NEW r \in Readers
  PROVE  /\ Size(r) \in Nat /\ Size(r) <= left[r]
         /\ Size(r) <= PieceLength - ((FileOffset + pos[r]) % PieceLength)
<1>1. left[r] \in Nat /\ pos[r] \in Nat /\ FileOffset \in Nat /\ PieceLength \in Nat \ {0}
  BY LayoutAssumption DEF Types
<1> DEFINE m == (FileOffset + pos[r]) % PieceLength
           rest == PieceLength - m
<1>2. m \in Nat /\ rest \in Nat
  BY <1>1
<1>3. Size(r) = IF left[r] <= rest THEN left[r] ELSE rest
  BY <1>1, <1>2, MinOfTwo DEF Size, InPiece
<1> QED
  BY <1>1, <1>2, <1>3

\* What one turn of a read touches is the piece of its position.
LEMMA OnePiece ==
  ASSUME Types, NEW r \in Readers, NEW i \in 0 .. Size(r) - 1
  PROVE  Piece(pos[r] + i) = Piece(pos[r])
<1>1. pos[r] \in Nat /\ FileOffset \in Nat /\ PieceLength \in Nat \ {0}
  BY LayoutAssumption DEF Types
<1> DEFINE o == FileOffset + pos[r]
<1>2. i \in Nat /\ i < PieceLength - (o % PieceLength) /\ o \in Nat
  <2>1. o \in Nat /\ o % PieceLength \in Nat
    BY <1>1
  <2> QED
    BY <1>1, <2>1, SizeBound
<1> HIDE DEF o
<1>3. (o + i) \div PieceLength = o \div PieceLength
  BY <1>1, <1>2, SamePiece
<1>4. FileOffset + (pos[r] + i) = o + i
  BY <1>1, <1>2 DEF o
<1> QED
  BY <1>3, <1>4 DEF Piece, o

-----------------------------------------------------------------------------
LEMMA InitIInv == Init => IInv
BY DEF Init, IInv, Types, NoHoles, OnDisk, Reading

LEMMA TypeStep == Types /\ [Next]_vars => Types'
<1> SUFFICES ASSUME Types, [Next]_vars PROVE Types'
  OBVIOUS
<1> USE DEF torrent, file, libtorrent, To, Reading
<1>1. ASSUME NEW r \in Readers, Open(r) \/ SeekIdle(r) PROVE Types'
  BY <1>1 DEF Types, Open, SeekIdle
<1>11. ASSUME NEW r \in Readers, SeekPrioritize(r) PROVE Types'
  BY <1>11 DEF Types, SeekPrioritize
<1>2. ASSUME NEW r \in Readers, SeekMove(r) PROVE Types'
  <2>1. \A s \in Starts : s \in Nat
    BY LayoutAssumption
  <2> QED
    BY <1>2, <2>1 DEF Types, SeekMove
<1>3. ASSUME NEW r \in Readers, ReadStart(r) PROVE Types'
  <2>1. Chunk \in Nat /\ FileSize \in Nat /\ pos[r] \in Nat /\ pos[r] < FileSize
    BY <1>3, LayoutAssumption DEF Types, ReadStart
  <2>2. Min({Chunk, FileSize - pos[r]}) \in Nat
    BY <2>1, MinOfTwo
  <2> QED
    BY <1>3, <2>2 DEF Types, ReadStart
<1>4. ASSUME NEW r \in Readers, WaitForPiece(r) \/ PieceArrives(r) PROVE Types'
  <2>1. pc' \in [Readers -> Reading \cup {"none", "seek", "prioritize", "move", "ready", "over"}]
    BY <1>4 DEF Types, WaitForPiece, PieceArrives
  <2> QED
    BY <1>4, <2>1 DEF Types, WaitForPiece, PieceArrives
<1>5. ASSUME NEW r \in Readers, Copy(r) PROVE Types'
  <2>1. pos[r] + Size(r) \in Nat /\ left[r] - Size(r) \in Nat
    BY SizeBound DEF Types
  <2>2. pos' \in [Readers -> Nat] /\ left' \in [Readers -> Nat]
    BY <1>5, <2>1 DEF Types, Copy
  <2>3. pc' \in [Readers -> Reading \cup {"none", "seek", "prioritize", "move", "ready", "over"}]
    BY <1>5 DEF Types, Copy
  <2> QED
    BY <1>5, <2>2, <2>3 DEF Types, Copy
<1>6. ASSUME NEW r \in Readers, Close(r) PROVE Types'
  BY <1>6 DEF Types, Close
<1>7. CASE PrioritizeTick \/ Play \/ Buffer \/ BufferFinished
  BY <1>7 DEF Types, PrioritizeTick, Play, Buffer, BufferFinished
<1>10. ASSUME NEW i \in DOMAIN runs, PrioritizeCompare(i) \/ PrioritizeSet(i) PROVE Types'
  BY <1>10 DEF Types, PrioritizeCompare, PrioritizeSet
<1>8. ASSUME NEW p \in Pieces, Download(p) \/ Evict(p) PROVE Types'
  BY <1>8 DEF Types, Download, Evict
<1>9. CASE UNCHANGED vars
  BY <1>9 DEF Types, vars
<1> QED
  BY <1>1, <1>2, <1>3, <1>4, <1>5, <1>6, <1>7, <1>8, <1>9, <1>10, <1>11 DEF Next, Request

LEMMA CopyStep ==
  ASSUME IInv, NEW r \in Readers, Copy(r)
  PROVE  ~holes' /\ \A q \in Readers : OnDisk(q)'
<1> USE DEF IInv, Types
<1>1. ~holes'
  <2>1. CASE memory /\ Piece(pos[r]) \notin have
    BY <2>1 DEF Copy, NoHoles
  <2>2. CASE ~(memory /\ Piece(pos[r]) \notin have)
    <3>1. Piece(pos[r]) \in have
      BY <2>2 DEF Copy, OnDisk
    <3>2. {Piece(pos[r] + i) : i \in 0 .. Size(r) - 1} \subseteq have
      BY <3>1, OnePiece
    <3> QED
      BY <2>2, <3>2 DEF Copy, NoHoles
  <2> QED
    BY <2>1, <2>2
<1>2. ASSUME NEW q \in Readers PROVE OnDisk(q)'
  <2>1. UNCHANGED <<memory, have>> /\ pc'[r] # "copy"
    BY DEF Copy, To, torrent, libtorrent
  <2>2. q # r => pc'[q] = pc[q] /\ pos'[q] = pos[q]
    BY DEF Copy, To
  <2> QED
    BY <2>1, <2>2 DEF OnDisk, Piece
<1> QED
  BY <1>1, <1>2

LEMMA NextIInv == IInv /\ [Next]_vars => IInv'
<1> SUFFICES ASSUME IInv, [Next]_vars PROVE IInv'
  OBVIOUS
<1>0. Types'
  BY TypeStep DEF IInv
<1> SUFFICES NoHoles' /\ \A q \in Readers : OnDisk(q)'
  BY <1>0 DEF IInv
<1>a. ~holes /\ Types /\ \A q \in Readers : OnDisk(q)
  BY DEF IInv, NoHoles
<1> USE <1>a DEF torrent, file, libtorrent, To, NoHoles, OnDisk, Types, Piece
<1> DEFINE Goal == ~holes' /\ \A q \in Readers : OnDisk(q)'
<1>1. ASSUME NEW r \in Readers, Open(r) \/ SeekIdle(r) PROVE Goal
  BY <1>1 DEF Open, SeekIdle
<1>11. ASSUME NEW r \in Readers, SeekPrioritize(r) PROVE Goal
  BY <1>11 DEF SeekPrioritize
<1>2. ASSUME NEW r \in Readers, SeekMove(r) PROVE Goal
  <2>1. UNCHANGED <<memory, have, holes>> /\ pc'[r] = "ready"
    BY <1>2 DEF SeekMove
  <2>2. \A q \in Readers \ {r} : pc'[q] = pc[q] /\ pos'[q] = pos[q]
    BY <1>2 DEF SeekMove
  <2> QED
    BY <2>1, <2>2
<1>3. ASSUME NEW r \in Readers, ReadStart(r) PROVE Goal
  BY <1>3 DEF ReadStart
<1>4. ASSUME NEW r \in Readers, WaitForPiece(r) \/ PieceArrives(r) PROVE Goal
  <2>1. UNCHANGED <<memory, have, holes, pos>>
    BY <1>4 DEF WaitForPiece, PieceArrives
  <2>2. pc'[r] = "copy" => Piece(pos[r]) \in have
    BY <1>4 DEF WaitForPiece, PieceArrives
  <2>3. \A q \in Readers \ {r} : pc'[q] = pc[q]
    BY <1>4 DEF WaitForPiece, PieceArrives
  <2> QED
    BY <2>1, <2>2, <2>3
<1>5. ASSUME NEW r \in Readers, Copy(r) PROVE Goal
  BY <1>5, CopyStep
<1>6. ASSUME NEW r \in Readers, Close(r) PROVE Goal
  BY <1>6 DEF Close
<1>7. CASE PrioritizeTick \/ Play \/ Buffer \/ BufferFinished
  BY <1>7 DEF PrioritizeTick, Play, Buffer, BufferFinished
<1>10. ASSUME NEW i \in DOMAIN runs, PrioritizeCompare(i) \/ PrioritizeSet(i) PROVE Goal
  BY <1>10 DEF PrioritizeCompare, PrioritizeSet
<1>8. ASSUME NEW p \in Pieces, Download(p) \/ Evict(p) PROVE Goal
  BY <1>8 DEF Download, Evict
<1>9. CASE UNCHANGED vars
  BY <1>9 DEF vars
<1> QED
  BY <1>1, <1>2, <1>3, <1>4, <1>5, <1>6, <1>7, <1>8, <1>9, <1>10, <1>11 DEF Next, Request

\* No read returns bytes of a piece that is not there (torrentfs.go, Read and
\* waitForPiece), wherever the file lies in the torrent and however it is read.
THEOREM ReadsHaveNoHoles == Spec => []NoHoles
<1>1. IInv => NoHoles
  BY DEF IInv
<1> QED
  BY InitIInv, NextIInv, <1>1, PTL DEF Spec

-----------------------------------------------------------------------------
(* The windows in memory *)

\* Two of a set of at most two are all of it.
LEMMA TwoOfTwo ==
  ASSUME NEW set, IsFiniteSet(set), Cardinality(set) <= 2, NEW r \in set, NEW q \in set \ {r}
  PROVE  Cardinality(set) = 2 /\ set = {r, q}
<1> PICK one : one = {r}
  OBVIOUS
<1>1. IsFiniteSet(one) /\ Cardinality(one) = 1 /\ q \notin one
  BY FS_Singleton
<1>2. Cardinality(one \cup {q}) = 2
  BY <1>1, FS_AddElement
<1>3. one \cup {q} \subseteq set /\ Cardinality(set) \in Nat
  BY FS_CardinalityType
<1>4. one \cup {q} = set
  BY <1>2, <1>3, FS_Subset
<1> QED
  BY <1>2, <1>4

\* Shared out among two at most, the memory suffices, whoever is idle.
LEMMA ReadaheadFits ==
  ASSUME NEW set, IsFiniteSet(set), set \subseteq Readers, Cardinality(set) <= 2, NEW busy,
         NEW r \in set
  PROVE  /\ Readahead(set, busy)[r] <= Ahead
         /\ \A q \in set \ {r} : Readahead(set, busy)[r] + Readahead(set, busy)[q] <= Ahead
<1> DEFINE idle == \E x \in set : ~busy[x]
           third == (Ahead * 33) \div 100
           n == Min({2, Cardinality(set)})
           share == IF idle THEN Ahead - third ELSE Ahead \div n
<1>1. \A x \in set : Readahead(set, busy)[x] = IF busy[x] THEN share ELSE third
  BY DEF Readahead
<1>2. Ahead \in Nat /\ Cardinality(set) \in Nat /\ Cardinality(set) # 0
  BY LayoutAssumption, FS_CardinalityType, FS_EmptySet
<1>3. third \in Nat /\ 2 * third <= Ahead
  BY <1>2
<1>4. n \in {1, 2} /\ n = Cardinality(set)
  BY <1>2, MinOfTwo
<1>5. ASSUME NEW q \in set \ {r} PROVE n = 2
  BY <1>4, TwoOfTwo
<1>6. Ahead \div n \in Nat /\ Ahead \div n <= Ahead /\ (n = 2 => 2 * (Ahead \div n) <= Ahead)
  <2>1. CASE n = 1
    BY <1>2, <2>1
  <2>2. CASE n = 2
    BY <1>2, <2>2
  <2> QED
    BY <1>4, <2>1, <2>2
<1>7. share \in Nat /\ share <= Ahead
  BY <1>2, <1>3, <1>6
<1>8. Readahead(set, busy)[r] <= Ahead
  BY <1>1, <1>2, <1>3, <1>7
<1>9. ASSUME NEW q \in set \ {r}
      PROVE  Readahead(set, busy)[r] + Readahead(set, busy)[q] <= Ahead
  <2>1. n = 2
    BY <1>5
  <2> HIDE DEF n, third
  <2>2. CASE idle
    \* One of the two has a third, and the other one the rest or a third too.
    <3>1. ~busy[r] \/ ~busy[q]
      BY <2>2, TwoOfTwo
    <3>2. share = Ahead - third
      BY <2>2
    <3>3. CASE ~busy[r]
      BY <1>1, <1>2, <1>3, <3>2, <3>3
    <3>4. CASE ~busy[q]
      BY <1>1, <1>2, <1>3, <3>2, <3>4
    <3> QED
      BY <3>1, <3>3, <3>4
  <2>3. CASE ~idle
    <3>1. share = Ahead \div n /\ busy[r] /\ busy[q]
      BY <2>3
    <3> QED
      BY <1>1, <1>2, <1>6, <2>1, <3>1
  <2> QED
    BY <2>2, <2>3
<1> QED
  BY <1>8, <1>9

FitInv == DOMAIN ahead = Readers /\ readers \subseteq Readers /\ IsFiniteSet(readers) /\ WindowsFit

LEMMA FitInit == Init => FitInv
  BY FS_EmptySet DEF Init, FitInv, WindowsFit

LEMMA FitStep == FitInv /\ [Next]_vars => FitInv'
<1> SUFFICES ASSUME FitInv, [Next]_vars PROVE FitInv'
  OBVIOUS
<1> USE DEF torrent, file, libtorrent
<1>1. ASSUME UNCHANGED <<readers, ahead>> PROVE FitInv'
  BY <1>1 DEF FitInv, WindowsFit
\* The memory is shared out anew, among the readers that there are then.
<1>2. ASSUME NEW busy, readers' \subseteq Readers, IsFiniteSet(readers'), DOMAIN ahead' = Readers,
             \A r \in readers' : ahead'[r] = Readahead(readers', busy)[r]
      PROVE  FitInv'
  <2> PICK set : set = readers'
    OBVIOUS
  <2>1. ASSUME Cardinality(set) <= 2, NEW r \in set
        PROVE  /\ ahead'[r] <= Ahead
               /\ \A q \in set \ {r} : ahead'[r] + ahead'[q] <= Ahead
    BY <1>2, <2>1, ReadaheadFits
  <2> QED
    BY <1>2, <2>1 DEF FitInv, WindowsFit
<1>3. ASSUME NEW r \in Readers, Open(r) PROVE FitInv'
  <2>1. readers' = readers \cup {r} /\ ahead' = Readahead(readers', active)
    BY <1>3 DEF Open
  <2>2. readers' \subseteq Readers /\ IsFiniteSet(readers')
    BY <2>1, FS_AddElement DEF FitInv
  <2>3. DOMAIN ahead' = Readers
    BY <2>1 DEF Readahead
  <2> QED
    BY <2>1, <2>2, <2>3, <1>2
<1>4. ASSUME NEW r \in Readers, SeekIdle(r) PROVE FitInv'
  <2>1. CASE UNCHANGED ahead
    BY <1>4, <2>1, <1>1 DEF SeekIdle
  <2>2. CASE ahead' = Readahead(readers, active')
    <3>1. readers' = readers /\ DOMAIN ahead' = Readers
      BY <1>4, <2>2 DEF SeekIdle, Readahead
    <3>2. \A q \in readers' : ahead'[q] = Readahead(readers', active')[q]
      BY <2>2, <3>1
    <3> QED
      BY <3>1, <3>2, <1>2 DEF FitInv
  <2> QED
    BY <1>4, <2>1, <2>2 DEF SeekIdle
<1>5. ASSUME NEW r \in Readers, Close(r) PROVE FitInv'
  <2>1. readers' = readers \ {r} /\ ahead' = [Readahead(readers', active) EXCEPT ![r] = 0]
    BY <1>5 DEF Close
  <2>2. readers' \subseteq Readers /\ IsFiniteSet(readers')
    BY <2>1, FS_RemoveElement DEF FitInv
  <2>3. DOMAIN ahead' = Readers
    BY <2>1 DEF Readahead
  <2>4. \A q \in readers' : ahead'[q] = Readahead(readers', active)[q]
    BY <2>1
  <2> QED
    BY <2>2, <2>3, <2>4, <1>2
<1>6. ASSUME NEW r \in Readers,
             SeekPrioritize(r) \/ SeekMove(r) \/ ReadStart(r) \/ WaitForPiece(r) \/ PieceArrives(r) \/ Copy(r)
      PROVE FitInv'
  BY <1>6, <1>1 DEF SeekPrioritize, SeekMove, ReadStart, WaitForPiece, PieceArrives, Copy
<1>7. CASE PrioritizeTick \/ Play \/ Buffer \/ BufferFinished
  BY <1>7, <1>1 DEF PrioritizeTick, Play, Buffer, BufferFinished
<1>10. ASSUME NEW i \in DOMAIN runs, PrioritizeCompare(i) \/ PrioritizeSet(i) PROVE FitInv'
  BY <1>10, <1>1 DEF PrioritizeCompare, PrioritizeSet
<1>8. ASSUME NEW p \in Pieces, Download(p) \/ Evict(p) PROVE FitInv'
  BY <1>8, <1>1 DEF Download, Evict
<1>9. CASE UNCHANGED vars
  BY <1>9, <1>1 DEF vars
<1> QED
  BY <1>3, <1>4, <1>5, <1>6, <1>7, <1>8, <1>9, <1>10 DEF Next, Request

\* Two readers at most never claim more than the memory there is (ResetReaders), however they come,
\* go, and take turns at being idle.
THEOREM WindowsShareMemory == Spec => []WindowsFit
<1>1. FitInv => WindowsFit
  BY DEF FitInv
<1> QED
  BY FitInit, FitStep, <1>1, PTL DEF Spec
-----------------------------------------------------------------------------
(* What is waited for is asked for *)

(* A status tells the ends of a set of pieces and their number. *)
Tells(status, set) ==
  IF set = {} THEN status = <<-1, 0, -1, 0, 0>>
  ELSE status[1] = Min(set) /\ status[3] = Max(set) /\ status[5] = Cardinality(set)

\* Where a reader is: one that reads is open, and has the bytes of its Read before it.
Served ==
  /\ Types
  /\ readers \subseteq Readers /\ IsFiniteSet(readers)
  /\ ahead \in [Readers -> Nat]
  /\ \A r \in Readers :
       /\ pc[r] \in {"none", "over"} \/ r \in readers
       /\ pos[r] <= FileSize
       /\ pc[r] \in Reading => left[r] > 0 /\ pos[r] + left[r] <= FileSize

RunsTold == runs \in Seq(Run) /\ \A i \in DOMAIN runs : Tells(runs[i].status, runs[i].want)

\* Libtorrent has been told, since and perhaps with more, what the last status tells.
LastTold == last = <<>> \/ \E set \in SUBSET Pieces : set \subseteq wanted /\ Tells(last, set)

\* Unless one was overtaken, only the oldest run may be about to call libtorrent, and the last
\* status is its own; when none is about to, libtorrent has been told.
InOrder ==
  ~overtaken =>
    /\ \A i \in DOMAIN runs : runs[i].step = "set" => i = 1 /\ runs[i].status = last
    /\ (\A i \in DOMAIN runs : runs[i].step = "compare") => LastTold

AskedInv == Served /\ RunsTold /\ InOrder

-----------------------------------------------------------------------------
LEMMA Least ==
  ASSUME NEW set, set \subseteq Nat, set # {}, IsFiniteSet(set)
  PROVE  \E x \in set : \A y \in set : x <= y
\* Of what lies below some member, and that member, there is a smallest set.
<1> DEFINE Below(x) == {y \in set : y <= x}
           all == {Below(x) : x \in set}
           R == StrictSubsetOrdering(set)
<1>1. all \subseteq FiniteSubsetsOf(set) /\ all # {}
  <2>1. all \subseteq SUBSET set /\ all # {}
    OBVIOUS
  <2> QED
    BY <2>1, FS_FiniteSubsetsOfFinite
<1>2. PICK b \in all : \A c \in all : ~(<<c, b>> \in R)
  BY <1>1, FS_StrictSubsetOrderingWellFounded, WFMin
<1>3. PICK x \in set : b = Below(x)
  BY <1>2
<1>4. ASSUME NEW y \in set, y < x PROVE FALSE
  <2>1. x \in Nat /\ y \in Nat /\ \A z \in set : z \in Nat
    OBVIOUS
  <2>2. Below(y) \subseteq Below(x) /\ Below(y) # Below(x) /\ Below(x) \subseteq set
    <3> HIDE DEF R, all
    <3>1. \A z \in set : z <= y => z <= x
      BY <2>1, <1>4
    <3>2. x \in Below(x) /\ x \notin Below(y)
      BY <2>1, <1>4
    <3> QED
      BY <3>1, <3>2
  <2>3. <<Below(y), b>> \in R
    BY <2>2, <1>3 DEF StrictSubsetOrdering
  <2> QED
    BY <1>2, <2>3
<1> QED
  BY <1>4

\* A set of pieces has a first one and a last one.
LEMMA Ends ==
  ASSUME NEW n \in Nat, NEW set, set \subseteq 0 .. n, set # {}
  PROVE  /\ Min(set) \in set /\ Max(set) \in set
         /\ \A x \in set : Min(set) <= x /\ x <= Max(set)
<1>0. IsFiniteSet(0 .. n) /\ 0 .. n \subseteq Nat
  BY FS_Interval
<1>1. PICK least \in set : \A y \in set : least <= y
  <2>1. IsFiniteSet(set) /\ set \subseteq Nat
    BY <1>0, FS_Subset
  <2> QED
    BY <2>1, Least
<1>2. PICK greatest \in set : \A y \in set : y <= greatest
  <2> DEFINE mirror == {n - x : x \in set}
  <2>1. mirror \subseteq 0 .. n /\ mirror # {}
    OBVIOUS
  <2>2. IsFiniteSet(mirror) /\ mirror \subseteq Nat
    BY <1>0, <2>1, FS_Subset
  <2>3. PICK z \in mirror : \A y \in mirror : z <= y
    BY <2>1, <2>2, Least
  <2>4. PICK x \in set : z = n - x
    BY <2>3
  <2>5. \A y \in set : n - x <= n - y
    BY <2>3, <2>4
  <2> QED
    BY <2>5
<1>3. Min(set) \in set /\ \A y \in set : Min(set) <= y
  BY <1>1 DEF Min
<1>4. Max(set) \in set /\ \A y \in set : Max(set) >= y
  <2>1. \A y \in set : greatest >= y
    BY <1>2
  <2> QED
    BY <2>1 DEF Max
<1>5. \A x, y \in 0 .. n : x >= y <=> y <= x
  OBVIOUS
<1> QED
  BY <1>3, <1>4, <1>5

LEMMA PiecesFinite ==
  ASSUME NEW set, set \subseteq Pieces
  PROVE  IsFiniteSet(set) /\ Cardinality(set) \in Nat /\ (Cardinality(set) = 0 <=> set = {})
<1>1. IsFiniteSet(Pieces)
  BY LayoutAssumption, FS_Interval DEF Pieces
<1> QED
  BY <1>1, FS_Subset, FS_CardinalityType, FS_EmptySet

LEMMA PieceEnds ==
  ASSUME NEW set, set \subseteq Pieces, set # {}
  PROVE  /\ Min(set) \in set /\ Max(set) \in set /\ Min(set) \in Int /\ Max(set) \in Int
         /\ \A x \in set : Min(set) <= x /\ x <= Max(set)
<1>1. NumPieces - 1 \in Nat /\ Pieces \subseteq Int
  BY LayoutAssumption DEF Pieces
<1>2. Min(set) \in set /\ Max(set) \in set /\ \A x \in set : Min(set) <= x /\ x <= Max(set)
  BY <1>1, Ends DEF Pieces
<1> QED
  BY <1>1, <1>2

\* With no gap, the ends and the number of the pieces are the pieces.
LEMMA NoGap ==
  ASSUME NEW set, set \subseteq Pieces, NEW whole, whole \subseteq Pieces, whole # {},
         whole = Min(whole) .. Max(whole),
         NEW status, Tells(status, set), Tells(status, whole)
  PROVE  set = whole
<1>1. Cardinality(whole) # 0
  BY PiecesFinite
<1>2. set # {}
  BY <1>1 DEF Tells
<1>3. Min(set) = Min(whole) /\ Max(set) = Max(whole) /\ Cardinality(set) = Cardinality(whole)
  BY <1>2 DEF Tells
<1>4. set \subseteq whole
  <2>1. \A x \in set : Min(whole) <= x /\ x <= Max(whole)
    BY <1>2, <1>3, PieceEnds
  <2>0. Pieces \subseteq Int
    BY LayoutAssumption DEF Pieces
  <2>2. Min(whole) \in Int /\ Max(whole) \in Int /\ \A x \in set : x \in Int
    BY <2>0, PieceEnds
  <2> HIDE DEF Tells
  <2>3. \A x \in set : x \in Min(whole) .. Max(whole)
    BY <2>1, <2>2
  <2> QED
    BY <2>3
<1> QED
  BY <1>3, <1>4, PiecesFinite, FS_Subset

LEMMA PrioritiesInt ==
  ASSUME NEW p, NEW a \in Priorities(p)
  PROVE  a \in Int
<1>1. \A n : Nearness(n) \in Int
  BY DEF Nearness
<1> QED
  BY <1>1 DEF Priorities

\* The status of a run tells what the run wants.
LEMMA StatusTells ==
  ASSUME NEW s \in Statuses
  PROVE  s \in Int \X Int \X Int \X Int \X Int /\ Tells(s, Wanted) /\ Wanted \subseteq Pieces /\ s # <<>>
<1>1. Wanted \subseteq Pieces
  BY DEF Wanted, ReaderPieces, FilePieces
<1>2. CASE Wanted = {}
  BY <1>1, <1>2 DEF Statuses, Tells
<1>3. CASE Wanted # {}
  <2>1. Min(Wanted) \in Int /\ Max(Wanted) \in Int /\ Cardinality(Wanted) \in Int
    BY <1>1, <1>3, PieceEnds, PiecesFinite
  <2>2. PICK a \in Priorities(Min(Wanted)), b \in Priorities(Max(Wanted)) :
          s = <<Min(Wanted), a, Max(Wanted), b, Cardinality(Wanted)>>
    BY <1>3 DEF Statuses
  <2>3. a \in Int /\ b \in Int
    BY PrioritiesInt
  <2> QED
    BY <1>1, <1>3, <2>1, <2>2, <2>3 DEF Tells
<1> QED
  BY <1>2, <1>3

LEMMA Removed ==
  ASSUME NEW S, NEW s \in Seq(S), NEW i \in DOMAIN s
  PROVE  /\ RemoveAt(s, i) \in Seq(S) /\ Len(RemoveAt(s, i)) = Len(s) - 1
         /\ \A j \in DOMAIN RemoveAt(s, i) :
              \E k \in DOMAIN s \ {i} : (j = 1 => k = 1 \/ i = 1) /\ RemoveAt(s, i)[j] = s[k]
<1> DEFINE a == SubSeq(s, 1, i - 1)
           b == SubSeq(s, i + 1, Len(s))
<1>1. i \in 1 .. Len(s) /\ Len(s) \in Nat /\ \A j \in 1 .. Len(s) : s[j] \in S
  OBVIOUS
<1>2. a \in Seq(S) /\ Len(a) = i - 1 /\ \A j \in 1 .. i - 1 : a[j] = s[j]
  <2>1. 1 \in Int /\ i - 1 \in Int /\ \A j \in 1 .. i - 1 : s[j] \in S
    BY <1>1
  <2> HIDE DEF a
  <2>2. a \in Seq(S) /\ Len(a) = (IF 1 <= i - 1 THEN (i - 1) - 1 + 1 ELSE 0)
        /\ \A j \in 1 .. (i - 1) - 1 + 1 : a[j] = s[1 + j - 1]
    BY <2>1, SubSeqProperties DEF a
  <2> QED
    BY <1>1, <2>2
<1>3. b \in Seq(S) /\ Len(b) = Len(s) - i /\ \A j \in 1 .. Len(s) - i : b[j] = s[i + j]
  <2>1. i + 1 \in Int /\ Len(s) \in Int /\ \A j \in i + 1 .. Len(s) : s[j] \in S
    BY <1>1
  <2> HIDE DEF b
  <2>2. b \in Seq(S) /\ Len(b) = (IF i + 1 <= Len(s) THEN Len(s) - (i + 1) + 1 ELSE 0)
        /\ \A j \in 1 .. Len(s) - (i + 1) + 1 : b[j] = s[(i + 1) + j - 1]
    BY <2>1, SubSeqProperties DEF b
  <2> QED
    BY <1>1, <2>2
<1>4. RemoveAt(s, i) = a \o b
  BY DEF RemoveAt
<1> HIDE DEF a, b
<1> DEFINE ab == a \o b
<1>5. ab \in Seq(S) /\ Len(ab) = Len(a) + Len(b)
      /\ \A j \in 1 .. Len(a) + Len(b) : ab[j] = IF j <= Len(a) THEN a[j] ELSE b[j - Len(a)]
  BY <1>2, <1>3, ConcatProperties
<1> HIDE DEF ab
<1>6. Len(ab) = Len(s) - 1 /\ DOMAIN ab = 1 .. Len(s) - 1
  BY <1>1, <1>2, <1>3, <1>5
<1>7. ASSUME NEW j \in 1 .. Len(s) - 1
      PROVE  \E k \in DOMAIN s \ {i} : (j = 1 => k = 1 \/ i = 1) /\ ab[j] = s[k]
  <2>1. CASE j < i
    <3>1. ab[j] = s[j] /\ j \in DOMAIN s \ {i}
      BY <1>1, <1>2, <1>3, <1>5, <1>7, <2>1
    <3> QED
      BY <3>1
  <2>2. CASE j >= i
    <3>0. j \in Nat /\ i \in Nat /\ j - (i - 1) \in 1 .. Len(s) - i /\ i + (j - (i - 1)) = j + 1
      BY <1>1, <1>7, <2>2
    <3>1. ab[j] = b[j - (i - 1)]
      BY <1>1, <1>2, <1>3, <1>5, <1>7, <2>2
    <3>2. ab[j] = s[j + 1]
      BY <1>3, <3>0, <3>1
    <3>3. j + 1 \in DOMAIN s \ {i} /\ (j = 1 => i = 1)
      BY <1>1, <1>7, <2>2
    <3> QED
      BY <3>2, <3>3
  <2> QED
    BY <1>1, <2>1, <2>2
<1> QED
  BY <1>4, <1>5, <1>6, <1>7 DEF ab

\* What ResetReaders shares out is a number of bytes.
LEMMA ReadaheadType ==
  ASSUME ahead \in [Readers -> Nat], NEW set, IsFiniteSet(set), NEW busy
  PROVE  Readahead(set, busy) \in [Readers -> Nat]
<1> DEFINE idle == \E x \in set : ~busy[x]
           third == (Ahead * 33) \div 100
           n == Min({2, Cardinality(set)})
           share == IF idle THEN Ahead - third ELSE Ahead \div n
<1>1. Ahead \in Nat /\ third \in Nat /\ third <= Ahead
  BY LayoutAssumption
<1>2. ASSUME set # {} PROVE share \in Nat
  <2>1. Cardinality(set) \in Nat /\ Cardinality(set) # 0
    BY <1>2, FS_CardinalityType, FS_EmptySet
  <2>2. n \in {1, 2}
    BY <2>1, MinOfTwo
  <2> HIDE DEF n, third
  <2>3. Ahead \div n \in Nat
    BY <1>1, <2>2
  <2> QED
    BY <1>1, <2>3
<1> HIDE DEF idle, third, share
<1>3. \A r \in Readers : (IF r \notin set THEN ahead[r] ELSE IF busy[r] THEN share ELSE third) \in Nat
  BY <1>1, <1>2
<1>4. Readahead(set, busy) = [r \in Readers |-> IF r \notin set THEN ahead[r] ELSE IF busy[r] THEN share ELSE third]
  BY DEF Readahead, idle, third, share
<1> QED
  BY <1>3, <1>4

LEMMA AskedInit == Init => AskedInv
<1> SUFFICES ASSUME Init PROVE AskedInv
  OBVIOUS
<1>1. Types
  BY InitIInv DEF IInv
<1>2. Served
  BY <1>1, LayoutAssumption, FS_EmptySet DEF Init, Served, Reading
<1>3. RunsTold /\ InOrder
  BY DEF Init, RunsTold, InOrder, LastTold
<1> QED
  BY <1>2, <1>3 DEF AskedInv

LEMMA ServedStep == Served /\ [Next]_vars => Served'
<1> SUFFICES ASSUME Served, [Next]_vars PROVE Served'
  OBVIOUS
<1>0. Types /\ Types'
  BY TypeStep DEF Served
<1> USE <1>0, LayoutAssumption DEF torrent, file, libtorrent, To, Reading
<1>1. ASSUME UNCHANGED <<readers, ahead, pc, pos, left>> PROVE Served'
  BY <1>1 DEF Served
<1>2. ASSUME NEW r \in Readers, Open(r) PROVE Served'
  <2>1. readers' \subseteq Readers /\ IsFiniteSet(readers')
    BY <1>2, FS_AddElement DEF Open, Served
  <2>2. ahead' \in [Readers -> Nat]
    BY <1>2, <2>1, ReadaheadType DEF Open, Served
  <2>3. \A q \in Readers : pc'[q] \in {"none", "over"} \/ q \in readers'
    BY <1>2 DEF Open, Served, Types
  <2> QED
    BY <1>2, <2>1, <2>2, <2>3 DEF Open, Served, Types
<1>3. ASSUME NEW r \in Readers, SeekIdle(r) PROVE Served'
  <2>1. ahead' \in [Readers -> Nat]
    BY <1>3, ReadaheadType DEF SeekIdle, Served
  <2> QED
    BY <1>3, <2>1 DEF SeekIdle, Served, Types
<1>4. ASSUME NEW r \in Readers, SeekPrioritize(r) PROVE Served'
  BY <1>4 DEF SeekPrioritize, Served, Types
<1>5. ASSUME NEW r \in Readers, SeekMove(r) PROVE Served'
  <2>1. PICK at \in Starts : pos' = [pos EXCEPT ![r] = at]
    BY <1>5 DEF SeekMove
  <2>2. at \in Nat /\ at <= FileSize
    OBVIOUS
  <2>3. \A q \in Readers : pos'[q] <= FileSize
    BY <2>1, <2>2 DEF Served, Types
  <2>4. \A q \in Readers \ {r} : pos'[q] = pos[q]
    BY <2>1 DEF Types
  <2> QED
    BY <1>5, <2>3, <2>4 DEF SeekMove, Served, Types
<1>6. ASSUME NEW r \in Readers, ReadStart(r) PROVE Served'
  <2>1. Chunk \in Nat \ {0} /\ FileSize \in Nat /\ pos[r] \in Nat /\ pos[r] < FileSize
    BY <1>6 DEF Types, ReadStart
  <2> DEFINE n == Min({Chunk, FileSize - pos[r]})
  <2>2. n \in Nat /\ n > 0 /\ pos[r] + n <= FileSize
    BY <2>1, MinOfTwo
  <2>3. left' = [left EXCEPT ![r] = n]
    BY <1>6 DEF ReadStart
  <2> HIDE DEF n
  <2> QED
    BY <1>6, <2>2, <2>3 DEF ReadStart, Served, Types
<1>7. ASSUME NEW r \in Readers, WaitForPiece(r) \/ PieceArrives(r) PROVE Served'
  <2>1. UNCHANGED <<readers, ahead, pos, left>> /\ pc[r] \in Reading
        /\ \A q \in Readers \ {r} : pc'[q] = pc[q]
    BY <1>7 DEF WaitForPiece, PieceArrives, Types
  <2> QED
    BY <2>1 DEF Served, Types
<1>8. ASSUME NEW r \in Readers, Copy(r) PROVE Served'
  <2>1. Size(r) \in Nat /\ Size(r) <= left[r]
    BY SizeBound
  <2>2. UNCHANGED <<readers, ahead>> /\ pc[r] = "copy"
        /\ \A q \in Readers \ {r} : pc'[q] = pc[q] /\ pos'[q] = pos[q] /\ left'[q] = left[q]
    BY <1>8 DEF Copy, Types
  <2>3. pos'[r] <= FileSize /\ (pc'[r] \in Reading => left'[r] > 0 /\ pos'[r] + left'[r] <= FileSize)
    <3>1. left[r] > 0 /\ pos[r] + left[r] <= FileSize /\ left[r] \in Nat /\ pos[r] \in Nat /\ FileSize \in Nat
      BY <2>2 DEF Served, Types
    <3>2. CASE UNCHANGED <<pos, left>>
      BY <3>1, <3>2
    <3>3. CASE ~UNCHANGED <<pos, left>>
      <4>1. pos'[r] = pos[r] + Size(r) /\ left'[r] = left[r] - Size(r)
            /\ pc'[r] = IF left[r] = Size(r) THEN "ready" ELSE "test"
        BY <1>8, <3>3 DEF Copy, Types
      <4> QED
        BY <2>1, <3>1, <4>1
    <3> QED
      BY <3>2, <3>3
  <2> QED
    BY <2>2, <2>3 DEF Served, Types
<1>9. ASSUME NEW r \in Readers, Close(r) PROVE Served'
  <2>1. readers' \subseteq Readers /\ IsFiniteSet(readers')
    BY <1>9, FS_RemoveElement DEF Close, Served
  <2>2. ahead' \in [Readers -> Nat]
    <3>1. Readahead(readers', active) \in [Readers -> Nat]
      BY <2>1, ReadaheadType DEF Served
    <3> QED
      BY <1>9, <3>1 DEF Close
  <2>3. pc[r] = "ready" /\ pc'[r] = "over" /\ pos'[r] = 0 /\ readers' = readers \ {r} /\ left' = left
        /\ \A q \in Readers \ {r} : pc'[q] = pc[q] /\ pos'[q] = pos[q]
    BY <1>9 DEF Close, Types
  <2> QED
    BY <2>1, <2>2, <2>3 DEF Served, Types
<1>10. CASE PrioritizeTick \/ Play \/ Buffer \/ BufferFinished
  BY <1>1, <1>10 DEF PrioritizeTick, Play, Buffer, BufferFinished
<1>11. ASSUME NEW i \in DOMAIN runs, PrioritizeCompare(i) \/ PrioritizeSet(i) PROVE Served'
  BY <1>1, <1>11 DEF PrioritizeCompare, PrioritizeSet
<1>12. ASSUME NEW p \in Pieces, Download(p) \/ Evict(p) PROVE Served'
  BY <1>1, <1>12 DEF Download, Evict
<1>13. CASE UNCHANGED vars
  BY <1>1, <1>13 DEF vars
<1> QED
  BY <1>2, <1>3, <1>4, <1>5, <1>6, <1>7, <1>8, <1>9, <1>10, <1>11, <1>12, <1>13 DEF Next, Request

\* A new run is the last of the runs, and has all before it.
LEMMA DecideStep ==
  ASSUME AskedInv, NEW x \in Readers \cup {Ticker}, Decide(x), UNCHANGED <<last, overtaken, wanted>>
  PROVE  RunsTold' /\ InOrder'
<1>1. PICK s \in Statuses :
        runs' = Append(runs, [by |-> x, step |-> "compare", want |-> Wanted, status |-> s])
  BY DEF Decide
<1> DEFINE new == [by |-> x, step |-> "compare", want |-> Wanted, status |-> s]
<1>2. new \in Run /\ Tells(new.status, new.want) /\ new.step = "compare"
  BY StatusTells DEF Run
<1> HIDE DEF new
<1>3. runs \in Seq(Run) /\ runs' = Append(runs, new)
  BY <1>1 DEF AskedInv, RunsTold, new
<1>4. /\ runs' \in Seq(Run) /\ Len(runs) \in Nat /\ DOMAIN runs' = 1 .. Len(runs) + 1
      /\ runs'[Len(runs) + 1] = new
      /\ DOMAIN runs = 1 .. Len(runs) /\ \A i \in DOMAIN runs : i \in DOMAIN runs' /\ runs'[i] = runs[i]
  BY <1>2, <1>3
<1>5. \A i \in DOMAIN runs' : i \in DOMAIN runs \/ i = Len(runs) + 1
  BY <1>4
<1>6. RunsTold'
  BY <1>2, <1>4, <1>5 DEF AskedInv, RunsTold, Tells
<1>7. LastTold => LastTold'
  BY DEF LastTold, Tells
<1>8. InOrder'
  BY <1>2, <1>4, <1>5, <1>7 DEF AskedInv, InOrder
<1> QED
  BY <1>6, <1>8

LEMMA RemoveStep ==
  ASSUME RunsTold, NEW i \in DOMAIN runs, runs' = RemoveAt(runs, i)
  PROVE  /\ RunsTold' /\ Len(runs') = Len(runs) - 1
         /\ \A j \in DOMAIN runs' : \E k \in DOMAIN runs \ {i} : runs'[j] = runs[k]
<1>1. runs' \in Seq(Run) /\ Len(runs') = Len(runs) - 1
      /\ \A j \in DOMAIN runs' : \E k \in DOMAIN runs \ {i} : runs'[j] = runs[k]
  BY Removed DEF RunsTold
<1> QED
  BY <1>1 DEF RunsTold, Tells

LEMMA CompareStep ==
  ASSUME AskedInv, NEW i \in DOMAIN runs, PrioritizeCompare(i)
  PROVE  RunsTold' /\ InOrder'
<1> USE DEF AskedInv
<1>0. runs \in Seq(Run) /\ DOMAIN runs = 1 .. Len(runs) /\ Len(runs) \in Nat
      /\ \A k \in DOMAIN runs : runs[k] \in Run /\ runs[k].step \in {"compare", "set"}
  <2>1. \A x \in Run : x.step \in {"compare", "set"}
    BY DEF Run
  <2>2. runs \in Seq(Run)
    BY DEF RunsTold
  <2> QED
    BY <2>1, <2>2
<1>1. wanted' = wanted /\ runs[i].step = "compare" /\ last' = runs[i].status
      /\ (~overtaken' => ~overtaken /\ i = 1)
  <2>1. ~overtaken' => ~overtaken /\ ~(i > 1)
    BY DEF PrioritizeCompare
  <2>2. ~(i > 1) => i = 1
    BY <1>0
  <2> QED
    BY <2>1, <2>2 DEF PrioritizeCompare
\* Not overtaken, it is the oldest run, and none is about to call libtorrent.
<1>2. ~overtaken' => LastTold /\ \A k \in DOMAIN runs : runs[k].step = "compare"
  BY <1>0, <1>1 DEF InOrder
<1>3. CASE last' = last
  <2>1. runs' = RemoveAt(runs, i)
    BY <1>3 DEF PrioritizeCompare
  <2>2. RunsTold' /\ \A j \in DOMAIN runs' : \E k \in DOMAIN runs \ {i} : runs'[j] = runs[k]
    BY <2>1, RemoveStep
  <2>3. LastTold => LastTold'
    BY <1>1, <1>3 DEF LastTold, Tells
  <2>4. ~overtaken' => \A j \in DOMAIN runs' : runs'[j].step = "compare"
    BY <1>2, <2>2
  <2> QED
    BY <1>2, <2>2, <2>3, <2>4 DEF InOrder
<1>4. CASE last' # last
  <2>1. runs' = [runs EXCEPT ![i].step = "set"]
    BY <1>4 DEF PrioritizeCompare
  <2>2. runs'[i] = [runs[i] EXCEPT !.step = "set"] /\ DOMAIN runs' = DOMAIN runs
        /\ \A k \in DOMAIN runs \ {i} : runs'[k] = runs[k]
    BY <1>0, <2>1
  <2>3. runs'[i] \in Run /\ runs'[i].step = "set" /\ runs'[i].want = runs[i].want
        /\ runs'[i].status = runs[i].status
    BY <1>0, <2>2 DEF Run
  <2>4. runs' \in Seq(Run)
    BY <1>0, <2>1, <2>3
  <2>5. RunsTold'
    <3>1. \A k \in DOMAIN runs' : runs'[k].status = runs[k].status /\ runs'[k].want = runs[k].want
      BY <2>2, <2>3
    <3> QED
      BY <2>2, <2>4, <3>1 DEF RunsTold, Tells
  <2>6. InOrder'
    BY <1>1, <1>2, <2>2, <2>3 DEF InOrder
  <2> QED
    BY <2>5, <2>6
<1> QED
  BY <1>3, <1>4

LEMMA SetStep ==
  ASSUME AskedInv, NEW i \in DOMAIN runs, PrioritizeSet(i)
  PROVE  RunsTold' /\ InOrder'
<1> USE DEF AskedInv
<1>0. runs \in Seq(Run) /\ DOMAIN runs = 1 .. Len(runs) /\ Len(runs) \in Nat
      /\ \A k \in DOMAIN runs : runs[k] \in Run /\ runs[k].step \in {"compare", "set"}
  <2>1. \A x \in Run : x.step \in {"compare", "set"}
    BY DEF Run
  <2>2. runs \in Seq(Run)
    BY DEF RunsTold
  <2> QED
    BY <2>1, <2>2
<1>1. runs[i].step = "set" /\ runs' = RemoveAt(runs, i) /\ wanted' = runs[i].want /\ last' = last
  BY DEF PrioritizeSet, SetPriorities
<1>2. RunsTold' /\ Len(runs') = Len(runs) - 1
      /\ \A j \in DOMAIN runs' : \E k \in DOMAIN runs \ {i} : runs'[j] = runs[k]
  BY <1>1, RemoveStep
<1>3. runs[i].status = last => LastTold'
  <2>1. Tells(runs[i].status, runs[i].want) /\ runs[i].want \in SUBSET Pieces
    BY <1>0 DEF RunsTold, Run
  <2> QED
    BY <1>1, <2>1 DEF LastTold, Tells
<1>4. ASSUME ~overtaken' PROVE LastTold' /\ \A j \in DOMAIN runs' : runs'[j].step = "compare"
  <2>1. CASE ~overtaken
    <3>1. runs[i].status = last /\ \A k \in DOMAIN runs \ {i} : runs[k].step = "compare"
      BY <1>0, <1>1, <2>1 DEF InOrder
    <3> QED
      BY <1>2, <1>3, <3>1
  <2>2. CASE overtaken
    <3>1. ~(Len(runs) > 1) /\ runs[i].status = last
      BY <1>4, <2>2 DEF PrioritizeSet
    <3>2. DOMAIN runs \ {i} = {}
      BY <1>0, <3>1
    <3> QED
      BY <1>2, <1>3, <3>1, <3>2
  <2> QED
    BY <2>1, <2>2
<1>5. InOrder'
  <2> HIDE DEF AskedInv
  <2>1. ~overtaken' => \A j \in DOMAIN runs' : runs'[j].step # "set"
    BY <1>4
  <2> QED
    BY <1>4, <2>1 DEF InOrder
<1> QED
  BY <1>2, <1>5

LEMMA AskedStep == AskedInv /\ [Next]_vars => AskedInv'
<1> SUFFICES ASSUME AskedInv, [Next]_vars PROVE AskedInv'
  OBVIOUS
<1>0. Served'
  BY ServedStep DEF AskedInv
<1> SUFFICES RunsTold' /\ InOrder'
  BY <1>0 DEF AskedInv
<1> USE DEF torrent, file, libtorrent
<1>1. ASSUME UNCHANGED <<runs, last, overtaken>>, wanted \subseteq wanted'
      PROVE  RunsTold' /\ InOrder'
  <2>1. LastTold => LastTold'
    BY <1>1 DEF LastTold, Tells
  <2>2. RunsTold'
    BY <1>1 DEF AskedInv, RunsTold, Tells
  <2> QED
    BY <1>1, <2>1, <2>2 DEF AskedInv, InOrder
<1>2. ASSUME NEW r \in Readers, Open(r) \/ SeekIdle(r) \/ SeekMove(r) \/ ReadStart(r)
      PROVE  RunsTold' /\ InOrder'
  BY <1>1, <1>2 DEF Open, SeekIdle, SeekMove, ReadStart
<1>3. ASSUME NEW r \in Readers, SeekPrioritize(r) PROVE RunsTold' /\ InOrder'
  <2>1. CASE Prioritizing
    BY <1>3, <2>1, DecideStep DEF SeekPrioritize
  <2>2. CASE ~Prioritizing
    BY <1>3, <2>2, <1>1 DEF SeekPrioritize
  <2> QED
    BY <2>1, <2>2
<1>4. ASSUME NEW r \in Readers, WaitForPiece(r) \/ PieceArrives(r) \/ Copy(r) \/ Close(r)
      PROVE  RunsTold' /\ InOrder'
  BY <1>1, <1>4 DEF WaitForPiece, PieceArrives, Copy, Close
<1>5. CASE PrioritizeTick
  BY <1>5, DecideStep DEF PrioritizeTick
<1>6. CASE Play \/ Buffer \/ BufferFinished
  BY <1>1, <1>6 DEF Play, Buffer, BufferFinished
<1>7. ASSUME NEW i \in DOMAIN runs, PrioritizeCompare(i) \/ PrioritizeSet(i)
      PROVE  RunsTold' /\ InOrder'
  BY <1>7, CompareStep, SetStep
<1>8. ASSUME NEW p \in Pieces, Download(p) \/ Evict(p) PROVE RunsTold' /\ InOrder'
  BY <1>1, <1>8 DEF Download, Evict
<1>9. CASE UNCHANGED vars
  BY <1>1, <1>9 DEF vars
<1> QED
  BY <1>2, <1>3, <1>4, <1>5, <1>6, <1>7, <1>8, <1>9 DEF Next, Request

\* The window of a reader with bytes before it begins with the piece of its position.
LEMMA WindowHasPiece ==
  ASSUME Served, NEW r \in readers, pos[r] < FileSize
  PROVE  Piece(pos[r]) \in Wanted
<1>1. r \in Readers /\ pos[r] \in Nat /\ ahead[r] \in Nat
  BY DEF Served, Types
<1>2. FileOffset \in Nat /\ FileSize \in Nat /\ PieceLength \in Nat \ {0} /\ NumPieces \in Nat \ {0}
      /\ FileOffset + FileSize <= PieceLength * NumPieces
  BY LayoutAssumption
<1> DEFINE o == FileOffset + pos[r]
           b == o \div PieceLength
           wish == IF ahead[r] > 0 THEN ahead[r] ELSE 1
           rest == FileSize - pos[r]
           n == IF wish < rest THEN wish ELSE rest
<1>3. o \in Nat /\ o < PieceLength * NumPieces /\ n \in Nat /\ n >= 1
  BY <1>1, <1>2
<1>4. Begin(r) = b /\ End(r) = (o + n - 1) \div PieceLength
  BY DEF Begin, End
<1> HIDE DEF o, n
<1>5. b \in Nat /\ b < NumPieces
  <2>1. b \in Nat /\ b * PieceLength <= o
    BY <1>2, <1>3
  <2> QED
    BY <1>2, <1>3, <2>1
<1>6. End(r) \in Int /\ b <= End(r)
  <2> DEFINE e == (o + n - 1) \div PieceLength
  <2>1. b \in Nat /\ b * PieceLength <= o
    BY <1>2, <1>3
  <2>2. e \in Int /\ o + n - 1 < (e + 1) * PieceLength
    BY <1>2, <1>3
  <2>3. b * PieceLength < (e + 1) * PieceLength
    BY <1>2, <1>3, <2>1, <2>2
  <2>4. b < e + 1
    BY <1>2, <2>1, <2>2, <2>3
  <2> QED
    BY <1>4, <2>1, <2>2, <2>4
<1>7. Piece(pos[r]) = b
  BY <1>2, <1>5, MinOfTwo DEF Piece, o
<1> HIDE DEF b
<1>8. b \in Window(r) /\ b \in Pieces
  BY <1>1, <1>2, <1>4, <1>5, <1>6 DEF Window, Pieces
<1> QED
  BY <1>7, <1>8 DEF Wanted, ReaderPieces

\* While no run of PrioritizePieces is under way and the next would be skipped, a piece that a read
\* waits for has been asked for (torrent.go, PrioritizePieces and PrioritizePiece), for any layout of
\* the file, any number of readers and of runs of the ticker, buffering players between them: what
\* can leave it out is a newer run overtaken by an older one, or a gap between the windows.
THEOREM WaitedIsAsked == Spec => []WaitedForIsAsked
<1>1. AskedInv => WaitedForIsAsked
  <2> SUFFICES ASSUME AskedInv, NEW r \in Readers, pc[r] = "wait", runs = <<>>, last \in Statuses,
                      ~overtaken, ~Gapped
               PROVE  Piece(pos[r]) \in wanted
    BY DEF WaitedForIsAsked
  <2>1. r \in readers /\ pos[r] < FileSize
    <3>1. r \in readers /\ left[r] > 0 /\ pos[r] + left[r] <= FileSize /\ left[r] \in Nat /\ pos[r] \in Nat
      BY DEF AskedInv, Served, Types, Reading
    <3> QED
      BY <3>1, LayoutAssumption
  <2>2. Piece(pos[r]) \in Wanted
    BY <2>1, WindowHasPiece DEF AskedInv
  <2>3. Tells(last, Wanted) /\ Wanted \subseteq Pieces /\ last # <<>>
    BY StatusTells
  <2>4. PICK set \in SUBSET Pieces : set \subseteq wanted /\ Tells(last, set)
    BY <2>3 DEF AskedInv, InOrder, LastTold
  <2>5. Wanted = Min(Wanted) .. Max(Wanted) /\ Wanted # {}
    BY <2>2 DEF Gapped
  <2>6. set = Wanted
    <3> HIDE DEF AskedInv
    <3> QED
      BY <2>3, <2>4, <2>5, NoGap
  <2> QED
    BY <2>2, <2>4, <2>6
<1> QED
  BY AskedInit, AskedStep, <1>1, PTL DEF Spec

==============================================================================
