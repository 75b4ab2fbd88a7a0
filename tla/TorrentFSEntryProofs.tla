------------------------ MODULE TorrentFSEntryProofs ------------------------
(***************************************************************************)
(* The safety of TorrentFSEntry for any number of readers: who waits is    *)
(* woken by the event of its entry (SetWakes), and no reader ends the      *)
(* process before its torrent is dropped (DiesOnlyInDrop).                 *)
(***************************************************************************)
EXTENDS TorrentFSEntry, TLAPS

Steps == {"idle", "lock", "make", "close", "end"}

\* The types of what the proofs look at.
Types ==
  /\ ch \in [Readers -> Nat]
  /\ shut \in [Readers -> SUBSET Nat]
  /\ flag \in [Readers -> BOOLEAN]
  /\ mine \in [Readers -> Nat]
  /\ sub \in [Readers -> {"none", "starting", "on", "alert"}]
  /\ pc \in [Readers -> AtRead \cup {"none", "opening", "open", "close", "delete", "over"}]
  /\ setter \in [Readers -> [Setters -> Steps]]

\* A channel that a waiter or a setter has found was made, and only such a one
\* is closed; the flag says that one was.
MadeFirst(r) ==
  /\ shut[r] \subseteq 1 .. ch[r]
  /\ pc[r] = "got" => ch[r] > 0
  /\ pc[r] = "wait" => mine[r] \in 1 .. ch[r]
  /\ \A s \in Setters : setter[r][s] = "close" => ch[r] > 0
  /\ flag[r] => shut[r] # {}

WakeInv == Types /\ \A r \in Readers : MadeFirst(r)

\* Before Drop the request alone sets its event, and has not closed it before.
HttpAlone(r) ==
  /\ sub[r] # "alert"
  /\ setter[r]["drop"] = "idle" /\ setter[r]["alert"] = "idle"
  /\ setter[r]["http"] # "end" => shut[r] = {}

DieInv ==
  /\ Types
  /\ DiesOnlyInDrop
  /\ ~closer => toClose = {} /\ \A r \in Readers : HttpAlone(r)

-----------------------------------------------------------------------------
LEMMA InitTypes == Init => Types
BY DEF Init, Types, E!EventInit, Setters, Steps, AtRead

\* The steps of Set keep the types and touch one event.
LEMMA SetTypes ==
  ASSUME Types, NEW r \in Readers, NEW s \in Setters, E!SetStep(r, s)
  PROVE  /\ ch' \in [Readers -> Nat] /\ shut' \in [Readers -> SUBSET Nat]
         /\ flag' \in [Readers -> BOOLEAN] /\ setter' \in [Readers -> [Setters -> Steps]]
         /\ \A q \in Readers \ {r} : /\ ch'[q] = ch[q] /\ shut'[q] = shut[q]
                                     /\ flag'[q] = flag[q] /\ setter'[q] = setter[q]
         /\ \A o \in Setters \ {s} : setter'[r][o] = setter[r][o]
<1> USE DEF Types, Steps
<1>1. CASE E!SetTest(r, s)
  BY <1>1 DEF E!SetTest, E!SetterTo
<1>2. CASE E!SetLock(r, s)
  BY <1>2 DEF E!SetLock, E!SetterTo
<1>3. CASE E!SetClose(r, s)
  <2>1. ch' \in [Readers -> Nat] /\ \A q \in Readers \ {r} : ch'[q] = ch[q]
    BY <1>3 DEF E!SetClose, E!MakeChannel
  <2>2. shut' \in [Readers -> SUBSET Nat] /\ \A q \in Readers \ {r} : shut'[q] = shut[q]
    BY <1>3, <2>1 DEF E!SetClose
  <2> QED
    BY <1>3, <2>1, <2>2 DEF E!SetClose, E!SetterTo
<1> QED
  BY <1>1, <1>2, <1>3 DEF E!SetStep

LEMMA TypeStep == Types /\ [Next]_vars => Types'
<1> SUFFICES ASSUME Types, [Next]_vars PROVE Types'
  OBVIOUS
<1>1. ASSUME NEW r \in Readers, Open(r) \/ Read(r) \/ EndRequest(r) \/ CloseTest(r) PROVE Types'
  BY <1>1 DEF Types, Open, Read, EndRequest, CloseTest, To, AtRead, removed
<1>2. ASSUME NEW r \in Readers, Register(r) PROVE Types'
  BY <1>2 DEF Types, Register, To, SubTo, AtRead, removed
<1>3. ASSUME NEW r \in Readers, GetChannel(r) PROVE Types'
  <2>1. ch' \in [Readers -> Nat]
    BY <1>3 DEF Types, GetChannel, E!MakeChannel
  <2>2. mine' \in [Readers -> Nat]
    BY <1>3 DEF Types, GetChannel
  <2>3. pc' \in [Readers -> AtRead \cup {"none", "opening", "open", "close", "delete", "over"}]
    BY <1>3 DEF Types, GetChannel, To, AtRead
  <2> QED
    BY <1>3, <2>1, <2>2, <2>3 DEF Types, GetChannel
<1>4. ASSUME NEW r \in Readers, PieceArrives(r) \/ FileClosed(r) \/ CloseDelete(r) PROVE Types'
  <2>1. mine' \in [Readers -> Nat]
    BY <1>4 DEF Types, PieceArrives, FileClosed, CloseDelete
  <2>2. pc' \in [Readers -> AtRead \cup {"none", "opening", "open", "close", "delete", "over"}]
    BY <1>4 DEF Types, PieceArrives, FileClosed, CloseDelete, To
  <2> QED
    BY <1>4, <2>1, <2>2 DEF Types, PieceArrives, FileClosed, CloseDelete, removed
<1>5. ASSUME NEW r \in Readers, NEW s \in Setters, SetRemoved(r, s) PROVE Types'
  BY <1>5, SetTypes DEF Types, SetRemoved
<1>6. ASSUME NEW r \in Readers, ListenAlerts(r) \/ OtherAlert(r) PROVE Types'
  BY <1>6 DEF Types, ListenAlerts, OtherAlert, SubTo, removed
<1>7. CASE DropStart \/ DropLoopEnds \/ SessionRemoves
  BY <1>7 DEF Types, DropStart, DropLoopEnds, SessionRemoves, removed
<1>8. CASE UNCHANGED vars
  BY <1>8 DEF Types, vars, removed
<1> QED
  BY <1>1, <1>2, <1>3, <1>4, <1>5, <1>6, <1>7, <1>8
     DEF Next, Request, Alerts, Drop, Setters

-----------------------------------------------------------------------------
(* SetWakes *)

LEMMA InitWake == Init => WakeInv
<1> SUFFICES ASSUME Init PROVE WakeInv
  OBVIOUS
<1>1. Types
  BY InitTypes
<1>2. ASSUME NEW r \in Readers PROVE MadeFirst(r)
  BY <1>2 DEF Init, MadeFirst, E!EventInit, Setters
<1> QED
  BY <1>1, <1>2 DEF WakeInv

LEMMA SetKeepsWake ==
  ASSUME WakeInv, NEW r \in Readers, NEW s \in Setters, SetRemoved(r, s), NEW q \in Readers
  PROVE  MadeFirst(q)'
<1> USE DEF WakeInv, MadeFirst
<1>0. Types /\ MadeFirst(q) /\ MadeFirst(r) /\ UNCHANGED <<pc, mine>> /\ E!SetStep(r, s)
  BY DEF SetRemoved
<1>1. CASE q # r
  BY <1>0, <1>1, SetTypes
<1>2. CASE q = r /\ E!SetTest(r, s)
  BY <1>0, <1>2 DEF Types, E!SetTest, E!SetterTo, Steps
<1>3. CASE q = r /\ E!SetLock(r, s)
  BY <1>0, <1>3 DEF Types, E!SetLock, E!SetterTo, Steps
<1>4. CASE q = r /\ E!SetClose(r, s)
  <2>1. ch'[r] \in Nat /\ ch'[r] >= ch[r] /\ ch'[r] > 0 /\ ch[r] \in Nat
    BY <1>0, <1>4 DEF Types, E!SetClose, E!MakeChannel
  <2>2. shut'[r] = shut[r] \cup {ch'[r]}
    BY <1>0, <1>4 DEF Types, E!SetClose
  <2> QED
    BY <1>0, <1>4, <2>1, <2>2 DEF Types
<1> QED
  BY <1>0, <1>1, <1>2, <1>3, <1>4 DEF E!SetStep

LEMMA WakeStep == WakeInv /\ [Next]_vars => WakeInv'
<1> SUFFICES ASSUME WakeInv, [Next]_vars PROVE WakeInv'
  OBVIOUS
<1>0. Types /\ Types'
  BY TypeStep DEF WakeInv
<1> SUFFICES ASSUME NEW q \in Readers PROVE MadeFirst(q)'
  BY <1>0 DEF WakeInv
<1>a. MadeFirst(q)
  BY DEF WakeInv
<1> USE <1>0, <1>a DEF MadeFirst, Types
<1>1. ASSUME NEW r \in Readers, Open(r) \/ Read(r) \/ EndRequest(r) \/ CloseTest(r) PROVE MadeFirst(q)'
  BY <1>1 DEF Open, Read, EndRequest, CloseTest, To, removed
<1>2. ASSUME NEW r \in Readers, Register(r) PROVE MadeFirst(q)'
  BY <1>2 DEF Register, To, removed
<1>3. ASSUME NEW r \in Readers, GetChannel(r) PROVE MadeFirst(q)'
  BY <1>3 DEF GetChannel, To, E!MakeChannel, E!NoChannel
<1>4. ASSUME NEW r \in Readers, PieceArrives(r) \/ FileClosed(r) \/ CloseDelete(r) PROVE MadeFirst(q)'
  BY <1>4 DEF PieceArrives, FileClosed, CloseDelete, To, removed
<1>5. ASSUME NEW r \in Readers, NEW s \in Setters, SetRemoved(r, s) PROVE MadeFirst(q)'
  BY <1>5, SetKeepsWake
<1>6. ASSUME NEW r \in Readers, ListenAlerts(r) \/ OtherAlert(r) PROVE MadeFirst(q)'
  BY <1>6 DEF ListenAlerts, OtherAlert, SubTo, removed
<1>7. CASE DropStart \/ DropLoopEnds \/ SessionRemoves
  BY <1>7 DEF DropStart, DropLoopEnds, SessionRemoves, removed
<1>8. CASE UNCHANGED vars
  BY <1>8 DEF vars, removed
<1> QED
  BY <1>1, <1>2, <1>3, <1>4, <1>5, <1>6, <1>7, <1>8
     DEF Next, Request, Alerts, Drop, Setters

LEMMA WakeInvWakes == WakeInv => SetWakes
BY DEF WakeInv, Types, MadeFirst, SetWakes

\* Who waits on the only channel of a set event waits on a closed one
\* (event.go: C and Set), for any number of readers.
THEOREM EveryoneIsWoken == Spec => []SetWakes
BY InitWake, WakeStep, WakeInvWakes, PTL DEF Spec

-----------------------------------------------------------------------------
(* DiesOnlyInDrop *)

LEMMA InitDie == Init => DieInv
<1> SUFFICES ASSUME Init PROVE DieInv
  OBVIOUS
<1>1. Types
  BY InitTypes
<1>2. ASSUME NEW r \in Readers PROVE HttpAlone(r)
  BY <1>2 DEF Init, HttpAlone, E!EventInit, Setters
<1> QED
  BY <1>1, <1>2 DEF DieInv, DiesOnlyInDrop, Init

LEMMA DieStep == DieInv /\ [Next]_vars => DieInv'
<1> SUFFICES ASSUME DieInv, [Next]_vars PROVE DieInv'
  OBVIOUS
<1>0. Types /\ Types'
  BY TypeStep DEF DieInv
<1> SUFFICES ASSUME ~closer'
             PROVE  ~crashed' /\ toClose' = {} /\ \A q \in Readers : HttpAlone(q)'
  BY <1>0 DEF DieInv, DiesOnlyInDrop
<1>a. ~closer
  BY DEF closer, Next, Open, Read, EndRequest, PieceArrives, Request, Register, GetChannel, FileClosed,
         SetRemoved, CloseTest, CloseDelete, Alerts, ListenAlerts, OtherAlert, DropStart, Drop,
         DropLoopEnds, SessionRemoves, torrent, vars
<1>b. ~crashed /\ toClose = {} /\ drop = "no" /\ \A q \in Readers : HttpAlone(q)
  BY <1>a DEF DieInv, DiesOnlyInDrop, closer
<1> USE <1>0, <1>a, <1>b DEF HttpAlone, Types, Setters
<1> DEFINE Goal == ~crashed' /\ toClose' = {} /\ \A q \in Readers : HttpAlone(q)'
<1>1. ASSUME NEW r \in Readers, Open(r) \/ Read(r) \/ EndRequest(r) \/ CloseTest(r) PROVE Goal
  BY <1>1 DEF Open, Read, EndRequest, CloseTest, To, removed, torrent
<1>2. ASSUME NEW r \in Readers, Register(r) PROVE Goal
  BY <1>2 DEF Register, WriteReaders, To, SubTo, removed
<1>3. ASSUME NEW r \in Readers, GetChannel(r) PROVE Goal
  BY <1>3 DEF GetChannel, To, torrent
<1>4. ASSUME NEW r \in Readers, PieceArrives(r) \/ FileClosed(r) \/ CloseDelete(r) PROVE Goal
  <2>1. UNCHANGED <<sub, removed>>
    BY <1>4 DEF PieceArrives, FileClosed, CloseDelete
  <2>2. ~crashed'
    BY <1>4 DEF PieceArrives, FileClosed, CloseDelete, WriteReaders
  <2>3. toClose' = {}
    BY <1>4 DEF PieceArrives, FileClosed, CloseDelete, torrent
  <2> QED
    BY <2>1, <2>2, <2>3 DEF removed
<1>5. ASSUME NEW r \in Readers, NEW s \in Setters, SetRemoved(r, s) PROVE Goal
  <2>1. s = "http"
    BY <1>5 DEF SetRemoved, MaySet
  <2>2. E!SetStep(r, "http") /\ crashed' = E!ClosesTwice(r, "http") /\ UNCHANGED <<toClose, sub>>
    BY <1>5, <2>1 DEF SetRemoved, torrent
  <2>3. ~crashed'
    <3>1. setter[r]["http"] # "close" \/ shut[r] = {}
      BY DEF Steps
    <3> QED
      BY <2>2, <3>1 DEF E!ClosesTwice
  <2>4. setter'[r]["http"] # "end" => shut'[r] = {}
    <3>1. CASE E!SetTest(r, "http") \/ E!SetLock(r, "http")
      BY <3>1 DEF E!SetTest, E!SetLock, E!SetterTo, Steps
    <3>2. CASE E!SetClose(r, "http")
      BY <3>2 DEF E!SetClose, E!SetterTo, Steps
    <3> QED
      BY <2>2, <3>1, <3>2 DEF E!SetStep
  <2>5. ASSUME NEW q \in Readers PROVE HttpAlone(q)'
    BY <2>2, <2>4, <2>5, SetTypes
  <2> QED
    BY <2>2, <2>3, <2>5
<1>6. ASSUME NEW r \in Readers, ListenAlerts(r) \/ OtherAlert(r) PROVE Goal
  BY <1>6 DEF ListenAlerts, OtherAlert, SubTo, removed, torrent
<1>7. CASE DropStart \/ DropLoopEnds \/ SessionRemoves
  BY <1>7 DEF DropStart, DropLoopEnds, SessionRemoves, closer
<1>8. CASE UNCHANGED vars
  BY <1>8 DEF vars, removed, torrent
<1> QED
  BY <1>1, <1>2, <1>3, <1>4, <1>5, <1>6, <1>7, <1>8 DEF Next, Request, Alerts, Drop, Setters

\* No reader, and no end of a request, takes the process down before Drop has
\* begun (torrent.go, Drop; event.go, Set), for any number of readers.
THEOREM NoDeathBeforeDrop == Spec => []DiesOnlyInDrop
<1>1. DieInv => DiesOnlyInDrop
  BY DEF DieInv
<1> QED
  BY InitDie, DieStep, <1>1, PTL DEF Spec
=============================================================================
