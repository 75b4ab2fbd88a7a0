--------------------------- MODULE ProcessProofs ---------------------------
(***************************************************************************)
(* Theorems of Process, for any number of instances, commits and inodes.   *)
(***************************************************************************)
EXTENDS Process, TLAPS

----------------------------------------------------------------------------
(* One instance *)

Steps == Alive \cup {"new", "dead"}

SingleTypes ==
    /\ pc \in [Procs -> Steps]
    /\ victim \in [Procs -> Procs \cup {None}]

\* At most one process is in ensureSingleInstance.
OneStarts == \A p, q \in Procs : pc[p] \in Locking /\ pc[q] \in Locking => p = q

\* Who has passed it is the owner of the lock file.
OwnerRuns == \A p \in Procs : pc[p] \in Alive \ Locking => lockfile = p

\* Who takes or removes the lock file has seen nobody run.
NobodyRuns == \A p, q \in Procs : pc[p] \in {"trunc", "write", "unlink"} => pc[q] \notin Alive \ Locking

\* Who is about to kill has seen the one that runs.
VictimRuns == \A p, q \in Procs : pc[p] = "kill" /\ pc[q] \in Alive \ Locking => victim[p] = q

\* The file that is being written is still the lock file.
Writing == \A p \in Procs : pc[p] = "write" => p \in lockFd

SingleInv ==
    /\ SingleTypes
    /\ together \/ (OneStarts /\ OwnerRuns /\ NobodyRuns /\ VictimRuns /\ Writing)

LEMMA SingleInit == Init => SingleInv
  BY DEF Init, SingleInv, SingleTypes, Steps, OneStarts, OwnerRuns, NobodyRuns, VictimRuns, Writing,
         Alive, Locking, Running, Compressing, Restoring

LEMMA SingleStep == SingleInv /\ [Next]_vars => SingleInv'
<1> SUFFICES ASSUME SingleInv, [Next]_vars PROVE SingleInv'
  OBVIOUS
<1> USE NamesAssumption DEF SingleInv, SingleTypes, Steps, OneStarts, OwnerRuns, NobodyRuns, VictimRuns, Writing,
            Alive, Locking, Running, Compressing, Restoring, Goto, Die, Release,
            lockVars, diskVars, openVars, history
<1>1. ASSUME NEW p \in Procs, Start(p) PROVE SingleInv'
  BY <1>1 DEF Start
<1>2. ASSUME NEW p \in Procs, ReadLock(p) PROVE SingleInv'
  BY <1>2 DEF ReadLock
<1>3. ASSUME NEW p \in Procs, TruncateLock(p) PROVE SingleInv'
  BY <1>3 DEF TruncateLock
<1>4. ASSUME NEW p \in Procs, WriteLock(p) PROVE SingleInv'
  BY <1>4 DEF WriteLock
<1>5. ASSUME NEW p \in Procs, Kill(p) PROVE SingleInv'
  BY <1>5 DEF Kill
<1>6. ASSUME NEW p \in Procs, Unlink(p) PROVE SingleInv'
  BY <1>6 DEF Unlink
\* A step of a process that is past ensureSingleInstance leaves it there or ends it.
<1>7. ASSUME NEW p \in Procs, pc[p] \in Alive \ Locking,
             pc' = [pc EXCEPT ![p] = pc'[p]], pc'[p] \in (Alive \ Locking) \cup {"dead"},
             UNCHANGED <<victim, lockVars, together>>
      PROVE SingleInv'
  BY <1>7
<1>8. ASSUME NEW p \in Procs, Open(p) \/ Flock(p) \/ FlockTimeout(p) PROVE SingleInv'
  BY <1>8, <1>7 DEF Open, Flock, FlockTimeout
<1>9. ASSUME NEW p \in Procs, RestoreRemove(p) \/ RestoreCreate(p) \/ RestoreCopy(p)
      PROVE SingleInv'
  BY <1>9, <1>7 DEF RestoreRemove, RestoreCreate, RestoreCopy
<1>10. ASSUME NEW p \in Procs,
              \/ CompressClose(p) \/ CompressSweep(p) \/ CompressOpen(p) \/ CompressCopy(p)
              \/ CompressRemove(p) \/ CompressRename(p)
       PROVE SingleInv'
  BY <1>10, <1>7 DEF CompressClose, CompressSweep, CompressOpen, CompressCopy, CompressRemove,
                     CompressRename
<1>11. ASSUME NEW p \in Procs, Shutdown(p) PROVE SingleInv'
  BY <1>11, <1>7 DEF Shutdown
<1>12. ASSUME NEW p \in Procs, ListenFails(p) PROVE SingleInv'
  BY <1>12 DEF ListenFails
<1>13. ASSUME NEW p \in Procs, Crash(p) PROVE SingleInv'
  BY <1>13 DEF Crash
<1>14. CASE PowerLoss
  BY <1>14 DEF PowerLoss
<1>15. ASSUME UNCHANGED <<pc, victim, lockVars, together>> PROVE SingleInv'
  BY <1>15
<1>16. ASSUME NEW p \in Procs, BackupBegin(p) \/ BackupEnd(p) \/ \E w \in Writes : Commit(p, w)
       PROVE SingleInv'
  BY <1>16, <1>15 DEF BackupBegin, BackupEnd, Commit
<1>17. CASE Age \/ UNCHANGED vars
  BY <1>17, <1>15 DEF Age, vars
<1> QED
  BY <1>1, <1>2, <1>3, <1>4, <1>5, <1>6, <1>8, <1>9, <1>10, <1>11, <1>12, <1>13, <1>14,
     <1>16, <1>17 DEF Next

\* The instance that has passed ensureSingleInstance is the only one and the owner of the
\* lock file, unless two of them were in ensureSingleInstance at the same time.
THEOREM OnlyInstance == Spec => []SingleInstance
<1>1. SingleInv => SingleInstance
  BY DEF SingleInv, SingleInstance, SingleTypes, OwnerRuns, Steps, Alive, Locking
<1> QED
  BY <1>1, SingleInit, SingleStep, PTL DEF Spec

----------------------------------------------------------------------------
(* One writer *)

WriterTypes == DOMAIN pc = Procs /\ DOMAIN held = Procs /\ DOMAIN link = Files

\* Who restores the backup has no database open.
RestorerIdle == \A p \in Procs : pc[p] \in Restoring => held[p] = None

\* An open database is the file that has the database's name.
OpenIsMain == \A p \in Procs : held[p] # None => held[p] = link["main"]

\* While a Compress reads the database or exchanges the files nobody has one open.
NoneOpen == \A p, q \in Procs : pc[p] \in {"copy", "remove", "rename"} => held[q] = None

WriterInv ==
    /\ WriterTypes /\ RestorerIdle
    /\ stolen \/ (OneWriter /\ OpenIsMain /\ NoneOpen)

LEMMA WriterInit == Init => WriterInv
  BY DEF Init, WriterInv, WriterTypes, RestorerIdle, OneWriter, OpenIsMain, NoneOpen, Restoring, Files

LEMMA WriterStep == WriterInv /\ [Next]_vars => WriterInv'
<1> SUFFICES ASSUME WriterInv, [Next]_vars PROVE WriterInv'
  OBVIOUS
<1> USE NamesAssumption DEF WriterInv, WriterTypes, RestorerIdle, OneWriter, OpenIsMain, NoneOpen, Restoring, Files,
            Goto, lockVars, diskVars, openVars, history
\* A step that opens nothing, leaves the database's name where it is and does not begin
\* the exchange of the files.
<1>1. ASSUME DOMAIN pc' = Procs, DOMAIN held' = Procs, DOMAIN link' = Files,
             \A q \in Procs : held'[q] \in {held[q], None},
             \A q \in Procs : pc'[q] \in {"copy", "remove", "rename"}
                                => pc[q] \in {"copy", "remove", "rename"},
             \A q \in Procs : pc'[q] \in Restoring => pc[q] \in Restoring,
             link'["main"] = link["main"], stolen' = stolen
      PROVE WriterInv'
  BY <1>1
<1>2. ASSUME NEW p \in Procs, Start(p) \/ ReadLock(p) \/ TruncateLock(p) \/ WriteLock(p) \/ Unlink(p)
      PROVE WriterInv'
  BY <1>2, <1>1 DEF Start, ReadLock, TruncateLock, WriteLock, Unlink, Die, Release
<1>3. ASSUME NEW P, pc' = [p \in Procs |-> IF p \in P THEN "dead" ELSE pc[p]], Release(P),
             UNCHANGED <<link, stolen>>
      PROVE WriterInv'
  BY <1>3, <1>1 DEF Release
<1>4. ASSUME NEW p \in Procs, Kill(p) PROVE WriterInv'
  <2>1. CASE pc[victim[p]] \in Alive
    BY <1>4, <2>1, <1>1 DEF Kill, Release
  <2>2. CASE pc[victim[p]] \notin Alive
    BY <1>4, <2>2, <1>3 DEF Kill, Die
  <2> QED
    BY <2>1, <2>2
<1>5. ASSUME NEW p \in Procs, Shutdown(p) \/ ListenFails(p) \/ Crash(p) PROVE WriterInv'
  BY <1>5, <1>3 DEF Shutdown, ListenFails, Crash, Die
<1>6. CASE PowerLoss
  BY <1>6, <1>3 DEF PowerLoss, Die
\* The database's name gets a new file only where it had none, so that nobody has one open.
<1>7. ASSUME NEW p \in Procs, Open(p) PROVE WriterInv'
  BY <1>7 DEF Open
\* The flock excludes those that have the database open.
<1>8. ASSUME NEW p \in Procs, Flock(p) PROVE WriterInv'
  <2>1. CASE stolen'
    BY <1>8, <2>1 DEF Flock
  <2>2. CASE ~stolen'
    <3>1. ~stolen /\ want[p] = link["main"] /\ \A q \in Procs \ {p} : pc[q] \notin Compressing
      BY <1>8, <2>2 DEF Flock
    <3>2. \A q \in Procs \ {p} : held[q] = None
      BY <1>8, <3>1 DEF Flock, Locked
    <3> QED
      BY <1>8, <3>1, <3>2 DEF Flock, Compressing
  <2> QED
    BY <2>1, <2>2
<1>9. ASSUME NEW p \in Procs, FlockTimeout(p) PROVE WriterInv'
  BY <1>9, <1>1 DEF FlockTimeout
<1>10. ASSUME NEW p \in Procs, RestoreRemove(p) PROVE WriterInv'
  <2>1. CASE stolen'
    BY <1>10, <2>1 DEF RestoreRemove
  <2>2. CASE ~stolen'
    <3>1. \A q \in Procs : held[q] = None
      BY <1>10, <2>2 DEF RestoreRemove, Locked
    <3> QED
      BY <1>10, <2>2, <3>1 DEF RestoreRemove
  <2> QED
    BY <2>1, <2>2
<1>11. ASSUME NEW p \in Procs, RestoreCreate(p) PROVE WriterInv'
  BY <1>11 DEF RestoreCreate
<1>12. ASSUME NEW p \in Procs, RestoreCopy(p) PROVE WriterInv'
  BY <1>12, <1>1 DEF RestoreCopy
<1>13. ASSUME NEW p \in Procs, BackupBegin(p) \/ BackupEnd(p) \/ \E w \in Writes : Commit(p, w)
       PROVE WriterInv'
  BY <1>13, <1>1 DEF BackupBegin, BackupEnd, Commit
<1>14. ASSUME NEW p \in Procs, CompressClose(p) \/ CompressSweep(p) PROVE WriterInv'
  BY <1>14, <1>1 DEF CompressClose, CompressSweep
\* The read-only flock of the source waits for those that have it open.
<1>15. ASSUME NEW p \in Procs, CompressOpen(p) PROVE WriterInv'
  BY <1>15 DEF CompressOpen
<1>16. ASSUME NEW p \in Procs, CompressCopy(p) PROVE WriterInv'
  BY <1>16 DEF CompressCopy
<1>17. ASSUME NEW p \in Procs, CompressRemove(p) PROVE WriterInv'
  BY <1>17 DEF CompressRemove
<1>18. ASSUME NEW p \in Procs, CompressRename(p) PROVE WriterInv'
  BY <1>18 DEF CompressRename
<1>19. CASE Age \/ UNCHANGED vars
  BY <1>19, <1>1 DEF Age, vars
<1> QED
  BY <1>2, <1>4, <1>5, <1>6, <1>7, <1>8, <1>9, <1>10, <1>11, <1>12, <1>13, <1>14, <1>15, <1>16,
     <1>17, <1>18, <1>19 DEF Next

\* Two instances have the database open at once only if one of them took a flock that another
\* one had given up, or of a file that was being replaced.
THEOREM OneOpensDatabase == Spec => []OneWriter
<1>1. WriterInv => OneWriter
  BY DEF WriterInv, OneWriter
<1> QED
  BY <1>1, WriterInit, WriterStep, PTL DEF Spec

----------------------------------------------------------------------------
(* What was acknowledged *)

Past == Alive \ Locking

FileTypes ==
    /\ DOMAIN pc = Procs /\ DOMAIN want = Procs /\ DOMAIN held = Procs
    /\ DOMAIN src = Procs /\ DOMAIN snap = Procs
    /\ DOMAIN link = Files /\ DOMAIN data = Inodes

\* The three names are of different files, and nothing that a power loss did not tear is torn,
\* apart from the backup.
Names ==
    /\ \A f \in Files : link[f] \in Inodes \cup {None}
    /\ \A f, g \in Files : link[f] = link[g] /\ link[f] # None => f = g
    /\ Torn \notin Content("main") /\ Torn \notin Content("compress")

\* Nobody has to restore the database, or goes on without it.
NoRestore == \A p \in Procs : pc[p] \notin Restoring \cup {"broken"}

\* Whatever file an instance has open is the database.
OpenFiles == \A p \in Procs :
    /\ pc[p] \notin Past => want[p] = None /\ held[p] = None /\ src[p] = None /\ snap[p] = None
    /\ want[p] # None => pc[p] \in {"flock", "reflock"} /\ want[p] = link["main"]
    /\ pc[p] \in {"flock", "reflock"} => want[p] # None
    /\ held[p] # None => pc[p] = "run" /\ held[p] = link["main"]
    /\ pc[p] = "source" => link["compress"] = None
    /\ src[p] # None => pc[p] = "copy"
    /\ pc[p] = "copy" => src[p] # None /\ src[p] = link["main"] /\ link["compress"] # None
    /\ snap[p] # None => pc[p] = "run" /\ held[p] # None /\ link["backup"] # None

FilesInv ==
    /\ FileTypes
    /\ power \/ together \/ (Names /\ NoRestore /\ OpenFiles)

\* Where the acknowledged commits are: in the database; while the names are exchanged, in the
\* copy; after an exchange that did not end, in the two of them together.
Kept ==
    /\ acked \subseteq Content("main") \cup Content("compress")
    /\ ~gap /\ (\A p \in Procs : pc[p] # "rename") => acked \subseteq Content("main")
    /\ \A p \in Procs : pc[p] \in {"source", "copy"} => Content("compress") = {}
    /\ \A p \in Procs : pc[p] \in {"remove", "rename"} => acked \subseteq Content("compress")

KeptInv == (swept => gap) /\ (power \/ together \/ swept \/ Kept)

\* Two instances are not past ensureSingleInstance.
LEMMA Alone ==
    ASSUME SingleInv, ~together, NEW p \in Procs, NEW q \in Procs, pc[p] \in Past, pc[q] \in Past
    PROVE  p = q
  BY DEF SingleInv, SingleTypes, OwnerRuns, Past

\* The inode that is taken for a new file is no other file's, when one of the names is free:
\* the instances have the database open and nothing else.
LEMMA FreshInode ==
    ASSUME FilesInv, ~power, ~together, NEW f \in Files, NEW g \in Files,
           \A h \in Files : link[h] \in {link[f], link[g], None}
    PROVE  /\ Fresh \in Inodes /\ Fresh # None
           /\ \A h \in Files : link[h] # Fresh
<1>1. link[f] \in Inodes \cup {None} /\ link[g] \in Inodes \cup {None}
  BY DEF FilesInv, Names
<1>2. PICK k \in Inodes : k # link[f] /\ k # link[g]
  BY <1>1, InodesAssumption
<1>3. k # None
  BY <1>2, NamesAssumption
<1>4. \A p \in Procs : /\ want[p] \in {link["main"], None}
                       /\ held[p] \in {link["main"], None}
                       /\ src[p] \in {link["main"], None}
  BY DEF FilesInv, OpenFiles
<1>5. /\ \A h \in Files : link[h] # k
      /\ \A p \in Procs : k \notin {want[p], held[p], src[p]}
  BY <1>2, <1>3, <1>4 DEF Files
<1>6. Fresh \in Inodes /\ \A h \in Files : link[h] # Fresh
  BY <1>5 DEF Fresh
<1> QED
  BY <1>6, NamesAssumption

LEMMA FilesInit == Init => FilesInv
  BY DEF Init, FilesInv, FileTypes, Names, NoRestore, OpenFiles, Content, Files, Past, Alive, Locking,
         Running, Compressing, Restoring

\* What every step leaves of the types.
LEMMA FileTypesStep == FileTypes /\ [Next]_vars => FileTypes'
  BY DEF FileTypes, Next, vars, Start, ReadLock, TruncateLock, WriteLock, Kill, Unlink, Open, Flock,
         FlockTimeout, RestoreRemove, RestoreCreate, RestoreCopy, BackupBegin, BackupEnd, CompressClose,
         CompressSweep, CompressOpen, CompressCopy, CompressRemove, CompressRename, Shutdown,
         ListenFails, Crash, Commit, Age, PowerLoss, Goto, Die, Release, lockVars, diskVars, openVars,
         history

\* A step that leaves the files alone, and every instance either where it is, outside, or ended
\* with what it had open closed.
LEMMA FilesQuiet ==
    ASSUME FilesInv, FileTypes', power => power', together => together', UNCHANGED <<link, data>>,
           \A q \in Procs :
              \/ /\ pc'[q] = pc[q] /\ want'[q] = want[q] /\ held'[q] = held[q]
                 /\ src'[q] = src[q] /\ snap'[q] = snap[q]
              \/ /\ pc'[q] \notin Past
                 /\ want'[q] \in {want[q], None} /\ held'[q] \in {held[q], None}
                 /\ src'[q] \in {src[q], None} /\ snap'[q] \in {snap[q], None}
                 /\ \/ pc[q] \notin Past
                    \/ want'[q] = None /\ held'[q] = None /\ src'[q] = None /\ snap'[q] = None
    PROVE  FilesInv'
<1>1. CASE power' \/ together'
  BY <1>1 DEF FilesInv
<1>2. CASE ~power' /\ ~together'
  <2>1. Names /\ NoRestore /\ OpenFiles
    BY <1>2 DEF FilesInv
  <2>2. Names'
    BY <2>1 DEF Names, Content
  <2>3. NoRestore'
    BY <2>1 DEF NoRestore, Past, Alive, Locking, Restoring, Running
  <2>4. OpenFiles'
    BY <2>1 DEF OpenFiles, Past, Alive, Locking, Running, Compressing
  <2> QED
    BY <2>2, <2>3, <2>4 DEF FilesInv
<1> QED
  BY <1>1, <1>2

LEMMA FilesStep == SingleInv /\ FilesInv /\ [Next]_vars => FilesInv'
<1> SUFFICES ASSUME SingleInv, FilesInv, [Next]_vars PROVE FilesInv'
  OBVIOUS
<1> USE DEF Goto, lockVars, diskVars, openVars, history
<1>t. FileTypes /\ FileTypes'
  BY FileTypesStep DEF FilesInv
<1>1. ASSUME NEW p \in Procs, Start(p) \/ ReadLock(p) \/ TruncateLock(p) \/ Unlink(p) PROVE FilesInv'
  <2>1. pc[p] \notin Past /\ UNCHANGED <<link, data, want, held, src, snap, power>>
    BY <1>1 DEF Start, ReadLock, TruncateLock, Unlink, Past, Alive, Locking, Running, Compressing, Restoring
  <2>3. together => together'
    BY <1>1, Zenon DEF Start, ReadLock, TruncateLock, Unlink
  <2>2. pc'[p] \notin Past /\ \A q \in Procs \ {p} : pc'[q] = pc[q]
    BY <1>1, <1>t DEF FileTypes, Start, ReadLock, TruncateLock, Unlink, Past, Alive, Locking, Running,
       Compressing, Restoring
  <2> QED
    BY <2>1, <2>2, <2>3, <1>t, FilesQuiet
<1>2. ASSUME NEW P, pc' = [p \in Procs |-> IF p \in P THEN "dead" ELSE pc[p]], Release(P),
             UNCHANGED <<link, data, power, together>>
      PROVE FilesInv'
  BY <1>2, <1>t, FilesQuiet DEF Release, Past, Alive, Locking, Running, Compressing, Restoring
<1>3. ASSUME NEW p \in Procs, Kill(p) PROVE FilesInv'
  <2>1. CASE pc[victim[p]] \in Alive
    BY <1>3, <2>1, <1>t, FilesQuiet DEF Kill, Release, FileTypes, Past, Alive, Locking, Running,
       Compressing, Restoring
  <2>2. CASE pc[victim[p]] \notin Alive
    BY <1>3, <2>2, <1>2 DEF Kill, Die
  <2> QED
    BY <2>1, <2>2
<1>4. ASSUME NEW p \in Procs, Shutdown(p) \/ ListenFails(p) \/ Crash(p) PROVE FilesInv'
  BY <1>4, <1>2 DEF Shutdown, ListenFails, Crash, Die
<1>5. CASE PowerLoss
  BY <1>5, <1>t DEF PowerLoss, FilesInv
<1>6. CASE Age \/ UNCHANGED vars
  BY <1>6, <1>t, FilesQuiet DEF Age, vars
\* The other steps are of an instance that is, or gets, past ensureSingleInstance.
<1> DEFINE Safe == /\ Names /\ NoRestore /\ OpenFiles /\ ~power /\ ~together
<1>7. ASSUME NEW p \in Procs, WriteLock(p) PROVE FilesInv'
  <2>1. CASE power \/ together
    BY <1>7, <2>1, <1>t DEF WriteLock, FilesInv
  <2>2. CASE ~power /\ ~together
    <3>1. Safe
      BY <2>2 DEF FilesInv
    <3>2. Names'
      BY <1>7, <3>1 DEF WriteLock, Names, Content
    <3>3. NoRestore'
      BY <1>7, <3>1, <1>t DEF WriteLock, NoRestore, FileTypes, Restoring
    <3>4. OpenFiles'
      BY <1>7, <3>1, <1>t DEF WriteLock, OpenFiles, FileTypes, Past, Alive, Locking, Running, Compressing
    <3> QED
      BY <3>2, <3>3, <3>4, <1>t DEF FilesInv
  <2> QED
    BY <2>1, <2>2
<1>8. ASSUME NEW p \in Procs,
             \/ Open(p) \/ Flock(p) \/ FlockTimeout(p) \/ RestoreRemove(p) \/ RestoreCreate(p)
             \/ RestoreCopy(p) \/ BackupBegin(p) \/ BackupEnd(p) \/ CompressClose(p)
             \/ CompressSweep(p) \/ CompressOpen(p) \/ CompressCopy(p) \/ CompressRemove(p)
             \/ CompressRename(p) \/ \E w \in Writes : Commit(p, w)
      PROVE FilesInv'
  <2>p. UNCHANGED <<power, together>>
    BY <1>8 DEF Open, Flock, FlockTimeout, RestoreRemove, RestoreCreate, RestoreCopy, BackupBegin,
       BackupEnd, CompressClose, CompressSweep, CompressOpen, CompressCopy, CompressRemove,
       CompressRename, Commit
  <2>1. CASE power \/ together
    BY <2>p, <2>1, <1>t DEF FilesInv
  <2>2. CASE ~power /\ ~together
    <3>1. Safe
      BY <2>2 DEF FilesInv
    \* The others have nothing open.
    <3>2. pc[p] \in Past
      BY <1>8, <3>1 DEF Open, Flock, FlockTimeout, RestoreRemove, RestoreCreate, RestoreCopy,
         BackupBegin, BackupEnd, CompressClose, CompressSweep, CompressOpen, CompressCopy,
         CompressRemove, CompressRename, Commit, OpenFiles, Past, Alive, Locking, Running,
         Compressing, Restoring
    <3>3. \A q \in Procs \ {p} : /\ pc[q] \notin Past
                                 /\ want[q] = None /\ held[q] = None
                                 /\ src[q] = None /\ snap[q] = None
      BY <3>1, <3>2, Alone DEF OpenFiles
    <3>o. /\ \A g \in Files : link[g] \in Inodes \cup {None}
          /\ OpenFiles /\ pc[p] \notin Restoring \cup {"broken"}
          /\ Files = {"main", "backup", "compress"}
      BY <3>1 DEF Names, NoRestore, Files
    <3> SUFFICES Names' /\ NoRestore' /\ OpenFiles'
      BY <1>t DEF FilesInv
    <3>r. ASSUME \A q \in Procs \ {p} : pc'[q] = pc[q], pc'[p] \notin Restoring \cup {"broken"}
          PROVE NoRestore'
      BY <3>r, <3>1 DEF NoRestore
    <3>4. CASE Open(p)
      <4>1. CASE link["main"] = None
        <5>1. Fresh \in Inodes /\ Fresh # None /\ \A h \in Files : link[h] # Fresh
          <6> \A h \in Files : link[h] \in {link["backup"], link["compress"], None}
            BY <4>1, <3>o
          <6> QED
            BY <2>2, <3>o, FreshInode
        <5>2. PICK i \in Inodes : i = Fresh /\ i # None /\ \A h \in Files : link[h] # i
          BY <5>1
        <5>3. /\ link' = [link EXCEPT !["main"] = i] /\ data' = [data EXCEPT ![i] = {}]
              /\ want' = [want EXCEPT ![p] = i] /\ UNCHANGED <<held, src, snap>>
          BY <3>4, <4>1, <5>2 DEF Open
        <5>4. Names'
          BY <3>1, <3>o, <5>2, <5>3, <1>t DEF Names, Content, FileTypes
        <5>5. OpenFiles'
          BY <3>4, <3>o, <3>3, <4>1, <5>2, <5>3, <1>t DEF Open, OpenFiles, FileTypes, Past, Alive,
             Locking, Running, Compressing
        <5> QED
          BY <5>4, <5>5, <3>r, <3>4, <1>t DEF Open, FileTypes, Restoring
      <4>2. CASE link["main"] # None
        <5>1. Names'
          BY <3>1, <3>4, <4>2 DEF Names, Content, Open
        <5>2. OpenFiles'
          BY <3>4, <3>o, <3>3, <4>2, <1>t DEF Open, OpenFiles, FileTypes, Past, Alive,
             Locking, Running, Compressing
        <5> QED
          BY <5>1, <5>2, <3>r, <3>4, <1>t DEF Open, FileTypes, Restoring
      <4> QED
        BY <4>1, <4>2
    <3>5. CASE Flock(p)
      <4>1. data[want[p]] # {Torn} /\ want[p] = link["main"] /\ want[p] # None
        BY <3>5, <3>1, <3>o DEF Flock, Names, Content, OpenFiles
      <4>2. /\ held' = [held EXCEPT ![p] = want[p]] /\ want' = [want EXCEPT ![p] = None]
            /\ Goto(p, "run") /\ UNCHANGED <<link, data, src, snap>>
        BY <3>5, <4>1 DEF Flock
      <4>3. Names'
        BY <4>2, <3>1 DEF Names, Content
      <4>4. OpenFiles'
        BY <3>5, <4>1, <4>2, <3>o, <3>3, <1>t DEF Flock, OpenFiles, FileTypes, Past, Alive, Locking, Running,
           Compressing
      <4> QED
        BY <4>2, <4>3, <4>4, <3>r, <1>t DEF FileTypes, Restoring
    <3>6. CASE FlockTimeout(p)
      BY <3>6, <3>3, <3>o DEF FlockTimeout, Locked, OpenFiles
    <3>7. CASE RestoreRemove(p) \/ RestoreCreate(p) \/ RestoreCopy(p)
      BY <3>7, <3>o DEF RestoreRemove, RestoreCreate, RestoreCopy, Restoring
    <3>8. CASE BackupBegin(p)
      <4>1. PICK b \in Inodes : /\ b = (IF link["backup"] = None THEN Fresh ELSE link["backup"])
                                /\ b # None /\ b # link["main"] /\ b # link["compress"]
        <5>1. CASE link["backup"] = None
          <6>1. \A h \in Files : link[h] \in {link["main"], link["compress"], None}
            BY <5>1, <3>o
          <6> QED
            BY <5>1, <6>1, <2>2, <3>o, FreshInode
        <5>2. CASE link["backup"] # None
          BY <5>2, <3>o, <3>1, NamesAssumption DEF Names
        <5> QED
          BY <5>1, <5>2
      <4>2. /\ link' = [link EXCEPT !["backup"] = b] /\ data' = [data EXCEPT ![b] = {Torn}]
            /\ snap' = [snap EXCEPT ![p] = data[held[p]]] /\ UNCHANGED <<pc, want, held, src>>
        BY <3>8, <4>1 DEF BackupBegin
      <4>3. Names'
        BY <4>1, <4>2, <3>1, <3>o, <1>t DEF Names, Content, FileTypes
      <4>4. OpenFiles'
        BY <3>8, <4>1, <4>2, <3>o, <3>3, <1>t DEF BackupBegin, OpenFiles, FileTypes
      <4> QED
        BY <4>2, <4>3, <4>4, <3>o, <3>r
    <3>9. CASE BackupEnd(p)
      <4>1. link["backup"] # None /\ link["backup"] # link["main"] /\ link["backup"] # link["compress"]
        BY <3>9, <3>o, <3>1 DEF BackupEnd, OpenFiles, Names
      <4>2. Names'
        BY <3>9, <4>1, <3>1, <3>o, <1>t DEF BackupEnd, Names, Content, FileTypes
      <4>3. OpenFiles'
        BY <3>9, <3>o, <3>3, <1>t DEF BackupEnd, OpenFiles, FileTypes
      <4> QED
        BY <3>9, <4>2, <4>3, <3>o, <3>r DEF BackupEnd
    <3>10. CASE CompressClose(p)
      <4>1. Names'
        BY <3>10, <3>1 DEF CompressClose, Names, Content
      <4>2. OpenFiles'
        BY <3>10, <3>o, <3>3, <1>t DEF CompressClose, OpenFiles, FileTypes, Past, Alive, Locking, Running,
           Compressing
      <4> QED
        BY <3>10, <4>1, <4>2, <3>r, <1>t DEF CompressClose, FileTypes, Restoring
    <3>11. CASE CompressSweep(p)
      <4>1. Names'
        BY <3>11, <3>1, <3>o, <1>t DEF CompressSweep, Names, Content, FileTypes
      <4>2. OpenFiles'
        BY <3>11, <3>o, <3>3, <1>t DEF CompressSweep, OpenFiles, FileTypes, Past, Alive, Locking, Running,
           Compressing
      <4> QED
        BY <3>11, <4>1, <4>2, <3>r, <1>t DEF CompressSweep, FileTypes, Restoring
    <3>12. CASE CompressOpen(p)
      <4>1. \A h \in Files : link[h] \in {link["main"], link["backup"], None}
        BY <3>12, <3>o DEF CompressOpen, OpenFiles
      <4>2. PICK i \in Inodes : i = Fresh /\ i # None /\ \A h \in Files : link[h] # i
        BY <4>1, <2>2, <3>o, FreshInode
      <4>3. /\ link' = [link EXCEPT !["compress"] = i] /\ data' = [data EXCEPT ![i] = {}]
            /\ src' = [src EXCEPT ![p] = link["main"]] /\ UNCHANGED <<want, held, snap>>
        BY <3>12, <4>2 DEF CompressOpen
      <4>4. Names'
        BY <4>2, <4>3, <3>1, <3>o, <1>t DEF Names, Content, FileTypes
      <4>5. OpenFiles'
        BY <3>12, <4>2, <4>3, <3>o, <3>3, <1>t DEF CompressOpen, OpenFiles, FileTypes, Past, Alive, Locking,
           Running, Compressing
      <4> QED
        BY <3>12, <4>4, <4>5, <3>r, <1>t DEF CompressOpen, FileTypes, Restoring
    <3>13. CASE CompressCopy(p)
      <4>1. src[p] = link["main"] /\ link["main"] # None
        BY <3>13, <3>o DEF CompressCopy, OpenFiles
      <4>2. Names'
        BY <3>13, <4>1, <3>1, <3>o, <1>t DEF CompressCopy, Names, Content, FileTypes
      <4>3. OpenFiles'
        BY <3>13, <3>o, <3>3, <1>t DEF CompressCopy, OpenFiles, FileTypes, Past, Alive, Locking, Running,
           Compressing
      <4> QED
        BY <3>13, <4>2, <4>3, <3>r, <1>t DEF CompressCopy, FileTypes, Restoring
    <3>14. CASE CompressRemove(p)
      <4>1. Names'
        BY <3>14, <3>1, <3>o, <1>t DEF CompressRemove, Names, Content, FileTypes
      <4>2. OpenFiles'
        BY <3>14, <3>o, <3>3, <1>t DEF CompressRemove, OpenFiles, FileTypes, Past, Alive, Locking, Running,
           Compressing
      <4> QED
        BY <3>14, <4>1, <4>2, <3>r, <1>t DEF CompressRemove, FileTypes, Restoring
    <3>15. CASE CompressRename(p)
      <4>1. Names'
        BY <3>15, <3>1, <3>o, <1>t DEF CompressRename, Names, Content, FileTypes
      <4>2. OpenFiles'
        BY <3>15, <3>o, <3>3, <1>t DEF CompressRename, OpenFiles, FileTypes, Past, Alive, Locking, Running,
           Compressing
      <4> QED
        BY <3>15, <4>1, <4>2, <3>r, <1>t DEF CompressRename, FileTypes, Restoring
    <3>16. ASSUME NEW w \in Writes, Commit(p, w)
           PROVE  Names' /\ NoRestore' /\ OpenFiles'
      <4>1. Names'
        BY <3>16, <3>1, <3>o, <1>t, NamesAssumption DEF Commit, Names, Content, FileTypes
      <4>2. OpenFiles'
        BY <3>16, <3>o, <3>3, <1>t DEF Commit, OpenFiles, FileTypes
      <4> QED
        BY <3>16, <4>1, <4>2, <3>o, <3>r DEF Commit
    <3> QED
      BY <1>8, <3>4, <3>5, <3>6, <3>7, <3>8, <3>9, <3>10, <3>11, <3>12, <3>13, <3>14, <3>15, <3>16
  <2> QED
    BY <2>1, <2>2
<1> QED
  BY <1>1, <1>3, <1>4, <1>5, <1>6, <1>7, <1>8 DEF Next

LEMMA KeptInit == Init => KeptInv
  BY DEF Init, KeptInv, Kept, Content, Files

\* A step that leaves files and commits alone, in which nobody gets to the steps of CompressBoltDB
\* that exchange the names, and whoever leaves the last of them sets gap.
LEMMA KeptQuiet ==
    ASSUME KeptInv, power => power', together => together', UNCHANGED <<link, data, acked, swept>>,
           gap => gap',
           \A q \in Procs : \/ pc'[q] = pc[q]
                            \/ /\ pc'[q] \notin {"source", "copy", "remove", "rename"}
                               /\ pc[q] = "rename" => gap'
    PROVE  KeptInv'
<1>1. swept' => gap'
  BY DEF KeptInv
<1>2. CASE power' \/ together' \/ swept'
  BY <1>1, <1>2 DEF KeptInv
<1>3. CASE ~power' /\ ~together' /\ ~swept'
  <2>1. Kept
    BY <1>3 DEF KeptInv
  <2>2. Kept'
    BY <2>1 DEF Kept, Content
  <2> QED
    BY <1>1, <2>2 DEF KeptInv
<1> QED
  BY <1>2, <1>3

LEMMA KeptStep == SingleInv /\ FilesInv /\ FilesInv' /\ KeptInv /\ [Next]_vars => KeptInv'
<1> SUFFICES ASSUME SingleInv, FilesInv, FilesInv', KeptInv, [Next]_vars PROVE KeptInv'
  OBVIOUS
<1> USE DEF Goto, lockVars, diskVars, openVars, history
<1>t. FileTypes /\ FileTypes'
  BY DEF FilesInv
<1>1. ASSUME NEW p \in Procs, Start(p) \/ ReadLock(p) \/ TruncateLock(p) \/ WriteLock(p) \/ Unlink(p)
      PROVE KeptInv'
  <2>1. /\ UNCHANGED <<link, data, acked, swept, gap, power>>
        /\ pc[p] # "rename" /\ \A q \in Procs \ {p} : pc'[q] = pc[q]
        /\ pc'[p] \notin {"source", "copy", "remove", "rename"}
    BY <1>1, <1>t DEF Start, ReadLock, TruncateLock, WriteLock, Unlink, FileTypes
  <2>2. together => together'
    BY <1>1, Zenon DEF Start, ReadLock, TruncateLock, WriteLock, Unlink
  <2> QED
    BY <2>1, <2>2, KeptQuiet
<1>2. ASSUME NEW P, pc' = [p \in Procs |-> IF p \in P THEN "dead" ELSE pc[p]], Release(P),
             P \subseteq Procs, UNCHANGED <<link, data, acked, swept, power, together>>
      PROVE KeptInv'
  BY <1>2, KeptQuiet DEF Release
<1>3. ASSUME NEW p \in Procs, Kill(p) PROVE KeptInv'
  <2>1. CASE pc[victim[p]] \in Alive
    <3>1. UNCHANGED <<link, data, acked, swept, power, together>>
      BY <1>3 DEF Kill
    <3>2. (gap => gap') /\ (pc[victim[p]] = "rename" => gap')
      BY <1>3, <2>1 DEF Kill, Release
    <3>3. \A q \in Procs : q # victim[p] /\ q # p => pc'[q] = pc[q]
      BY <1>3, <2>1, <1>t DEF Kill, FileTypes
    <3>4. pc'[p] = "unlink" /\ pc[p] = "kill"
      BY <1>3, <2>1, <1>t DEF Kill, FileTypes
    <3>5. victim[p] \in Procs /\ victim[p] # p => pc'[victim[p]] = "dead"
      BY <1>3, <2>1, <1>t DEF Kill, FileTypes
    <3> QED
      BY <3>1, <3>2, <3>3, <3>4, <3>5, KeptQuiet
  <2>2. CASE pc[victim[p]] \notin Alive
    BY <1>3, <2>2, <1>2 DEF Kill, Die
  <2> QED
    BY <2>1, <2>2
<1>4. ASSUME NEW p \in Procs, Shutdown(p) \/ ListenFails(p) \/ Crash(p) PROVE KeptInv'
  BY <1>4, <1>2 DEF Shutdown, ListenFails, Crash, Die
<1>5. CASE PowerLoss
  BY <1>5, <1>t DEF PowerLoss, KeptInv, Die, Release
<1>6. CASE Age \/ UNCHANGED vars
  BY <1>6, KeptQuiet DEF Age, vars
<1>7. ASSUME NEW p \in Procs,
             \/ Open(p) \/ Flock(p) \/ FlockTimeout(p) \/ RestoreRemove(p) \/ RestoreCreate(p)
             \/ RestoreCopy(p) \/ BackupBegin(p) \/ BackupEnd(p) \/ CompressClose(p)
             \/ CompressSweep(p) \/ CompressOpen(p) \/ CompressCopy(p) \/ CompressRemove(p)
             \/ CompressRename(p) \/ \E w \in Writes : Commit(p, w)
      PROVE KeptInv'
  <2>1. UNCHANGED <<power, together>> /\ (gap => gap')
    BY <1>7 DEF Open, Flock, FlockTimeout, RestoreRemove, RestoreCreate, RestoreCopy, BackupBegin,
       BackupEnd, CompressClose, CompressSweep, CompressOpen, CompressCopy, CompressRemove,
       CompressRename, Commit
  <2>2. (swept => swept') /\ (swept' => gap')
    <3>1. CASE CompressSweep(p)
      BY <3>1, Zenon DEF CompressSweep, KeptInv
    <3>2. CASE UNCHANGED swept
      BY <3>2, <2>1 DEF KeptInv
    <3> QED
      BY <1>7, <3>1, <3>2 DEF Open, Flock, FlockTimeout, RestoreRemove, RestoreCreate, RestoreCopy,
         BackupBegin, BackupEnd, CompressClose, CompressOpen, CompressCopy, CompressRemove,
         CompressRename, Commit
  <2>3. CASE power \/ together \/ swept \/ swept'
    BY <2>1, <2>2, <2>3 DEF KeptInv
  <2>4. CASE ~power /\ ~together /\ ~swept /\ ~swept'
    <3>1. Kept /\ Names /\ NoRestore /\ OpenFiles /\ Names' /\ OpenFiles'
      BY <2>1, <2>4 DEF KeptInv, FilesInv
    <3> SUFFICES Kept'
      BY <2>2 DEF KeptInv
    <3> USE <1>t DEF FileTypes, Files
    <3>2. pc[p] \in Past
      BY <1>7, <3>1 DEF Open, Flock, FlockTimeout, RestoreRemove, RestoreCreate, RestoreCopy,
         BackupBegin, BackupEnd, CompressClose, CompressSweep, CompressOpen, CompressCopy,
         CompressRemove, CompressRename, Commit, OpenFiles, Past, Alive, Locking, Running,
         Compressing, Restoring
    <3>3. \A q \in Procs \ {p} : pc[q] \notin Past /\ pc[q] \notin {"source", "copy", "remove", "rename"}
      BY <3>2, <2>4, Alone DEF Past, Alive, Locking, Running, Compressing
    <3>o. \A g \in Files : link[g] \in Inodes \cup {None}
      BY <3>1 DEF Names
    <3>4. CASE Open(p)
      <4>1. CASE link["main"] = None
        <5>1. Fresh \in Inodes /\ Fresh # None /\ \A h \in Files : link[h] # Fresh
          <6> \A h \in Files : link[h] \in {link["backup"], link["compress"], None}
            BY <4>1
          <6> QED
            BY <2>4, FreshInode
        <5>2. PICK i \in Inodes : i = Fresh /\ i # None /\ \A h \in Files : link[h] # i
          BY <5>1
        <5>3. link' = [link EXCEPT !["main"] = i] /\ data' = [data EXCEPT ![i] = {}]
          BY <3>4, <4>1, <5>2 DEF Open
        <5> QED
          BY <3>4, <3>1, <3>3, <4>1, <5>2, <5>3 DEF Open, Kept, Content
      <4>2. CASE link["main"] # None
        BY <3>4, <4>2, <2>1, KeptQuiet, <3>3, <3>1 DEF Open, Kept, Content
      <4> QED
        BY <4>1, <4>2
    <3>5. CASE Flock(p)
      BY <3>5, <3>1 DEF Flock, Kept, Content
    <3>6. CASE FlockTimeout(p)
      BY <3>6, <3>1 DEF FlockTimeout, Kept, Content
    <3>7. CASE RestoreRemove(p) \/ RestoreCreate(p) \/ RestoreCopy(p)
      BY <3>7, <3>1 DEF RestoreRemove, RestoreCreate, RestoreCopy, NoRestore, Restoring
    <3>8. CASE BackupBegin(p)
      <4>1. PICK b \in Inodes : /\ b = (IF link["backup"] = None THEN Fresh ELSE link["backup"])
                                /\ b # None /\ b # link["main"] /\ b # link["compress"]
        <5>1. CASE link["backup"] = None
          <6>1. \A h \in Files : link[h] \in {link["main"], link["compress"], None}
            BY <5>1
          <6> QED
            BY <5>1, <6>1, <2>4, FreshInode
        <5>2. CASE link["backup"] # None
          BY <5>2, <3>o, <3>1, NamesAssumption DEF Names
        <5> QED
          BY <5>1, <5>2
      <4>2. /\ link' = [link EXCEPT !["backup"] = b] /\ data' = [data EXCEPT ![b] = {Torn}]
            /\ UNCHANGED <<pc, acked, gap>>
        BY <3>8, <4>1 DEF BackupBegin
      <4> QED
        BY <4>1, <4>2, <3>1 DEF Kept, Content
    <3>9. CASE BackupEnd(p)
      <4>1. link["backup"] # None /\ link["backup"] # link["main"] /\ link["backup"] # link["compress"]
        BY <3>9, <3>1 DEF BackupEnd, OpenFiles, Names
      <4> QED
        BY <3>9, <4>1, <3>1 DEF BackupEnd, Kept, Content
    <3>10. CASE CompressClose(p)
      BY <3>10, <3>1 DEF CompressClose, Kept, Content
    \* The old copy goes only where no exchange has ended halfway, or where there is none.
    <3>11. CASE CompressSweep(p)
      <4>1. acked \subseteq Content("main")
        <5>1. gap => link["compress"] = None
          BY <3>11, <2>4 DEF CompressSweep
        <5>2. CASE gap
          BY <5>1, <5>2, <3>1 DEF Kept, Content
        <5>3. CASE ~gap
          BY <5>3, <3>11, <3>1, <3>3 DEF Kept, CompressSweep
        <5> QED
          BY <5>2, <5>3
      <4> QED
        BY <3>11, <4>1, <3>3, <3>1 DEF CompressSweep, Kept, Content
    <3>12. CASE CompressOpen(p)
      <4>1. \A h \in Files : link[h] \in {link["main"], link["backup"], None}
        BY <3>12, <3>1 DEF CompressOpen, OpenFiles
      <4>2. PICK i \in Inodes : i = Fresh /\ i # None /\ \A h \in Files : link[h] # i
        BY <4>1, <2>4, FreshInode
      <4>3. /\ link' = [link EXCEPT !["compress"] = i] /\ data' = [data EXCEPT ![i] = {}]
            /\ UNCHANGED <<acked, gap>>
        BY <3>12, <4>2 DEF CompressOpen
      <4>4. Content("compress")' = {} /\ Content("main")' = Content("main")
        BY <4>2, <4>3, <3>o DEF Content
      <4>5. acked \subseteq Content("main")
        BY <3>12, <3>1 DEF CompressOpen, Kept
      <4> QED
        BY <3>12, <4>3, <4>4, <4>5, <3>3 DEF CompressOpen, Kept
    <3>13. CASE CompressCopy(p)
      <4>1. src[p] = link["main"] /\ link["main"] # None /\ link["main"] # link["compress"]
        BY <3>13, <3>1 DEF CompressCopy, OpenFiles, Names
      <4>2. acked \subseteq Content("main")
        BY <3>13, <3>1 DEF CompressCopy, Kept
      <4> QED
        BY <3>13, <4>1, <4>2, <3>3, <3>1, <3>o DEF CompressCopy, Kept, Content
    <3>14. CASE CompressRemove(p)
      <4>1. acked \subseteq Content("compress") /\ UNCHANGED <<acked, gap, data>>
        BY <3>14, <3>1 DEF CompressRemove, Kept
      <4>2. CASE link' = [link EXCEPT !["main"] = None] /\ Goto(p, "rename")
        BY <4>1, <4>2, <3>3, <3>1 DEF Kept, Content
      <4>3. CASE Goto(p, "run") /\ UNCHANGED link
        BY <4>1, <4>3, <3>14, <3>3, <3>1 DEF CompressRemove, Kept, Content
      <4> QED
        BY <3>14, <4>2, <4>3 DEF CompressRemove
    <3>15. CASE CompressRename(p)
      <4>1. acked \subseteq Content("compress") /\ UNCHANGED <<acked, data>>
        BY <3>15, <3>1 DEF CompressRename, Kept
      <4> QED
        BY <3>15, <4>1, <3>3, <3>1 DEF CompressRename, Kept, Content
    <3>16. ASSUME NEW w \in Writes, Commit(p, w) PROVE Kept'
      <4>1. held[p] = link["main"] /\ link["main"] # None /\ link["main"] # link["compress"]
        BY <3>16, <3>1 DEF Commit, OpenFiles, Names
      <4> QED
        BY <3>16, <4>1, <3>3, <3>1, <3>o DEF Commit, Kept, Content
    <3> QED
      BY <1>7, <3>4, <3>5, <3>6, <3>7, <3>8, <3>9, <3>10, <3>11, <3>12, <3>13, <3>14, <3>15, <3>16
  <2> QED
    BY <2>3, <2>4
<1> QED
  BY <1>1, <1>3, <1>4, <1>5, <1>6, <1>7 DEF Next

\* Without a power loss, and with one instance at a time in ensureSingleInstance, no acknowledged
\* commit is lost whenever a process dies, until a Compress removes the copy that an earlier one
\* had left: the database or its compressed copy has it.
THEOREM CommitsAreKept == Spec => []NothingForgotten
<1>1. KeptInv => NothingForgotten
  BY DEF KeptInv, Kept, NothingForgotten
<1> QED
  BY <1>1, SingleInit, SingleStep, FilesInit, FilesStep, KeptInit, KeptStep, PTL DEF Spec

============================================================================
