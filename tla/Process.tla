------------------------------ MODULE Process ------------------------------
(***************************************************************************)
(* Instances of the daemon that start, replace one another, die and leave  *)
(* the application database on disk: the lock file (lockfile.go and        *)
(* main.go, ensureSingleInstance), the opening of storm.db with its        *)
(* restore from the backup, the backups of MaintenanceRefreshHandler and   *)
(* the steps of CompressBoltDB.  A process can die between any two steps.  *)
(*                                                                         *)
(* A file is a name linked to an inode; an inode that a process has open   *)
(* outlives its name, and bolt's flock is on the inode.  The content of an *)
(* inode is the set of the commits in it, or {Torn}.                       *)
(***************************************************************************)
EXTENDS Naturals, FiniteSets

CONSTANTS Procs,    \* instances, each of which starts once
          Writes,   \* commits to the database
          Inodes,   \* inodes of the file system
          None,     \* no process, no inode, no file
          Torn,     \* what is in a file that was being written
          Empty     \* a lock file that has been truncated for its pid

ASSUME NamesAssumption ==
    /\ None \notin Procs \cup Inodes
    /\ Empty \notin Procs \cup {None}
    /\ Torn \notin Writes

\* The file system has an inode to create a file with.
ASSUME InodesAssumption ==
    \A i, j \in Inodes \cup {None} : \E k \in Inodes : k \notin {i, j}

Files == {"main", "backup", "compress"}

VARIABLES
    pc,        \* pc[p]: the step of process p
    try,       \* try[p]: which Lock of ensureSingleInstance p is in
    victim,    \* victim[p]: the process p is about to kill
    lockfile,  \* None, Empty or the process whose pid the file holds
    lockFd,    \* the processes that write the present lock file
    link,      \* link[f]: the inode named f
    data,      \* data[i]: the content of inode i
    want,      \* want[p]: the inode p has opened and waits to flock, or restores
    held,      \* held[p]: the inode of p's open database
    src,       \* src[p]: the inode p reads in CompressBoltDB
    snap,      \* snap[p]: what a backup of p is copying
    young,     \* the backup was written less than backupPeriod ago
    acked,     \* the commits that were acknowledged
    gap,       \* history: a process ended between Remove and Rename
    swept,     \* history: the compressed copy was removed after that
    power,     \* history: the machine lost power
    together,  \* history: two processes were starting at the same time
    stolen     \* history: a process took the flock of a database that another
               \* one compresses, or of a file that is no longer the database,
               \* or restored the backup over a database that another one has open

lockVars == <<lockfile, lockFd>>
diskVars == <<link, data>>
openVars == <<want, held, src>>
history  == <<gap, swept, power, together, stolen>>
vars == <<pc, try, victim, lockVars, diskVars, openVars, snap, young, acked, history>>

Locking  == {"lock", "trunc", "write", "kill", "unlink"}
Compressing == {"sweep", "source", "copy", "remove", "rename", "reopen", "reflock"}
Restoring == {"wipe", "create", "refill"}
Running  == {"run", "broken"} \cup Compressing
Alive    == Locking \cup {"open", "flock"} \cup Running \cup Restoring

TypeOK ==
    /\ pc \in [Procs -> Alive \cup {"new", "dead"}]
    /\ try \in [Procs -> 1..2]
    /\ victim \in [Procs -> Procs \cup {None}]
    /\ lockfile \in Procs \cup {None, Empty}
    /\ lockFd \subseteq Procs
    /\ link \in [Files -> Inodes \cup {None}]
    /\ data \in [Inodes -> SUBSET (Writes \cup {Torn})]
    /\ want \in [Procs -> Inodes \cup {None}]
    /\ held \in [Procs -> Inodes \cup {None}]
    /\ src \in [Procs -> Inodes \cup {None}]
    /\ snap \in [Procs -> (SUBSET (Writes \cup {Torn})) \cup {None}]
    /\ acked \subseteq Writes
    /\ {young, gap, swept, power, together, stolen} \subseteq BOOLEAN

Init ==
    /\ pc = [p \in Procs |-> "new"]
    /\ try = [p \in Procs |-> 1]
    /\ victim = [p \in Procs |-> None]
    /\ lockfile = None /\ lockFd = {}
    /\ link = [f \in Files |-> None]
    /\ data = [i \in Inodes |-> {}]
    /\ want = [p \in Procs |-> None]
    /\ held = want /\ src = want
    /\ snap = [p \in Procs |-> None]
    /\ acked = {}
    /\ young = FALSE /\ gap = FALSE /\ swept = FALSE
    /\ power = FALSE /\ together = FALSE /\ stolen = FALSE

Goto(p, step) == pc' = [pc EXCEPT ![p] = step]

\* An inode that no name and no process refers to.
Fresh == CHOOSE i \in Inodes : /\ \A f \in Files : link[f] # i
                               /\ \A p \in Procs : i \notin {want[p], held[p], src[p]}

\* What the end of the processes in P closes.
Release(P) ==
    /\ want' = [p \in Procs |-> IF p \in P THEN None ELSE want[p]]
    /\ held' = [p \in Procs |-> IF p \in P THEN None ELSE held[p]]
    /\ src'  = [p \in Procs |-> IF p \in P THEN None ELSE src[p]]
    /\ snap' = [p \in Procs |-> IF p \in P THEN None ELSE snap[p]]
    /\ gap' = (gap \/ \E p \in P : pc[p] = "rename")

Die(P) ==
    /\ pc' = [p \in Procs |-> IF p \in P THEN "dead" ELSE pc[p]]
    /\ Release(P)

----------------------------------------------------------------------------
(* ensureSingleInstance and LockFile.Lock *)

\* main begins: ensureSingleInstance calls Lock.
Start(p) ==
    /\ pc[p] = "new"
    /\ Goto(p, "lock")
    /\ together' = (together \/ \E q \in Procs : pc[q] \in Locking)
    /\ UNCHANGED <<try, victim, lockVars, diskVars, openVars, snap, young, acked,
                   gap, swept, power, stolen>>

\* Lock reads the file: no file or a dead owner frees it; an owner that runs
\* is killed by the first call; a file without a pid is removed by it.
ReadLock(p) ==
    /\ pc[p] = "lock"
    /\ \/ /\ \/ lockfile = None
             \/ lockfile \in Procs /\ pc[lockfile] \notin Alive
          /\ Goto(p, "trunc")
          /\ UNCHANGED victim
       \/ /\ lockfile \in Procs /\ pc[lockfile] \in Alive
          /\ Goto(p, IF try[p] = 1 THEN "kill" ELSE "dead")
          /\ victim' = [victim EXCEPT ![p] = lockfile]
       \/ /\ lockfile = Empty
          /\ Goto(p, IF try[p] = 1 THEN "unlink" ELSE "dead")
          /\ UNCHANGED victim
    /\ UNCHANGED <<try, lockVars, diskVars, openVars, snap, young, acked, history>>

\* os.WriteFile opens the file truncated ...
TruncateLock(p) ==
    /\ pc[p] = "trunc"
    /\ lockfile' = Empty
    /\ lockFd' = lockFd \cup {p}
    /\ Goto(p, "write")
    /\ UNCHANGED <<try, victim, diskVars, openVars, snap, young, acked, history>>

\* ... and writes the pid, into a file that may have been removed meanwhile.
WriteLock(p) ==
    /\ pc[p] = "write"
    /\ lockfile' = IF p \in lockFd THEN p ELSE lockfile
    /\ lockFd' = lockFd \ {p}
    /\ Goto(p, "open")
    /\ UNCHANGED <<try, victim, diskVars, openVars, snap, young, acked, history>>

\* A victim that survives.
KillNothing(p) ==
    /\ pc[p] = "kill"
    /\ Goto(p, "unlink")
    /\ UNCHANGED <<try, victim, lockVars, diskVars, openVars, snap, young, acked, history>>


\* p.Kill: an owner that has ended meanwhile is an error, and ends this one.
Kill(p) ==
    /\ pc[p] = "kill"
    /\ IF pc[victim[p]] \in Alive
       THEN /\ Release({victim[p]})
            /\ pc' = [pc EXCEPT ![victim[p]] = "dead", ![p] = "unlink"]
       ELSE Die({p})
    /\ UNCHANGED <<try, victim, lockVars, diskVars, young, acked, swept, power, together, stolen>>

\* os.Remove of the lock file, then Lock again.
Unlink(p) ==
    /\ pc[p] = "unlink"
    /\ IF lockfile = None
       THEN /\ Goto(p, "dead")
            /\ UNCHANGED <<try, lockVars>>
       ELSE /\ lockfile' = None /\ lockFd' = {}
            /\ try' = [try EXCEPT ![p] = 2]
            /\ Goto(p, "lock")
    /\ UNCHANGED <<victim, diskVars, openVars, snap, young, acked, history>>

----------------------------------------------------------------------------
(* CreateStormDB, and RestoreBackup in its recover *)

\* bolt.Open opens or creates the file; the flock comes after.
Open(p) ==
    /\ \/ pc[p] = "open"   /\ Goto(p, "flock")
       \/ pc[p] = "reopen" /\ Goto(p, "reflock")
    /\ IF link["main"] = None
       THEN /\ link' = [link EXCEPT !["main"] = Fresh]
            /\ data' = [data EXCEPT ![Fresh] = {}]
            /\ want' = [want EXCEPT ![p] = Fresh]
       ELSE /\ want' = [want EXCEPT ![p] = link["main"]]
            /\ UNCHANGED diskVars
    /\ UNCHANGED <<try, victim, lockVars, held, src, snap, young, acked, history>>

\* A database that is opened without its flock.
LockedByNobody(i, p) == FALSE

Locked(i, p) == \E q \in Procs \ {p} : i \in {held[q], src[q]}

\* The flock is granted.  A file that bolt cannot read makes it panic, so that
\* the backup is restored, or answer with an error.
Flock(p) ==
    /\ pc[p] \in {"flock", "reflock"}
    /\ ~Locked(want[p], p)
    /\ held' = [held EXCEPT ![p] = IF data[want[p]] = {Torn} THEN None ELSE want[p]]
    /\ want' = [want EXCEPT ![p] = None]
    /\ \/ data[want[p]] # {Torn} /\ Goto(p, "run")
       \/ data[want[p]] = {Torn} /\ Goto(p, "wipe")
       \/ data[want[p]] = {Torn} /\ Goto(p, IF pc[p] = "flock" THEN "dead" ELSE "broken")
    /\ stolen' = (stolen \/ want[p] # link["main"] \/ \E q \in Procs \ {p} : pc[q] \in Compressing)
    /\ UNCHANGED <<try, victim, lockVars, diskVars, src, snap, young, acked,
                   gap, swept, power, together>>

\* 15 seconds have passed: a start ends, a Compress leaves d.db nil.
FlockTimeout(p) ==
    /\ pc[p] \in {"flock", "reflock"}
    /\ Locked(want[p], p)
    /\ Goto(p, IF pc[p] = "flock" THEN "dead" ELSE "broken")
    /\ want' = [want EXCEPT ![p] = None]
    /\ UNCHANGED <<try, victim, lockVars, diskVars, held, src, snap, young, acked, history>>

\* RestoreBackup removes the database, creates it anew if there is a backup
\* and copies the backup into it; then the process exits.
RestoreRemove(p) ==
    /\ pc[p] = "wipe"
    /\ link' = [link EXCEPT !["main"] = None]
    /\ Goto(p, IF link["backup"] = None THEN "dead" ELSE "create")
    /\ stolen' = (stolen \/ (link["main"] # None /\ Locked(link["main"], p)))
    /\ UNCHANGED <<try, victim, lockVars, data, openVars, snap, young, acked,
                   gap, swept, power, together>>

RestoreCreate(p) ==
    /\ pc[p] = "create"
    /\ LET i == IF link["main"] = None THEN Fresh ELSE link["main"]
       IN /\ link' = [link EXCEPT !["main"] = i]
          /\ data' = [data EXCEPT ![i] = {}]
          /\ want' = [want EXCEPT ![p] = i]
    /\ Goto(p, "refill")
    /\ UNCHANGED <<try, victim, lockVars, held, src, snap, young, acked, history>>

RestoreCopy(p) ==
    /\ pc[p] = "refill"
    /\ data' = IF link["backup"] = None THEN data
               ELSE [data EXCEPT ![want[p]] = data[link["backup"]]]
    /\ want' = [want EXCEPT ![p] = None]
    /\ Goto(p, "dead")
    /\ UNCHANGED <<try, victim, lockVars, link, held, src, snap, young, acked, history>>

----------------------------------------------------------------------------
(* A running instance: commits and backups *)

\* A transaction of the storm database that is acknowledged.  After a Compress
\* that failed the database is closed and every one of them is an error.
Commit(p, w) ==
    /\ pc[p] = "run" /\ held[p] # None
    /\ w \notin acked
    /\ data' = [data EXCEPT ![held[p]] = @ \cup {w}]
    /\ acked' = acked \cup {w}
    /\ UNCHANGED <<pc, try, victim, lockVars, link, openVars, snap, young, history>>

\* CreateBackup skips a young backup; CopyFile truncates the old one, then
\* copies what the database held when its transaction began.
BackupBegin(p) ==
    /\ pc[p] = "run" /\ held[p] # None /\ snap[p] = None
    /\ link["backup"] = None \/ ~young
    /\ LET b == IF link["backup"] = None THEN Fresh ELSE link["backup"]
       IN /\ link' = [link EXCEPT !["backup"] = b]
          /\ data' = [data EXCEPT ![b] = {Torn}]
    /\ snap' = [snap EXCEPT ![p] = data[held[p]]]
    /\ young' = TRUE
    /\ UNCHANGED <<pc, try, victim, lockVars, openVars, acked, history>>

BackupEnd(p) ==
    /\ snap[p] # None
    /\ data' = [data EXCEPT ![link["backup"]] = snap[p]]
    /\ snap' = [snap EXCEPT ![p] = None]
    /\ UNCHANGED <<pc, try, victim, lockVars, link, openVars, young, acked, history>>

\* backupPeriod passes.
Age ==
    /\ young
    /\ young' = FALSE
    /\ UNCHANGED <<pc, try, victim, lockVars, diskVars, openVars, snap, acked, history>>

----------------------------------------------------------------------------
(* StormDatabase.Compress and CompressBoltDB *)

\* d.db.Close waits for the transactions that are open.
CompressClose(p) ==
    /\ pc[p] = "run" /\ snap[p] = None
    /\ held' = [held EXCEPT ![p] = None]
    /\ Goto(p, "sweep")
    /\ UNCHANGED <<try, victim, lockVars, diskVars, want, src, snap, young, acked, history>>

\* An old copy is removed; without a database there is nothing to do.
CompressSweep(p) ==
    /\ pc[p] = "sweep"
    /\ link' = [link EXCEPT !["compress"] = None]
    /\ swept' = (swept \/ (gap /\ link["compress"] # None))
    /\ Goto(p, IF link["main"] = None THEN "reopen" ELSE "source")
    /\ UNCHANGED <<try, victim, lockVars, data, openVars, snap, young, acked,
                   gap, power, together, stolen>>

\* The source is opened read-only, without a time-out for its flock, and the
\* destination is created.
CompressOpen(p) ==
    /\ pc[p] = "source"
    /\ link["main"] # None
    /\ \A q \in Procs : held[q] # link["main"]
    /\ src' = [src EXCEPT ![p] = link["main"]]
    /\ link' = [link EXCEPT !["compress"] = Fresh]
    /\ data' = [data EXCEPT ![Fresh] = {}]
    /\ Goto(p, "copy")
    /\ UNCHANGED <<try, victim, lockVars, want, held, snap, young, acked, history>>

\* An error of the copy that is ignored, as in callers of Compress.
CompressCopyUnchecked(p) ==
    /\ pc[p] = "copy"
    /\ Goto(p, "remove")
    /\ \/ /\ link["compress"] # None
          /\ data' = [data EXCEPT ![link["compress"]] = data[src[p]]]
       \/ UNCHANGED data
    /\ src' = [src EXCEPT ![p] = None]
    /\ UNCHANGED <<try, victim, lockVars, link, want, held, snap, young, acked, history>>

\* bolt.Compact and the test of its size, then both files are closed.  Every
\* error of CompressBoltDB returns with the database closed.
CompressCopy(p) ==
    /\ pc[p] = "copy"
    /\ \/ /\ link["compress"] # None
          /\ data' = [data EXCEPT ![link["compress"]] = data[src[p]]]
          /\ Goto(p, "remove")
       \/ /\ Goto(p, "run")
          /\ UNCHANGED data
    /\ src' = [src EXCEPT ![p] = None]
    /\ UNCHANGED <<try, victim, lockVars, link, want, held, snap, young, acked, history>>

\* os.Remove of the database ...
CompressRemove(p) ==
    /\ pc[p] = "remove"
    /\ \/ /\ link["main"] # None
          /\ link' = [link EXCEPT !["main"] = None]
          /\ Goto(p, "rename")
       \/ /\ Goto(p, "run")
          /\ UNCHANGED link
    /\ UNCHANGED <<try, victim, lockVars, data, openVars, snap, young, acked, history>>

\* ... and the rename of the compressed copy over it.
CompressRename(p) ==
    /\ pc[p] = "rename"
    /\ \/ /\ link["compress"] # None
          /\ link' = [link EXCEPT !["main"] = link["compress"], !["compress"] = None]
          /\ Goto(p, "reopen")
          /\ UNCHANGED gap
       \/ /\ Goto(p, "run")
          /\ gap' = TRUE
          /\ UNCHANGED link
    /\ UNCHANGED <<try, victim, lockVars, data, openVars, snap, young, acked,
                   swept, power, together, stolen>>

----------------------------------------------------------------------------
(* The end of a process *)

\* shutdown closes the database, which waits for the mutex of a Compress and
\* for open transactions, and exits; the lock file stays.
Shutdown(p) ==
    /\ pc[p] = "run" /\ snap[p] = None
    /\ Die({p})
    /\ UNCHANGED <<try, victim, lockVars, diskVars, young, acked, swept, power, together, stolen>>

\* ListenAndServe fails: main returns at once and its deferred Unlock removes
\* the lock file.
ListenFails(p) ==
    /\ pc[p] \in Running
    /\ Die({p})
    /\ lockfile' = None /\ lockFd' = {}
    /\ UNCHANGED <<try, victim, diskVars, young, acked, swept, power, together, stolen>>

\* The process is killed, or panics.
Crash(p) ==
    /\ pc[p] \in Alive
    /\ Die({p})
    /\ UNCHANGED <<try, victim, lockVars, diskVars, young, acked, swept, power, together, stolen>>

\* The machine stops: with NoSync the pages of the database may be torn.
PowerLoss ==
    /\ ~power
    /\ power' = TRUE
    /\ Die({p \in Procs : pc[p] \in Alive})
    /\ \/ UNCHANGED data
       \/ /\ link["main"] # None
          /\ data' = [data EXCEPT ![link["main"]] = {Torn}]
    /\ UNCHANGED <<try, victim, lockVars, link, young, acked, swept, together, stolen>>

Next ==
    \/ \E p \in Procs :
          \/ Start(p) \/ ReadLock(p) \/ TruncateLock(p) \/ WriteLock(p) \/ Kill(p) \/ Unlink(p)
          \/ Open(p) \/ Flock(p) \/ FlockTimeout(p)
          \/ RestoreRemove(p) \/ RestoreCreate(p) \/ RestoreCopy(p)
          \/ BackupBegin(p) \/ BackupEnd(p)
          \/ CompressClose(p) \/ CompressSweep(p) \/ CompressOpen(p) \/ CompressCopy(p)
          \/ CompressRemove(p) \/ CompressRename(p)
          \/ Shutdown(p) \/ ListenFails(p) \/ Crash(p)
          \/ \E w \in Writes : Commit(p, w)
    \/ Age
    \/ PowerLoss

Spec == Init /\ [][Next]_vars

----------------------------------------------------------------------------
(* Properties *)

Content(f) == IF link[f] = None THEN {} ELSE data[link[f]]

\* What was acknowledged is in the database, or in the compressed copy that is
\* about to replace it.  A process that ends between the removal and the rename
\* (CompressBoltDB) takes the database away, but not what was in it: until the
\* next Compress removes the copy, the copy has what the new database lacks.
\* Only a torn file and two instances at once can lose more.
NothingForgotten ==
    \/ power \/ together
    \/ IF gap THEN swept \/ acked \subseteq Content("main") \cup Content("compress")
       ELSE \E f \in {"main", "compress"} : acked \subseteq Content(f)

\* The instance that has passed ensureSingleInstance is the only one, and the
\* one whose pid the next instance will find and kill, unless two of them were
\* in ensureSingleInstance at the same time.
SingleInstance ==
    together \/ \A p \in Procs : pc[p] \in Alive \ Locking =>
        /\ lockfile = p
        /\ \A q \in Procs \ {p} : pc[q] \notin Alive \ Locking

\* bolt's flock keeps two instances off one database even when the lock file
\* has let both of them in, except for one that takes the flock between the
\* steps of a Compress, which gives it up and goes on with the names, or that
\* gets the flock of a file which Compress or RestoreBackup replaces.
OneWriter ==
    stolen \/ \A p, q \in Procs : held[p] # None /\ held[q] # None => p = q

==========================================================================
