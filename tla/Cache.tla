------------------------------- MODULE Cache -------------------------------
(***************************************************************************)
(* The cache database (database/bolt.go) and its two users: the entries    *)
(* with an expiry that GetCachedBytes reads, and cache.DBStore, through    *)
(* which the clients of trakt, tmdb and fanart read (get, else fetch and   *)
(* set).  BoltDatabase guards bolt by a sync.RWMutex, mu, in which a       *)
(* waiting writer keeps new readers out; CacheCleanup and RecreateBucket   *)
(* use bolt without it.  One View or Update of bolt is one transaction and *)
(* so one step.                                                            *)
(*                                                                         *)
(* What is fetched changes when the user changes it: remote[k] counts the  *)
(* changes.  The handlers of api/trakt.go change it and then delete the    *)
(* keys; trakt.SetMultipleWatched deletes its key first; what              *)
(* api/library.go changes on trakt when an item is added to the library or *)
(* removed from it deletes no key at all.                                  *)
(*                                                                         *)
(* told, overlapped and the field renewed are history: the changes up to   *)
(* the last one whose handler deletes the key, the keys whose fetch        *)
(* overlapped with such a change, or whose deletion failed, and, for a     *)
(* goroutine that has decided what to delete, the keys set since.          *)
(***************************************************************************)
EXTENDS Naturals, FiniteSets

CONSTANTS
  Tasks,      \* goroutines that call the cache: handlers, refreshes, maintenance
  Deleters,   \* goroutines that DBStore.Get starts to delete an expired key
  Keys,       \* keys of entries that expire
  PlainKeys,  \* keys of entries without an expiry: the menus of api/menu.go
  MaxChanges, \* bound on the changes of what one key stands for
  None

ASSUME BoundAssumption == MaxChanges \in Nat
ASSUME KeyAssumption == Keys \cap PlainKeys = {}
ASSUME NoneAssumption == None \notin Tasks \cup Deleters \cup Keys \cup PlainKeys

VARIABLES
  remote,     \* what a fetch of each key answers now
  told,       \* what it answered after the last change that deletes the key
  store,      \* the bucket: a set of entries, at most one for a key
  db,         \* d.db: "open", "closed" by a compression that failed, or "nil"
  readers,    \* the goroutines that hold mu for reading
  pending,    \* the one that waits in Lock for the readers to leave, or None
  writer,     \* the one that holds mu for writing, or None
  task,       \* each goroutine: its step, operation, key and fetched value, and
              \* the keys it has decided to delete
  dead,       \* a panic outside of a handler has ended the process
  overlapped

lock == <<readers, pending, writer>>
vars == <<remote, told, store, db, lock, task, dead, overlapped>>

Goroutines == Tasks \cup Deleters
Ops == {"cached", "fetchthrough", "set", "save", "change", "precede", "cleanup", "compress", "delete"}
Lives == {"fresh", "expired", "plain"}

(* ParseCacheItem: an entry without an expiry parses as one with expire = 0. *)
Entry == [key : Keys \cup PlainKeys, life : Lives, value : 0 .. MaxChanges]
EntriesOf(ks) == {e \in store : e.key \in ks}
Put(e) == (store \ EntriesOf({e.key})) \cup {e}

Steps == {"idle", "rlock", "view", "spawn", "fetch", "announce", "lock", "locked", "post", "batch", "reopen"}
Task == [pc : Steps, op : Ops, key : Keys \cup PlainKeys \cup {None}, value : 0 .. MaxChanges,
         doomed : SUBSET (Keys \cup PlainKeys), renewed : SUBSET (Keys \cup PlainKeys)]
Called(o, k, s) ==
  [pc |-> s, op |-> o, key |-> k, value |-> 0, doomed |-> {}, renewed |-> {}]
Idle == Called("delete", None, "idle")

Init ==
  /\ remote = [k \in Keys |-> 0]
  /\ told = remote
  /\ store = {}
  /\ db = "open"
  /\ readers = {} /\ pending = None /\ writer = None
  /\ task = [g \in Goroutines |-> Idle]
  /\ dead = FALSE
  /\ overlapped = {}

(* ------------------------------- calls -------------------------------- *)
At(g, s) == task[g].pc = s
Op(g) == task[g].op
Key(g) == task[g].key
Goto(g, s) == task' = [task EXCEPT ![g] = [@ EXCEPT !.pc = s]]
Return(g) == task' = [task EXCEPT ![g] = Idle]

Fetching(k) == \E g \in Tasks : Key(g) = k /\ Op(g) \in {"fetchthrough", "set"}
Changing(k) == \E g \in Tasks : Key(g) = k /\ Op(g) \in {"change", "precede"}

Call(g, o, k, s) ==
  /\ g \in Tasks /\ At(g, "idle")
  /\ task' = [task EXCEPT ![g] = Called(o, k, s)]
  /\ overlapped' =
       IF \/ o \in {"fetchthrough", "set"} /\ Changing(k)
          \/ o \in {"change", "precede"} /\ Fetching(k)
         THEN overlapped \cup {k} ELSE overlapped
  /\ UNCHANGED <<store, db, lock, dead>>

(* GetCachedBytes and DBStore.Get; SetCachedBytes after a search; a menu's Save. *)
Read(g) == \E k \in Keys, o \in {"cached", "fetchthrough"} :
  Call(g, o, k, "rlock") /\ UNCHANGED <<remote, told>>
Set(g) == \E k \in Keys : Call(g, "set", k, "fetch") /\ UNCHANGED <<remote, told>>
Save(g) == \E k \in PlainKeys : Call(g, "save", k, "announce") /\ UNCHANGED <<remote, told>>

(* The user changes what is cached through api/trakt.go: the request first *)
(* and the Delete after it, or, in SetMultipleWatched, the other way round. *)
Change(g) == \E k \in Keys :
  /\ remote[k] < MaxChanges
  /\ Call(g, "change", k, "announce")
  /\ remote' = [remote EXCEPT ![k] = @ + 1]
  /\ told' = [told EXCEPT ![k] = remote[k] + 1]

Precede(g) == \E k \in Keys : Call(g, "precede", k, "announce") /\ UNCHANGED <<remote, told>>

(* SetMultipleWatched sends its request when the key has been deleted. *)
Post(g) ==
  /\ At(g, "post")
  /\ remote' = [remote EXCEPT ![Key(g)] = IF @ < MaxChanges THEN @ + 1 ELSE @]
  /\ told' = [told EXCEPT ![Key(g)] = remote'[Key(g)]]
  /\ Return(g)
  /\ UNCHANGED <<store, db, lock, dead, overlapped>>

(* SyncAddedItem and SyncRemovedItem, which a goroutine of its own runs    *)
(* when the library has changed: they delete no key, and take no lock.     *)
(* Nor does a handler of api/trakt.go whose request arrives but whose      *)
(* answer does not.                                                        *)
SyncItem == \E k \in Keys :
  /\ remote[k] < MaxChanges
  /\ remote' = [remote EXCEPT ![k] = @ + 1]
  /\ UNCHANGED <<told, store, db, lock, task, dead, overlapped>>

(* ------------------------------ the mutex ------------------------------ *)
RLock(g) ==
  /\ At(g, "rlock") /\ pending = None /\ writer = None
  /\ readers' = readers \cup {g}
  /\ Goto(g, "view")
  /\ UNCHANGED <<remote, told, store, db, pending, writer, dead, overlapped>>

(* sync.RWMutex.Lock: one writer at a time waits, new readers stay out ... *)
Announce(g) ==
  /\ At(g, "announce") /\ pending = None /\ writer = None
  /\ pending' = g
  /\ Goto(g, "lock")
  /\ UNCHANGED <<remote, told, store, db, readers, writer, dead, overlapped>>

(* A mutant: a mutex that lets a writer in while it is read. *)
LockBusy(g) ==
  /\ At(g, "lock") /\ pending = g
  /\ pending' = None /\ writer' = g
  /\ Goto(g, "locked")
  /\ UNCHANGED <<remote, told, store, db, readers, dead, overlapped>>

(* ... and it goes on when those who were there have left. *)
Lock(g) ==
  /\ At(g, "lock") /\ pending = g /\ readers = {}
  /\ pending' = None /\ writer' = g
  /\ Goto(g, "locked")
  /\ UNCHANGED <<remote, told, store, db, readers, dead, overlapped>>

RUnlock(g) == readers' = readers \ {g} /\ UNCHANGED <<pending, writer>>
Unlock(g) == writer' = None /\ UNCHANGED <<readers, pending>>

(* ------------------------------ reading -------------------------------- *)
Hit(g) == db = "open" /\ \E e \in EntriesOf({Key(g)}) : e.life = "fresh"
ExpiredHit(g) == db = "open" /\ \E e \in EntriesOf({Key(g)}) : e.life = "expired"

(* GetCachedBytes and DBStore.Get find the value. *)
ReadHit(g) ==
  /\ At(g, "view") /\ Hit(g)
  /\ RUnlock(g) /\ Return(g)
  /\ UNCHANGED <<remote, told, store, db, dead, overlapped>>

(* Nothing is there, or bolt answers that it is not open: the caller of    *)
(* DBStore.Get fetches, the one of GetCachedBytes goes on without.         *)
ReadMiss(g) ==
  /\ At(g, "view") /\ db # "nil" /\ ~Hit(g) /\ ~ExpiredHit(g)
  /\ RUnlock(g)
  /\ IF Op(g) = "fetchthrough" THEN Goto(g, "fetch") ELSE Return(g)
  /\ UNCHANGED <<remote, told, store, db, dead, overlapped>>

(* DBStore.Get finds an expired entry when it has left mu ... *)
StoreExpired(g) ==
  /\ At(g, "view") /\ Op(g) = "fetchthrough" /\ ExpiredHit(g)
  /\ RUnlock(g)
  /\ task' = [task EXCEPT ![g].pc = "spawn", ![g].doomed = {Key(g)}]
  /\ UNCHANGED <<remote, told, store, db, dead, overlapped>>

(* ... starts a goroutine that deletes it, and fetches. *)
Spawn(g, d) ==
  /\ At(g, "spawn") /\ At(d, "idle")
  /\ task' = [task EXCEPT ![g] = Called("fetchthrough", Key(g), "fetch"),
                          ![d] = [task[g] EXCEPT !.op = "delete", !.pc = "announce"]]
  /\ UNCHANGED <<remote, told, store, db, lock, dead, overlapped>>

(* GetCachedBytes calls Delete while it holds mu for reading. *)
CachedExpired(g) ==
  /\ At(g, "view") /\ Op(g) = "cached" /\ ExpiredHit(g)
  /\ task' = [task EXCEPT ![g].pc = "announce", ![g].doomed = {Key(g)}]
  /\ UNCHANGED <<remote, told, store, db, lock, dead, overlapped>>

(* The answer of a request; a request that fails sets nothing. *)
Fetch(g) ==
  /\ At(g, "fetch")
  /\ \/ task' = [task EXCEPT ![g].pc = "announce", ![g].value = remote[Key(g)]]
     \/ Return(g)
  /\ UNCHANGED <<remote, told, store, db, lock, dead, overlapped>>

(* ------------------------------ writing -------------------------------- *)
(* SetBytes and SetCachedBytes; when bolt is not open they return its error. *)
NewEntry(g) ==
  [key |-> Key(g), life |-> IF Op(g) = "save" THEN "plain" ELSE "fresh", value |-> task[g].value]

PutEntry(g) ==
  /\ At(g, "locked") /\ Op(g) \in {"fetchthrough", "set", "save"} /\ db # "nil"
  /\ store' = IF db = "open" THEN Put(NewEntry(g)) ELSE store
  /\ task' = [q \in Goroutines |->
       CASE q = g -> Idle
         [] q # g /\ db = "open" /\ task[q].doomed # {} ->
              [task[q] EXCEPT !.renewed = @ \cup ({Key(g)} \cap task[q].doomed)]
         [] OTHER -> task[q]]
  /\ Unlock(g)
  /\ UNCHANGED <<remote, told, db, dead, overlapped>>

(* A mutant: DeleteWithPrefix with a prefix that no key has. *)
DeleteNothing(g) ==
  /\ At(g, "locked") /\ Op(g) \in {"change", "precede", "delete", "cached"} /\ db # "nil"
  /\ overlapped' = IF db = "open" THEN overlapped ELSE overlapped \cup {Key(g)}
  /\ Unlock(g)
  /\ IF Op(g) = "precede" THEN Goto(g, "post") ELSE Return(g)
  /\ UNCHANGED <<remote, told, store, db, dead>>

(* Delete and DeleteWithPrefix; a handler deletes what the user has changed. *)
DeleteEntry(g) ==
  /\ At(g, "locked") /\ Op(g) \in {"change", "precede", "delete", "cached"} /\ db # "nil"
  /\ store' = IF db = "open" THEN store \ EntriesOf({Key(g)}) ELSE store
  /\ overlapped' = IF db = "open" THEN overlapped ELSE overlapped \cup {Key(g)}
  /\ Unlock(g)
  /\ IF Op(g) = "precede" THEN Goto(g, "post") ELSE Return(g)
  /\ UNCHANGED <<remote, told, db, dead>>

(* RecreateBucket, which "clear the cache" calls, does not take mu. *)
Clear(g) ==
  /\ g \in Tasks /\ At(g, "idle") /\ db = "open"
  /\ store' = {}
  /\ UNCHANGED <<remote, told, db, lock, task, dead, overlapped>>

(* CacheCleanup does not take mu either: it collects in one transaction    *)
(* and deletes in another, both of the bolt that was open when it began.   *)
InvalidAll == {e \in store : TRUE} \* a mutant: the expiry is not compared with the clock
Invalid == {e \in store : e.life # "fresh"}

Collect(g) ==
  /\ g \in Tasks /\ At(g, "idle") /\ db = "open" /\ Invalid # {}
  /\ task' = [task EXCEPT ![g] =
       [Called("cleanup", None, "batch") EXCEPT !.doomed = {e.key : e \in Invalid}]]
  /\ UNCHANGED <<remote, told, store, db, lock, dead, overlapped>>

(* The goroutine of a maintenance handler that finds no bolt at all panics. *)
CollectPanic(g) ==
  /\ g \in Tasks /\ At(g, "idle") /\ db = "nil"
  /\ dead' = TRUE
  /\ UNCHANGED <<remote, told, store, db, lock, task, overlapped>>

BatchDelete(g) ==
  /\ At(g, "batch")
  /\ store' = store \ EntriesOf(task[g].doomed)
  /\ Return(g)
  /\ UNCHANGED <<remote, told, db, lock, dead, overlapped>>

(* Compress closes bolt (what a cleanup has collected is then not deleted, *)
(* its Batch is refused), and opens it again unless CompressBoltDB fails;  *)
(* when the Open fails, d.db is nil.                                       *)
Compress(g) == Call(g, "compress", None, "announce") /\ UNCHANGED <<remote, told>>

CloseBolt(g) ==
  /\ At(g, "locked") /\ Op(g) = "compress" /\ db # "nil"
  /\ db' = "closed"
  /\ task' = [q \in Goroutines |->
       CASE q = g -> [task[q] EXCEPT !.pc = "reopen"]
         [] q # g /\ At(q, "batch") -> [task[q] EXCEPT !.doomed = {}]
         [] OTHER -> task[q]]
  /\ UNCHANGED <<remote, told, store, lock, dead, overlapped>>

(* A mutant: the return in front of CreateBoltDB leaves mu locked. *)
ReopenLocked(g) ==
  /\ At(g, "reopen")
  /\ db' \in {"open", "closed", "nil"}
  /\ IF db' = "closed" THEN UNCHANGED lock ELSE Unlock(g)
  /\ Return(g)
  /\ UNCHANGED <<remote, told, store, dead, overlapped>>

Reopen(g) ==
  /\ At(g, "reopen")
  /\ db' \in {"open", "closed", "nil"}
  /\ Unlock(g) /\ Return(g)
  /\ UNCHANGED <<remote, told, store, dead, overlapped>>

(* A method of a nil *bolt.DB panics.  In a handler gin recovers, and      *)
(* DBStore.Set does in itself; the deferred unlock has run.  Elsewhere the *)
(* process dies.                                                           *)
Panic(g) ==
  /\ db = "nil" /\ task[g].pc \in {"view", "locked"}
  /\ readers' = readers \ {g}
  /\ writer' = IF writer = g THEN None ELSE writer
  /\ Return(g)
  /\ dead' \in CASE g \in Deleters -> {TRUE}
               [] g \notin Deleters /\ At(g, "locked") /\ Op(g) = "fetchthrough" -> {FALSE}
               [] OTHER -> BOOLEAN
  /\ overlapped' = IF Op(g) \in {"change", "precede"} THEN overlapped \cup {Key(g)} ELSE overlapped
  /\ UNCHANGED <<remote, told, store, db, pending>>

(* The clock passes the expiry of an entry. *)
Expire == \E e \in store :
  /\ e.life = "fresh"
  /\ store' = Put([e EXCEPT !.life = "expired"])
  /\ UNCHANGED <<remote, told, db, lock, task, dead, overlapped>>

Step(g) ==
  \/ Post(g) \/ RLock(g) \/ Announce(g) \/ Lock(g)
  \/ ReadHit(g) \/ ReadMiss(g) \/ StoreExpired(g) \/ (\E d \in Deleters : Spawn(g, d)) \/ CachedExpired(g)
  \/ Fetch(g) \/ PutEntry(g) \/ DeleteEntry(g) \/ BatchDelete(g)
  \/ CloseBolt(g) \/ Reopen(g) \/ Panic(g)

Start(g) == Read(g) \/ Set(g) \/ Save(g) \/ Change(g) \/ Precede(g) \/ Clear(g)
            \/ Collect(g) \/ CollectPanic(g) \/ Compress(g)

Next == ~dead /\ (Expire \/ SyncItem \/ \E g \in Goroutines : Step(g) \/ Start(g))

Spec == Init /\ [][Next]_vars

(* A goroutine goes on; sync.RWMutex lets every waiting writer and reader  *)
(* in some time, hence the strong fairness.                                *)
Fairness == \A g \in Goroutines : SF_vars(~dead /\ Step(g))
FairSpec == Spec /\ Fairness
-----------------------------------------------------------------------------
(* Types; a goroutine that holds mu for writing holds it alone. *)
TypeOK ==
  /\ {remote, told} \subseteq [Keys -> 0 .. MaxChanges] /\ \A k \in Keys : told[k] <= remote[k]
  /\ store \subseteq Entry /\ \A e, f \in store : e.key = f.key => e = f
  /\ db \in {"open", "closed", "nil"}
  /\ readers \subseteq Goroutines
  /\ {pending, writer} \subseteq Goroutines \cup {None}
  /\ task \in [Goroutines -> Task]
  /\ dead \in BOOLEAN
  /\ overlapped \subseteq Keys
  /\ writer # None => readers = {} /\ pending = None

(* What a cleanup, or a Delete for an expired key, is about to remove has  *)
(* expired, unless it was set again after the decision: the window between *)
(* the two transactions of CacheCleanup, and the one before the goroutine  *)
(* of DBStore.Get runs, are the only ways to lose a fresh entry.           *)
DeletesOnlyExpired ==
  \A g \in Goroutines : \A k \in task[g].doomed \ task[g].renewed :
    \A e \in EntriesOf({k}) : e.life # "fresh"

(* Outside of a change, the cache serves what a change that deletes the    *)
(* key has made out of date only if a fetch overlapped with that change,   *)
(* or bolt was closed when the key was to be deleted: the handlers that    *)
(* change and then delete, and the one that deletes and then changes, are  *)
(* both right without such an overlap.  After a SyncItem the list stays    *)
(* out of date until it expires or until the next change that deletes it.  *)
StaleOnlyByOverlap ==
  \A e \in store :
    e.life = "fresh" /\ e.value < told[e.key] =>
      e.key \in overlapped \/ Changing(e.key)

(* GetCachedBytes waits for the lock that it holds itself. *)
SelfLocked == \E g \in readers : task[g].pc \in {"announce", "lock"}

(* Every call returns, unless a GetCachedBytes has met an expired key (it  *)
(* then waits for itself) or the process has died.                         *)
ReturnsUnlessSelfLocked ==
  \A g \in Tasks : ~At(g, "idle") ~> (At(g, "idle") \/ SelfLocked \/ dead)
=============================================================================
