---------------------------- MODULE CacheProofs ----------------------------
(***************************************************************************)
(* The safety of the cache for any number of goroutines and keys: types    *)
(* and the exclusion of mu, what may be deleted, and when the cache may    *)
(* serve what has changed.                                                 *)
(*                                                                         *)
(* StaleOnlyByOverlap is not inductive.  What makes it so is in Overlaps   *)
(* (a fetch and a change of one key that are both under way have been      *)
(* seen to overlap), FetchedStale (a fetched value that is out of date was *)
(* overlapped) and PostClean (between the deletion and the request of      *)
(* SetMultipleWatched nothing fresh is there without an overlap).          *)
(***************************************************************************)
EXTENDS Cache, TLAPS

Fetches == {"fetchthrough", "set"}
Changes == {"change", "precede"}

(* Which operations there are at a step, and on which keys. *)
Consistent == \A g \in Goroutines :
  /\ task[g].pc = "idle" => task[g].op = "delete"
  /\ task[g].pc # "idle" /\ task[g].op = "delete" => task[g].key \in Keys
  /\ task[g].op # "delete" => g \in Tasks
  /\ task[g].op \in Fetches \cup Changes \cup {"cached"} => task[g].key \in Keys
  /\ task[g].op = "save" => task[g].key \in PlainKeys
  /\ task[g].pc = "post" => task[g].op = "precede"
  /\ task[g].pc = "fetch" => task[g].op \in Fetches
  /\ task[g].pc = "spawn" => task[g].op = "fetchthrough"
  /\ task[g].pc \in {"rlock", "view"} => task[g].op \in {"cached", "fetchthrough"}
  /\ task[g].pc = "reopen" => task[g].op = "compress"
  /\ task[g].pc = "batch" => task[g].op = "cleanup"

(* Only the entries of menus have no expiry. *)
PlainOnly == \A e \in store : e.life # "plain" => e.key \in Keys

Overlaps == \A g, h \in Goroutines :
  task[g].op \in Fetches /\ task[h].op \in Changes /\ task[g].key = task[h].key
    => task[g].key \in overlapped

FetchedStale == \A g \in Goroutines :
  task[g].op \in Fetches /\ task[g].pc \in {"announce", "lock", "locked"} =>
    (task[g].value < told[task[g].key] => task[g].key \in overlapped)

PostClean == \A g \in Goroutines : \A e \in store :
  task[g].pc = "post" /\ e.key = task[g].key /\ e.life = "fresh" => e.key \in overlapped

Stale == \A e \in store :
  e.life = "fresh" /\ e.value < told[e.key] =>
    \/ e.key \in overlapped
    \/ \E g \in Goroutines : task[g].op \in Changes /\ task[g].key = e.key

Doomed == \A g \in Goroutines : \A e \in store :
  e.key \in task[g].doomed /\ e.key \notin task[g].renewed => e.life # "fresh"

IInv == TypeOK /\ Consistent /\ PlainOnly /\ Overlaps /\ FetchedStale /\ PostClean /\ Stale /\ Doomed
-----------------------------------------------------------------------------
(* What a step of g leaves as it is: every other goroutine. *)
Others(g) == \A h \in Goroutines : h # g => task'[h] = task[h]

(* g goes on to another step of its call. *)
LEMMA GotoFacts ==
  ASSUME TypeOK, NEW g \in Goroutines, NEW s \in Steps, Goto(g, s)
  PROVE  /\ task' \in [Goroutines -> Task] /\ Others(g)
         /\ task'[g].pc = s /\ task'[g].op = task[g].op /\ task'[g].key = task[g].key
         /\ task'[g].value = task[g].value
         /\ task'[g].doomed = task[g].doomed /\ task'[g].renewed = task[g].renewed
BY DEF TypeOK, Goto, Others, Task

(* g has finished. *)
LEMMA ReturnFacts ==
  ASSUME TypeOK, NEW g \in Goroutines, Return(g)
  PROVE  /\ task' \in [Goroutines -> Task] /\ Others(g)
         /\ task'[g].pc = "idle" /\ task'[g].op = "delete" /\ task'[g].key = None
         /\ task'[g].value = 0 /\ task'[g].doomed = {} /\ task'[g].renewed = {}
<1>1. Idle \in Task
  BY BoundAssumption DEF Idle, Called, Task, Steps, Ops
<1> QED BY <1>1 DEF TypeOK, Return, Others, Idle, Called

LEMMA CalledType ==
  ASSUME NEW o \in Ops, NEW k \in Keys \cup PlainKeys \cup {None}, NEW s \in Steps
  PROVE  Called(o, k, s) \in Task
BY BoundAssumption DEF Called, Task

LEMMA InitIInv == Init => IInv
<1> SUFFICES ASSUME Init PROVE IInv
  OBVIOUS
<1>1. Idle \in Task
  BY BoundAssumption DEF Idle, Called, Task, Steps, Ops
<1>2. {remote, told} \subseteq [Keys -> 0 .. MaxChanges] /\ \A k \in Keys : told[k] <= remote[k]
  BY BoundAssumption DEF Init
<1>3. task \in [Goroutines -> Task]
  BY <1>1 DEF Init
<1>4. store \subseteq Entry /\ \A e, f \in store : e.key = f.key => e = f
  BY DEF Init
<1>5. /\ db \in {"open", "closed", "nil"} /\ readers \subseteq Goroutines
      /\ {pending, writer} \subseteq Goroutines \cup {None} /\ dead \in BOOLEAN
      /\ overlapped \subseteq Keys /\ (writer # None => readers = {} /\ pending = None)
  BY DEF Init
<1>6. TypeOK
  BY <1>2, <1>3, <1>4, <1>5 DEF TypeOK
<1>7. \A g \in Goroutines : task[g] = Idle
  BY DEF Init
<1>8. \A g \in Goroutines : task[g].op = "delete" /\ task[g].pc = "idle" /\ task[g].doomed = {}
  BY <1>7 DEF Idle, Called
<1>9. Consistent
  BY <1>8 DEF Consistent, Fetches, Changes
<1>10. Overlaps /\ FetchedStale
  BY <1>8 DEF Overlaps, FetchedStale, Fetches
<1>11. PlainOnly /\ PostClean /\ Stale /\ Doomed
  BY DEF Init, PlainOnly, PostClean, Stale, Doomed
<1> QED BY <1>6, <1>9, <1>10, <1>11 DEF IInv

(* A step that moves g inside its call or ends it, removes or expires      *)
(* entries, and neither changes what a fetch would answer nor forgets an   *)
(* overlap, keeps all of the invariant that relates them, if it ends no    *)
(* change too early and decides to delete nothing fresh.                   *)
LEMMA DecideKeeps ==
  ASSUME IInv, NEW g \in Goroutines, TypeOK', Consistent', Doomed', Others(g),
         told' = told, remote' = remote, overlapped \subseteq overlapped',
         \A e \in store' : e \in store \/ (e.life = "expired" /\ e.key \in Keys),
         \/ /\ task'[g].op = task[g].op /\ task'[g].key = task[g].key
            /\ task'[g].value = task[g].value
            /\ task'[g].pc = "post" => task[g].pc = "post"
            /\ task'[g].pc \in {"announce", "lock", "locked"} =>
                 \/ task[g].op \notin Fetches
                 \/ task[g].pc \in {"announce", "lock", "locked"}
         \/ /\ task'[g].op \notin Fetches \cup Changes
            /\ task'[g].pc # "post"
            /\ task[g].op \in Changes => task[g].key \in overlapped'
  PROVE  IInv'
<1>2. PlainOnly'
  BY DEF IInv, PlainOnly
<1>3. Overlaps'
  BY DEF IInv, Overlaps, Others
<1>4. FetchedStale'
  <2> SUFFICES ASSUME NEW h \in Goroutines, task'[h].op \in Fetches,
                      task'[h].pc \in {"announce", "lock", "locked"},
                      task'[h].value < told[task'[h].key]
               PROVE  task'[h].key \in overlapped
    BY DEF FetchedStale
  <2>1. /\ task[h].op \in Fetches /\ task[h].pc \in {"announce", "lock", "locked"}
        /\ task[h].value = task'[h].value /\ task[h].key = task'[h].key
    BY DEF Others
  <2> QED BY <2>1 DEF IInv, FetchedStale
<1>5. PostClean'
  BY DEF IInv, PostClean, Others
<1>6. Stale'
  <2> SUFFICES ASSUME NEW e \in store, e.life = "fresh", e.value < told[e.key]
               PROVE  \/ e.key \in overlapped'
                      \/ \E h \in Goroutines : task'[h].op \in Changes /\ task'[h].key = e.key
    BY DEF Stale
  <2>1. CASE e.key \in overlapped
    BY <2>1
  <2>2. ASSUME NEW h \in Goroutines, task[h].op \in Changes, task[h].key = e.key
        PROVE  e.key \in overlapped' \/ (task'[h].op \in Changes /\ task'[h].key = e.key)
    BY <2>2 DEF Others
  <2> QED BY <2>1, <2>2 DEF IInv, Stale
<1> QED BY <1>2, <1>3, <1>4, <1>5, <1>6 DEF IInv

LEMMA MoveKeeps ==
  ASSUME IInv, NEW g \in Goroutines, TypeOK', Consistent', Others(g),
         UNCHANGED <<remote, told, store>>, overlapped \subseteq overlapped',
         \/ /\ task'[g].op = task[g].op /\ task'[g].key = task[g].key
            /\ task'[g].value = task[g].value
            /\ task'[g].doomed = task[g].doomed /\ task'[g].renewed = task[g].renewed
            /\ task'[g].pc # "post"
            /\ task'[g].pc \in {"announce", "lock", "locked"} =>
                 \/ task[g].op \notin Fetches
                 \/ task[g].pc \in {"announce", "lock", "locked"}
         \/ /\ task'[g].pc = "idle" /\ task'[g].op = "delete" /\ task'[g].doomed = {}
            /\ task[g].op \in Changes => task[g].key \in overlapped'
  PROVE  IInv'
<1>1. Doomed'
  BY DEF IInv, Doomed, Others
<1>2. "delete" \notin Fetches \cup Changes
  BY DEF Fetches, Changes
<1> QED BY <1>1, <1>2, DecideKeeps

(* The steps that only take or release mu, and those that end a call that *)
(* changes nothing.                                                        *)
LEMMA MoveSteps ==
  ASSUME IInv, NEW g \in Goroutines,
         \/ RLock(g) \/ Announce(g) \/ Lock(g) \/ ReadHit(g) \/ ReadMiss(g)
         \/ Reopen(g) \/ Panic(g)
  PROVE  IInv'
<1>0. TypeOK /\ Consistent
  BY DEF IInv
<1>1. CASE RLock(g)
  <2>1. Goto(g, "view") /\ "view" \in Steps /\ At(g, "rlock")
    BY <1>1 DEF RLock, Steps
  <2>2. TypeOK'
    BY <1>0, <1>1, <2>1, GotoFacts DEF RLock, TypeOK
  <2>3. Consistent'
    BY <1>0, <2>1, GotoFacts DEF Consistent, Others, At
  <2> QED BY <1>0, <1>1, <2>1, <2>2, <2>3, GotoFacts, MoveKeeps DEF RLock
<1>2. CASE Announce(g)
  <2>1. Goto(g, "lock") /\ "lock" \in Steps /\ At(g, "announce")
    BY <1>2 DEF Announce, Steps
  <2>2. TypeOK'
    BY <1>0, <1>2, <2>1, GotoFacts DEF Announce, TypeOK
  <2>3. Consistent'
    BY <1>0, <2>1, GotoFacts DEF Consistent, Others, At
  <2> QED BY <1>0, <1>2, <2>1, <2>2, <2>3, GotoFacts, MoveKeeps DEF Announce, At
<1>3. CASE Lock(g)
  <2>1. Goto(g, "locked") /\ "locked" \in Steps /\ At(g, "lock")
    BY <1>3 DEF Lock, Steps
  <2>2. TypeOK'
    BY <1>0, <1>3, <2>1, GotoFacts DEF Lock, TypeOK
  <2>3. Consistent'
    BY <1>0, <2>1, GotoFacts DEF Consistent, Others, At
  <2> QED BY <1>0, <1>3, <2>1, <2>2, <2>3, GotoFacts, MoveKeeps DEF Lock, At
<1>4. CASE ReadHit(g)
  <2>1. Return(g) /\ At(g, "view")
    BY <1>4 DEF ReadHit
  <2>2. TypeOK'
    BY <1>0, <1>4, <2>1, ReturnFacts DEF ReadHit, RUnlock, TypeOK
  <2>3. Consistent'
    BY <1>0, <2>1, ReturnFacts DEF Consistent, Others, Fetches, Changes
  <2>4. task[g].op \notin Changes
    BY <1>0, <2>1 DEF Consistent, At, Changes
  <2> QED BY <1>0, <1>4, <2>1, <2>2, <2>3, <2>4, ReturnFacts, MoveKeeps DEF ReadHit
<1>5. CASE ReadMiss(g) /\ Op(g) = "fetchthrough"
  <2>1. Goto(g, "fetch") /\ "fetch" \in Steps
    BY <1>5 DEF ReadMiss, Steps
  <2>2. TypeOK'
    BY <1>0, <1>5, <2>1, GotoFacts DEF ReadMiss, RUnlock, TypeOK
  <2>3. Consistent'
    BY <1>0, <1>5, <2>1, GotoFacts DEF Consistent, Others, Op, Fetches
  <2> QED BY <1>0, <1>5, <2>1, <2>2, <2>3, GotoFacts, MoveKeeps DEF ReadMiss
<1>6. CASE ReadMiss(g) /\ Op(g) # "fetchthrough"
  <2>1. Return(g) /\ At(g, "view")
    BY <1>6 DEF ReadMiss
  <2>2. TypeOK'
    BY <1>0, <1>6, <2>1, ReturnFacts DEF ReadMiss, RUnlock, TypeOK
  <2>3. Consistent'
    BY <1>0, <2>1, ReturnFacts DEF Consistent, Others, Fetches, Changes
  <2>4. task[g].op \notin Changes
    BY <1>0, <2>1 DEF Consistent, At, Changes
  <2> QED BY <1>0, <1>6, <2>1, <2>2, <2>3, <2>4, ReturnFacts, MoveKeeps DEF ReadMiss
<1>7. CASE Reopen(g)
  <2>1. Return(g) /\ At(g, "reopen")
    BY <1>7 DEF Reopen
  <2>2. TypeOK'
    BY <1>0, <1>7, <2>1, ReturnFacts DEF Reopen, Unlock, TypeOK
  <2>3. Consistent'
    BY <1>0, <2>1, ReturnFacts DEF Consistent, Others, Fetches, Changes
  <2>4. task[g].op \notin Changes
    BY <1>0, <2>1 DEF Consistent, At, Changes
  <2> QED BY <1>0, <1>7, <2>1, <2>2, <2>3, <2>4, ReturnFacts, MoveKeeps DEF Reopen
<1>8. CASE Panic(g)
  <2>1. Return(g)
    BY <1>8 DEF Panic
  <2>2. overlapped' \subseteq Keys /\ overlapped \subseteq overlapped'
    BY <1>0, <1>8 DEF Panic, TypeOK, Consistent, Op, Key, Changes
  <2>3. TypeOK'
    BY <1>0, <1>8, <2>1, <2>2, ReturnFacts DEF Panic, TypeOK
  <2>4. Consistent'
    BY <1>0, <2>1, ReturnFacts DEF Consistent, Others, Fetches, Changes
  <2>5. task[g].op \in Changes => task[g].key \in overlapped'
    BY <1>8 DEF Panic, Changes, Op, Key
  <2> QED BY <1>0, <1>8, <2>1, <2>2, <2>3, <2>4, <2>5, ReturnFacts, MoveKeeps DEF Panic
<1> QED BY <1>1, <1>2, <1>3, <1>4, <1>5, <1>6, <1>7, <1>8 DEF ReadMiss

(* A call begins: it holds nothing yet, and an overlap with a call that is *)
(* under way has been seen.                                                *)
LEMMA CallSteps ==
  ASSUME IInv, NEW g \in Goroutines,
         Read(g) \/ Set(g) \/ Save(g) \/ Change(g) \/ Precede(g) \/ Compress(g)
  PROVE  IInv'
<1>0. TypeOK /\ Consistent
  BY DEF IInv
<1>1. PICK o \in Ops, k \in Keys \cup PlainKeys \cup {None}, s \in Steps :
        /\ Call(g, o, k, s)
        /\ o \in Fetches \cup Changes \cup {"cached"} => k \in Keys
        /\ o = "save" => k \in PlainKeys
        /\ o # "delete"
        /\ s \in {"rlock", "fetch", "announce"}
        /\ s = "rlock" => o \in {"cached", "fetchthrough"}
        /\ s = "fetch" => o \in Fetches
        /\ s = "announce" => o \notin Fetches
        /\ \/ UNCHANGED <<remote, told>>
           \/ /\ o = "change" /\ remote[k] < MaxChanges /\ remote' = [remote EXCEPT ![k] = @ + 1]
              /\ told' = [told EXCEPT ![k] = remote[k] + 1]
  BY DEF Read, Set, Save, Change, Precede, Compress, Fetches, Changes, Ops, Steps
<1>2. Called(o, k, s) \in Task
  BY CalledType
<1>3. /\ g \in Tasks /\ task[g].pc = "idle"
      /\ task' = [task EXCEPT ![g] = Called(o, k, s)]
      /\ UNCHANGED <<store, db, lock, dead>>
  BY <1>1 DEF Call, At
<1>4. /\ task' \in [Goroutines -> Task] /\ Others(g)
      /\ task'[g].pc = s /\ task'[g].op = o /\ task'[g].key = k /\ task'[g].doomed = {}
  BY <1>0, <1>2, <1>3 DEF TypeOK, Others, Called
<1>5. {remote', told'} \subseteq [Keys -> 0 .. MaxChanges] /\ \A j \in Keys : told'[j] <= remote'[j]
  <2>1. CASE UNCHANGED <<remote, told>>
    BY <1>0, <2>1 DEF TypeOK
  <2>2. CASE /\ k \in Keys /\ remote[k] < MaxChanges /\ remote' = [remote EXCEPT ![k] = @ + 1]
             /\ told' = [told EXCEPT ![k] = remote[k] + 1]
    BY <1>0, <2>2, BoundAssumption DEF TypeOK
  <2> QED BY <1>1, <2>1, <2>2 DEF Changes
<1>6. overlapped' \subseteq Keys /\ overlapped \subseteq overlapped'
  BY <1>0, <1>1 DEF Call, TypeOK, Fetches, Changes
<1>7. TypeOK'
  BY <1>0, <1>3, <1>4, <1>5, <1>6 DEF TypeOK, lock
<1>8. Consistent'
  BY <1>0, <1>1, <1>3, <1>4 DEF Consistent, Others
<1>9. /\ o \in Fetches => \A h \in Goroutines :
            task[h].op \in Changes /\ task[h].key = k => k \in overlapped'
      /\ o \in Changes => \A h \in Goroutines :
            task[h].op \in Fetches /\ task[h].key = k => k \in overlapped'
  BY <1>0, <1>1 DEF Call, Consistent, Fetching, Changing, Key, Op, Fetches, Changes
<1>10. Overlaps'
  <2> SUFFICES ASSUME NEW a \in Goroutines, NEW b \in Goroutines,
                      task'[a].op \in Fetches, task'[b].op \in Changes,
                      task'[a].key = task'[b].key
               PROVE  task'[a].key \in overlapped'
    BY DEF Overlaps
  <2>1. CASE a = g
    BY <2>1, <1>4, <1>9 DEF Others, Fetches, Changes
  <2>2. CASE a # g /\ b = g
    BY <2>2, <1>4, <1>9 DEF Others
  <2>3. CASE a # g /\ b # g
    BY <2>3, <1>4, <1>6 DEF Others, IInv, Overlaps
  <2> QED BY <2>1, <2>2, <2>3
<1>11. \A j \in Keys : told'[j] = told[j] \/ (o = "change" /\ j = k)
  BY <1>0, <1>1 DEF TypeOK
<1>12. FetchedStale'
  <2> SUFFICES ASSUME NEW h \in Goroutines, task'[h].op \in Fetches,
                      task'[h].pc \in {"announce", "lock", "locked"},
                      task'[h].value < told'[task'[h].key]
               PROVE  task'[h].key \in overlapped'
    BY DEF FetchedStale
  <2>1. h # g /\ task'[h] = task[h]
    BY <1>1, <1>4 DEF Others
  <2>2. task[h].key \in Keys
    BY <1>0, <2>1 DEF Consistent
  <2>3. CASE told'[task[h].key] = told[task[h].key]
    BY <1>6, <2>1, <2>3 DEF IInv, FetchedStale
  <2>4. CASE o = "change" /\ task[h].key = k
    BY <1>9, <2>1, <2>4 DEF Changes
  <2> QED BY <1>11, <2>2, <2>3, <2>4
<1>13. PlainOnly'
  BY <1>3 DEF IInv, PlainOnly
<1>14. PostClean'
  BY <1>1, <1>3, <1>4, <1>6 DEF IInv, PostClean, Others
<1>15. Doomed'
  BY <1>3, <1>4 DEF IInv, Doomed, Others
<1>16. Stale'
  <2> SUFFICES ASSUME NEW e \in store, e.life = "fresh", e.value < told'[e.key]
               PROVE  \/ e.key \in overlapped'
                      \/ \E h \in Goroutines : task'[h].op \in Changes /\ task'[h].key = e.key
    BY <1>3 DEF Stale
  <2>1. e.key \in Keys
    BY DEF IInv, PlainOnly
  <2>2. CASE told'[e.key] = told[e.key] /\ e.key \in overlapped
    BY <1>6, <2>2
  <2>3. CASE told'[e.key] = told[e.key] /\ e.key \notin overlapped
    <3>1. PICK h \in Goroutines : task[h].op \in Changes /\ task[h].key = e.key
      BY <2>3 DEF IInv, Stale
    <3>2. h # g
      BY <1>3, <3>1, <1>0 DEF Consistent, Changes
    <3> QED BY <3>1, <3>2, <1>4 DEF Others
  <2>4. CASE o = "change" /\ e.key = k
    BY <1>4, <2>4 DEF Changes
  <2> QED BY <1>11, <2>1, <2>2, <2>3, <2>4
<1> QED BY <1>7, <1>8, <1>10, <1>12, <1>13, <1>14, <1>15, <1>16 DEF IInv

(* The steps that decide to delete: each has seen an expired entry, and a  *)
(* key has no other.                                                       *)
LEMMA DecideSteps ==
  ASSUME IInv, NEW g \in Goroutines, StoreExpired(g) \/ CachedExpired(g) \/ Collect(g)
  PROVE  IInv'
<1>0. TypeOK /\ Consistent
  BY DEF IInv
<1>1. ASSUME NEW s \in {"spawn", "announce"}, ExpiredHit(g),
             At(g, "view"), task' = [task EXCEPT ![g].pc = s, ![g].doomed = {Key(g)}],
             UNCHANGED <<remote, told, store, db, dead, overlapped, pending, writer>>,
             readers' \subseteq readers,
             s = "spawn" => Op(g) = "fetchthrough", s = "announce" => Op(g) = "cached"
      PROVE  IInv'
  <2> DEFINE r == [task[g] EXCEPT !.pc = s, !.doomed = {task[g].key}]
  <2>a. task[g] \in Task /\ task[g].key \in Keys /\ s \in Steps
    BY <1>0, <1>1 DEF TypeOK, Consistent, At, Op, Fetches, Changes, Steps
  <2>b. /\ r \in Task /\ r.pc = s /\ r.op = task[g].op /\ r.key = task[g].key
        /\ r.value = task[g].value /\ r.doomed = {task[g].key} /\ r.renewed = task[g].renewed
    BY <2>a DEF Task
  <2>c. task' = [task EXCEPT ![g] = r]
    BY <1>0, <1>1 DEF TypeOK, Key
  <2>1. /\ task' \in [Goroutines -> Task] /\ Others(g)
        /\ task'[g].pc = s /\ task'[g].op = task[g].op /\ task'[g].key = task[g].key
        /\ task'[g].value = task[g].value
        /\ task'[g].doomed = {task[g].key} /\ task'[g].renewed = task[g].renewed
    BY <1>0, <2>b, <2>c DEF TypeOK, Others
  <2>2. TypeOK'
    BY <1>0, <1>1, <2>1 DEF TypeOK
  <2>3. Consistent'
    BY <1>0, <1>1, <2>1 DEF Consistent, Others, Op, At
  <2>4. PICK x \in store : x.key = task[g].key /\ x.life = "expired"
    BY <1>1 DEF ExpiredHit, EntriesOf, Key
  <2>5. \A e \in store : e.key = task[g].key => e.life = "expired"
    BY <1>0, <2>4 DEF TypeOK
  <2>6. Doomed'
    BY <1>1, <2>1, <2>5 DEF IInv, Doomed, Others
  <2>7. s = "announce" => task[g].op \notin Fetches
    BY <1>1 DEF Op, Fetches
  <2> QED BY <1>1, <2>1, <2>2, <2>3, <2>6, <2>7, DecideKeeps
<1>2. CASE StoreExpired(g)
  BY <1>1, <1>2 DEF StoreExpired, RUnlock
<1>3. CASE CachedExpired(g)
  BY <1>1, <1>3 DEF CachedExpired, lock
<1>4. CASE Collect(g)
  <2> DEFINE ks == {e.key : e \in Invalid}
  <2>1. ks \subseteq Keys \cup PlainKeys
    BY <1>0 DEF Invalid, TypeOK, Entry
  <2>2. task' = [task EXCEPT ![g] = [Called("cleanup", None, "batch") EXCEPT !.doomed = ks]]
    BY <1>4 DEF Collect
  <2>3. Called("cleanup", None, "batch") \in Task
    BY CalledType DEF Ops, Steps
  <2>4. /\ task' \in [Goroutines -> Task] /\ Others(g)
        /\ task'[g].pc = "batch" /\ task'[g].op = "cleanup" /\ task'[g].doomed = ks
    BY <1>0, <2>1, <2>2, <2>3 DEF TypeOK, Others, Called, Task
  <2>5. TypeOK'
    BY <1>0, <1>4, <2>4 DEF Collect, lock, TypeOK
  <2>6. g \in Tasks /\ task[g].op = "delete"
    BY <1>0, <1>4 DEF Collect, At, Consistent
  <2>7. Consistent'
    BY <1>0, <2>4, <2>6 DEF Consistent, Others, Fetches, Changes
  <2>8. \A e \in store : e.key \in ks => e.life # "fresh"
    BY <1>0 DEF Invalid, TypeOK
  <2>9. Doomed'
    BY <1>4, <2>4, <2>8 DEF Collect, IInv, Doomed, Others
  <2>10. "cleanup" \notin Fetches \cup Changes /\ task[g].op \notin Changes
    BY <2>6 DEF Fetches, Changes
  <2> QED BY <1>4, <2>4, <2>5, <2>7, <2>9, <2>10, DecideKeeps DEF Collect
<1> QED BY <1>2, <1>3, <1>4

(* Entries go, or the process dies: Clear, BatchDelete and CollectPanic. *)
LEMMA RemoveSteps ==
  ASSUME IInv, NEW g \in Goroutines, Clear(g) \/ BatchDelete(g) \/ CollectPanic(g)
  PROVE  IInv'
<1>0. TypeOK /\ Consistent
  BY DEF IInv
<1>1. ASSUME UNCHANGED <<remote, told, task, overlapped>>, TypeOK',
             \A e \in store' : e \in store \/ (e.life = "expired" /\ e.key \in Keys)
      PROVE  IInv'
  <2>1. Consistent' /\ Others(g)
    BY <1>0, <1>1 DEF Consistent, Others
  <2>2. Doomed'
    BY <1>1 DEF IInv, Doomed
  <2> QED BY <1>1, <2>1, <2>2, DecideKeeps
<1>2. CASE Clear(g)
  BY <1>0, <1>1, <1>2 DEF Clear, TypeOK, lock
<1>3. CASE BatchDelete(g)
  <2>1. Return(g) /\ At(g, "batch") /\ store' \subseteq store
    BY <1>3 DEF BatchDelete
  <2>2. TypeOK'
    BY <1>0, <1>3, <2>1, ReturnFacts DEF BatchDelete, lock, TypeOK
  <2>3. Consistent'
    BY <1>0, <2>1, ReturnFacts DEF Consistent, Others, Fetches, Changes
  <2>4. task[g].op \notin Changes /\ "delete" \notin Fetches \cup Changes
    BY <1>0, <2>1 DEF Consistent, At, Changes, Fetches
  <2>5. Doomed'
    BY <1>0, <2>1, ReturnFacts DEF IInv, Doomed, Others
  <2> QED BY <1>0, <1>3, <2>1, <2>2, <2>3, <2>4, <2>5, ReturnFacts, DecideKeeps DEF BatchDelete
<1>4. CASE CollectPanic(g)
  BY <1>0, <1>1, <1>4 DEF CollectPanic, TypeOK, lock
<1> QED BY <1>2, <1>3, <1>4

(* Compress closes bolt: a cleanup that has collected deletes nothing. *)
LEMMA CloseStep ==
  ASSUME IInv, NEW g \in Goroutines, CloseBolt(g)
  PROVE  IInv'
<1>0. TypeOK /\ Consistent
  BY DEF IInv
<1>1. /\ task[g].op = "compress"
      /\ UNCHANGED <<remote, told, store, lock, dead, overlapped>> /\ db' = "closed"
  BY DEF CloseBolt, Op
<1>2. \A q \in Goroutines :
        /\ task'[q] \in Task /\ task'[q].op = task[q].op /\ task'[q].key = task[q].key
        /\ task'[q].value = task[q].value /\ task'[q].renewed = task[q].renewed
        /\ task'[q].doomed \subseteq task[q].doomed
        /\ task'[q].pc = IF q = g THEN "reopen" ELSE task[q].pc
  <2> SUFFICES ASSUME NEW q \in Goroutines
               PROVE  /\ task'[q] \in Task /\ task'[q].op = task[q].op
                      /\ task'[q].key = task[q].key
                      /\ task'[q].value = task[q].value /\ task'[q].renewed = task[q].renewed
                      /\ task'[q].doomed \subseteq task[q].doomed
                      /\ task'[q].pc = IF q = g THEN "reopen" ELSE task[q].pc
    OBVIOUS
  <2>1. task[q] \in Task
    BY <1>0 DEF TypeOK
  <2>2. CASE q = g
    <3>1. task'[q] = [task[q] EXCEPT !.pc = "reopen"]
      BY <2>2 DEF CloseBolt
    <3> QED BY <2>1, <2>2, <3>1 DEF Task, Steps
  <2>3. CASE q # g /\ task[q].pc = "batch"
    <3>1. task'[q] = [task[q] EXCEPT !.doomed = {}]
      BY <2>3 DEF CloseBolt, At
    <3> QED BY <2>1, <2>3, <3>1 DEF Task
  <2>4. CASE q # g /\ task[q].pc # "batch"
    <3>1. task'[q] = task[q]
      BY <2>4 DEF CloseBolt, At
    <3> QED BY <2>1, <2>4, <3>1
  <2> QED BY <2>2, <2>3, <2>4
<1>3. task' \in [Goroutines -> Task]
  <2>1. task' = [q \in Goroutines |-> task'[q]]
    BY DEF CloseBolt
  <2> QED BY <1>2, <2>1
<1>4. TypeOK'
  BY <1>0, <1>1, <1>3 DEF TypeOK, lock
<1>5. Consistent'
  BY <1>0, <1>1, <1>2 DEF Consistent
<1>6. PlainOnly' /\ Overlaps'
  BY <1>1, <1>2 DEF IInv, PlainOnly, Overlaps
<1>7. FetchedStale'
  BY <1>1, <1>2 DEF IInv, FetchedStale
<1>8. PostClean' /\ Doomed'
  BY <1>1, <1>2 DEF IInv, PostClean, Doomed
<1>9. Stale'
  BY <1>1, <1>2 DEF IInv, Stale
<1> QED BY <1>4, <1>5, <1>6, <1>7, <1>8, <1>9 DEF IInv

(* An entry that expires is no longer one that could be served. *)
LEMMA ExpireStep ==
  ASSUME IInv, Expire
  PROVE  IInv'
<1>0. TypeOK
  BY DEF IInv
<1>1. PICK e \in store : e.life = "fresh" /\ store' = Put([e EXCEPT !.life = "expired"])
  BY DEF Expire
<1>2. UNCHANGED <<remote, told, db, lock, task, dead, overlapped>>
  BY DEF Expire
<1> DEFINE x == [e EXCEPT !.life = "expired"]
<1>3. e \in Entry /\ x \in Entry /\ x.key = e.key /\ x.life = "expired"
  BY <1>0 DEF TypeOK, Entry, Lives
<1>4. e.key \in Keys
  BY <1>1 DEF IInv, PlainOnly
<1>5. \A f \in store' : f = x \/ (f \in store /\ f.key # e.key)
  BY <1>1, <1>3 DEF Put, EntriesOf
<1>6. TypeOK'
  BY <1>0, <1>2, <1>3, <1>5 DEF TypeOK, lock
<1> HIDE DEF x
<1>7. PlainOnly'
  BY <1>3, <1>4, <1>5 DEF IInv, PlainOnly
<1>8. Consistent' /\ Overlaps' /\ FetchedStale'
  BY <1>2 DEF IInv, Consistent, Overlaps, FetchedStale
<1>9. \A f \in store' : f.life = "fresh" => f \in store
  BY <1>3, <1>5
<1>10. PostClean'
  BY <1>2, <1>9 DEF IInv, PostClean
<1>11. Stale'
  BY <1>2, <1>9 DEF IInv, Stale
<1>12. Doomed'
  BY <1>2, <1>9 DEF IInv, Doomed
<1> QED BY <1>6, <1>7, <1>8, <1>10, <1>11, <1>12 DEF IInv

(* The request of SetMultipleWatched: what it makes stale was overlapped. *)
LEMMA PostStep ==
  ASSUME IInv, NEW g \in Goroutines, Post(g)
  PROVE  IInv'
<1>0. TypeOK /\ Consistent
  BY DEF IInv
<1> DEFINE k == task[g].key
<1>1. /\ Return(g) /\ task[g].pc = "post" /\ task[g].op = "precede" /\ k \in Keys
      /\ UNCHANGED <<store, db, lock, dead, overlapped>>
  BY <1>0 DEF Post, At, Consistent, Changes
<1>2. /\ {remote', told'} \subseteq [Keys -> 0 .. MaxChanges] /\ \A j \in Keys : told'[j] <= remote'[j]
      /\ \A j \in Keys : j # k => told'[j] = told[j]
  <2>1. remote[k] \in 0 .. MaxChanges
    BY <1>0, <1>1 DEF TypeOK
  <2> DEFINE v == IF remote[k] < MaxChanges THEN remote[k] + 1 ELSE remote[k]
  <2>2. v \in 0 .. MaxChanges
    BY <2>1, BoundAssumption
  <2>3. remote' = [remote EXCEPT ![k] = v] /\ remote'[k] = v
    BY <1>0, <1>1 DEF Post, TypeOK, Key
  <2>4. told' = [told EXCEPT ![k] = v]
    BY <2>3 DEF Post, Key
  <2> QED BY <1>0, <1>1, <2>2, <2>3, <2>4, BoundAssumption DEF TypeOK
<1>3. TypeOK'
  BY <1>0, <1>1, <1>2, ReturnFacts DEF TypeOK, lock
<1>4. Consistent'
  BY <1>0, <1>1, ReturnFacts DEF Consistent, Others, Fetches, Changes
<1>5. Overlaps' /\ PostClean' /\ Doomed' /\ PlainOnly'
  <2>1. Overlaps'
    BY <1>0, <1>1, ReturnFacts DEF IInv, Overlaps, Others, Fetches, Changes
  <2>2. PostClean'
    BY <1>0, <1>1, ReturnFacts DEF IInv, PostClean, Others
  <2>3. Doomed' /\ PlainOnly'
    BY <1>0, <1>1, ReturnFacts DEF IInv, Doomed, PlainOnly, Others
  <2> QED BY <2>1, <2>2, <2>3
<1>6. FetchedStale'
  <2> SUFFICES ASSUME NEW h \in Goroutines, task'[h].op \in Fetches,
                      task'[h].pc \in {"announce", "lock", "locked"},
                      task'[h].value < told'[task'[h].key]
               PROVE  task'[h].key \in overlapped
    BY <1>1 DEF FetchedStale
  <2>1. h # g /\ task'[h] = task[h]
    BY <1>0, <1>1, ReturnFacts DEF Others, Fetches
  <2>2. task[h].key \in Keys
    BY <1>0, <2>1 DEF Consistent
  <2>3. CASE task[h].key = k
    BY <1>1, <2>1, <2>3 DEF IInv, Overlaps, Changes
  <2>4. CASE task[h].key # k
    BY <1>2, <2>1, <2>2, <2>4 DEF IInv, FetchedStale
  <2> QED BY <2>3, <2>4
<1>7. Stale'
  <2> SUFFICES ASSUME NEW e \in store, e.life = "fresh", e.value < told'[e.key]
               PROVE  \/ e.key \in overlapped
                      \/ \E h \in Goroutines : task'[h].op \in Changes /\ task'[h].key = e.key
    BY <1>1 DEF Stale
  <2>1. e.key \in Keys
    BY DEF IInv, PlainOnly
  <2>2. CASE e.key = k
    BY <1>1, <2>2 DEF IInv, PostClean
  <2>3. CASE e.key # k /\ e.key \notin overlapped
    <3>1. PICK h \in Goroutines : task[h].op \in Changes /\ task[h].key = e.key
      BY <1>2, <2>1, <2>3 DEF IInv, Stale
    <3> QED BY <1>0, <1>1, <2>3, <3>1, ReturnFacts DEF Others
  <2> QED BY <2>2, <2>3
<1> QED BY <1>3, <1>4, <1>5, <1>6, <1>7 DEF IInv

(* A change that deletes no key makes nothing stale that a handler was to *)
(* delete.                                                                 *)
LEMMA SyncStep ==
  ASSUME IInv, SyncItem
  PROVE  IInv'
<1>0. TypeOK
  BY DEF IInv
<1>1. UNCHANGED <<told, store, db, lock, task, dead, overlapped>>
  BY DEF SyncItem
<1>2. TypeOK'
  <2>1. PICK k \in Keys : remote[k] < MaxChanges /\ remote' = [remote EXCEPT ![k] = @ + 1]
    BY DEF SyncItem
  <2>2. remote' \in [Keys -> 0 .. MaxChanges] /\ \A j \in Keys : told[j] <= remote'[j]
    BY <1>0, <2>1, BoundAssumption DEF TypeOK
  <2> QED BY <1>0, <1>1, <2>2 DEF TypeOK, lock
<1>3. Consistent' /\ PlainOnly' /\ Overlaps' /\ FetchedStale'
  BY <1>1 DEF IInv, Consistent, PlainOnly, Overlaps, FetchedStale
<1>4. PostClean' /\ Stale' /\ Doomed'
  BY <1>1 DEF IInv, PostClean, Stale, Doomed
<1> QED BY <1>2, <1>3, <1>4 DEF IInv

(* DBStore.Get hands its decision over to the goroutine it starts. *)
LEMMA SpawnStep ==
  ASSUME IInv, NEW g \in Goroutines, NEW d \in Deleters, Spawn(g, d)
  PROVE  IInv'
<1>0. TypeOK /\ Consistent /\ d \in Goroutines
  BY DEF IInv, Goroutines
<1> DEFINE c == Called("fetchthrough", task[g].key, "fetch")
           r == [task[g] EXCEPT !.op = "delete", !.pc = "announce"]
<1>1. /\ task[g].pc = "spawn" /\ task[g].op = "fetchthrough" /\ task[g].key \in Keys /\ g \in Tasks
      /\ task[d].pc = "idle" /\ task[d].op = "delete" /\ g # d
      /\ task' = [task EXCEPT ![g] = c, ![d] = r]
      /\ UNCHANGED <<remote, told, store, db, lock, dead, overlapped>>
  BY <1>0 DEF Spawn, At, Key, Consistent, Fetches, Changes
<1>2. /\ c \in Task /\ c.op = "fetchthrough" /\ c.pc = "fetch" /\ c.key = task[g].key /\ c.doomed = {}
  BY <1>1, CalledType DEF Called, Ops, Steps
<1>3. /\ r \in Task /\ r.op = "delete" /\ r.pc = "announce" /\ r.key = task[g].key
      /\ r.doomed = task[g].doomed /\ r.renewed = task[g].renewed
  <2>1. task[g] \in Task /\ "delete" \in Ops /\ "announce" \in Steps
    BY <1>0 DEF TypeOK, Ops, Steps
  <2> QED BY <2>1 DEF Task
<1>4. /\ task' \in [Goroutines -> Task] /\ task'[g] = c /\ task'[d] = r
      /\ \A h \in Goroutines : h # g /\ h # d => task'[h] = task[h]
  BY <1>0, <1>1, <1>2, <1>3 DEF TypeOK
<1> HIDE DEF c, r
<1>5. TypeOK'
  BY <1>0, <1>1, <1>4 DEF TypeOK, lock
<1>6. Consistent'
  BY <1>0, <1>1, <1>2, <1>3, <1>4 DEF Consistent, Fetches, Changes
<1>7. Overlaps'
  BY <1>0, <1>1, <1>2, <1>3, <1>4 DEF IInv, Overlaps, Fetches, Changes
<1>8. FetchedStale'
  <2> SUFFICES ASSUME NEW h \in Goroutines, task'[h].op \in Fetches,
                      task'[h].pc \in {"announce", "lock", "locked"},
                      task'[h].value < told[task'[h].key]
               PROVE  task'[h].key \in overlapped
    BY <1>1 DEF FetchedStale
  <2>1. task'[h] = task[h]
    BY <1>2, <1>3, <1>4 DEF Fetches
  <2> QED BY <2>1 DEF IInv, FetchedStale
<1>9. PostClean' /\ PlainOnly'
  BY <1>1, <1>2, <1>3, <1>4 DEF IInv, PostClean, PlainOnly
<1>10. Doomed'
  BY <1>1, <1>2, <1>3, <1>4 DEF IInv, Doomed
<1>11. \A h \in Goroutines : task[h].op \in Changes =>
         task'[h].op = task[h].op /\ task'[h].key = task[h].key
  BY <1>1, <1>4 DEF Changes
<1>12. Stale'
  <2> SUFFICES ASSUME NEW e \in store, e.life = "fresh", e.value < told[e.key]
               PROVE  \/ e.key \in overlapped
                      \/ \E h \in Goroutines : task'[h].op \in Changes /\ task'[h].key = e.key
    BY <1>1 DEF Stale
  <2>1. \/ e.key \in overlapped
        \/ \E h \in Goroutines : task[h].op \in Changes /\ task[h].key = e.key
    BY DEF IInv, Stale
  <2> QED BY <2>1, <1>11
<1> QED BY <1>5, <1>6, <1>7, <1>8, <1>9, <1>10, <1>12 DEF IInv

(* A fetched value is up to date when it arrives. *)
LEMMA FetchStep ==
  ASSUME IInv, NEW g \in Goroutines, Fetch(g)
  PROVE  IInv'
<1>0. TypeOK /\ Consistent
  BY DEF IInv
<1>1. /\ task[g].op \in Fetches /\ task[g].key \in Keys /\ task[g].pc = "fetch"
      /\ UNCHANGED <<remote, told, store, db, lock, dead, overlapped>>
  BY <1>0 DEF Fetch, At, Consistent
<1>2. CASE Return(g)
  <2>1. TypeOK'
    BY <1>0, <1>1, <1>2, ReturnFacts DEF TypeOK, lock
  <2>2. Consistent'
    BY <1>0, <1>2, ReturnFacts DEF Consistent, Others, Fetches, Changes
  <2>3. task[g].op \notin Changes
    BY <1>1 DEF Fetches, Changes
  <2> QED BY <1>0, <1>1, <1>2, <2>1, <2>2, <2>3, ReturnFacts, MoveKeeps
<1>3. CASE task' = [task EXCEPT ![g].pc = "announce", ![g].value = remote[Key(g)]]
  <2> DEFINE r == [task[g] EXCEPT !.pc = "announce", !.value = remote[task[g].key]]
  <2>1. /\ r \in Task /\ r.pc = "announce" /\ r.op = task[g].op /\ r.key = task[g].key
        /\ r.value = remote[task[g].key]
        /\ r.doomed = task[g].doomed /\ r.renewed = task[g].renewed
    BY <1>0, <1>1 DEF TypeOK, Task, Steps
  <2>2. task' = [task EXCEPT ![g] = r]
    BY <1>0, <1>3 DEF TypeOK, Key
  <2>3. task' \in [Goroutines -> Task] /\ task'[g] = r /\ Others(g)
    BY <1>0, <2>1, <2>2 DEF TypeOK, Others
  <2> HIDE DEF r
  <2>4. TypeOK'
    BY <1>0, <1>1, <2>3 DEF TypeOK, lock
  <2>5. Consistent'
    BY <1>0, <1>1, <2>1, <2>3 DEF Consistent, Others
  <2>6. Overlaps' /\ PlainOnly' /\ PostClean' /\ Doomed'
    BY <1>1, <2>1, <2>3 DEF IInv, Overlaps, PlainOnly, PostClean, Doomed, Others
  <2>7. FetchedStale'
    <3> SUFFICES ASSUME NEW h \in Goroutines, task'[h].op \in Fetches,
                        task'[h].pc \in {"announce", "lock", "locked"},
                        task'[h].value < told[task'[h].key]
                 PROVE  task'[h].key \in overlapped
      BY <1>1 DEF FetchedStale
    <3>1. remote[task[g].key] \in Nat /\ told[task[g].key] \in Nat
          /\ told[task[g].key] <= remote[task[g].key]
      BY <1>0, <1>1, BoundAssumption DEF TypeOK
    <3>2. h # g
      BY <2>1, <2>3, <3>1
    <3> QED BY <2>3, <3>2 DEF IInv, FetchedStale, Others
  <2>8. Stale'
    <3>1. \A h \in Goroutines : task[h].op \in Changes =>
             task'[h].op = task[h].op /\ task'[h].key = task[h].key
      BY <2>1, <2>3 DEF Others
    <3> QED BY <1>1, <3>1 DEF IInv, Stale
  <2> QED BY <2>4, <2>5, <2>6, <2>7, <2>8 DEF IInv
<1> QED BY <1>2, <1>3 DEF Fetch

(* A new entry is up to date, or its fetch was overlapped; who has decided *)
(* to delete its key is told.                                              *)
LEMMA PutStep ==
  ASSUME IInv, NEW g \in Goroutines, PutEntry(g)
  PROVE  IInv'
<1>0. TypeOK /\ Consistent
  BY DEF IInv
<1> DEFINE k == task[g].key
           n == NewEntry(g)
<1>1. /\ task[g].pc = "locked" /\ task[g].op \in {"fetchthrough", "set", "save"}
      /\ k \in Keys \cup PlainKeys /\ (task[g].op # "save" => k \in Keys)
      /\ UNCHANGED <<remote, told, db, dead, overlapped, readers, pending>> /\ writer' = None
  BY <1>0 DEF PutEntry, At, Op, Consistent, Fetches, Unlock
<1>2. /\ n \in Entry /\ n.key = k /\ n.value = task[g].value
      /\ (n.life = "plain" <=> task[g].op = "save") /\ n.life # "expired"
  <2>1. task[g].value \in 0 .. MaxChanges
    BY <1>0 DEF TypeOK, Task
  <2> QED BY <1>1, <2>1 DEF NewEntry, Entry, Lives, Key, Op
<1> HIDE DEF n
<1>3. \A e \in store' : e \in store \/ (db = "open" /\ e = n)
  BY DEF PutEntry, Put, EntriesOf, n
<1>4. \A q \in Goroutines : q # g =>
        /\ task'[q] \in Task /\ task'[q].op = task[q].op /\ task'[q].pc = task[q].pc
        /\ task'[q].key = task[q].key /\ task'[q].value = task[q].value
        /\ task'[q].doomed = task[q].doomed /\ task[q].renewed \subseteq task'[q].renewed
        /\ (db = "open" /\ k \in task[q].doomed => k \in task'[q].renewed)
  <2> SUFFICES ASSUME NEW q \in Goroutines, q # g
               PROVE  /\ task'[q] \in Task /\ task'[q].op = task[q].op /\ task'[q].pc = task[q].pc
                      /\ task'[q].key = task[q].key /\ task'[q].value = task[q].value
                      /\ task'[q].doomed = task[q].doomed /\ task[q].renewed \subseteq task'[q].renewed
                      /\ (db = "open" /\ k \in task[q].doomed => k \in task'[q].renewed)
    OBVIOUS
  <2>1. task[q] \in Task
    BY <1>0 DEF TypeOK
  <2>2. CASE db = "open" /\ task[q].doomed # {}
    <3> DEFINE r == [task[q] EXCEPT !.renewed = @ \cup ({k} \cap task[q].doomed)]
    <3>1. task'[q] = r
      BY <2>2 DEF PutEntry, Key
    <3> QED BY <2>1, <2>2, <3>1 DEF Task
  <2>3. CASE ~(db = "open" /\ task[q].doomed # {})
    <3>1. task'[q] = task[q]
      BY <2>3 DEF PutEntry
    <3> QED BY <2>1, <2>3, <3>1
  <2> QED BY <2>2, <2>3
<1>5. /\ task'[g].pc = "idle" /\ task'[g].op = "delete" /\ task'[g].doomed = {}
      /\ task'[g] \in Task
  <2>1. task'[g] = Idle
    BY DEF PutEntry
  <2>2. Idle \in Task
    BY CalledType DEF Idle, Ops, Steps
  <2> QED BY <2>1, <2>2 DEF Idle, Called
<1>6. task' \in [Goroutines -> Task]
  <2>1. \A q \in Goroutines : task'[q] \in Task
    BY <1>4, <1>5
  <2>2. task' = [q \in Goroutines |-> task'[q]]
    BY DEF PutEntry
  <2> QED BY <2>1, <2>2
<1>7. store' \subseteq Entry /\ \A e, f \in store' : e.key = f.key => e = f
  BY <1>0, <1>2 DEF PutEntry, Put, EntriesOf, TypeOK, n
<1>8. TypeOK'
  BY <1>0, <1>1, <1>6, <1>7 DEF TypeOK
<1>9. Consistent'
  BY <1>0, <1>4, <1>5 DEF Consistent, Fetches, Changes
<1>10. PlainOnly'
  BY <1>1, <1>2, <1>3 DEF IInv, PlainOnly
<1>11. Overlaps'
  BY <1>1, <1>4, <1>5 DEF IInv, Overlaps, Fetches, Changes
<1>12. FetchedStale'
  <2> SUFFICES ASSUME NEW h \in Goroutines, task'[h].op \in Fetches,
                      task'[h].pc \in {"announce", "lock", "locked"},
                      task'[h].value < told[task'[h].key]
               PROVE  task'[h].key \in overlapped
    BY <1>1 DEF FetchedStale
  <2>1. h # g
    BY <1>5 DEF Fetches
  <2> QED BY <1>4, <2>1 DEF IInv, FetchedStale
<1>13. n.life = "fresh" => task[g].op \in Fetches
  BY <1>1, <1>2 DEF Fetches
<1>14. PostClean'
  <2> SUFFICES ASSUME NEW h \in Goroutines, NEW e \in store', task'[h].pc = "post",
                      e.key = task'[h].key, e.life = "fresh"
               PROVE  e.key \in overlapped
    BY <1>1 DEF PostClean
  <2>1. h # g /\ task[h].pc = "post" /\ e.key = task[h].key
    BY <1>4, <1>5
  <2>2. CASE e \in store
    BY <2>1, <2>2 DEF IInv, PostClean
  <2>3. CASE e = n
    BY <1>0, <1>2, <1>13, <2>1, <2>3 DEF IInv, Overlaps, Consistent, Changes
  <2> QED BY <1>3, <2>2, <2>3
<1>15. Doomed'
  <2> SUFFICES ASSUME NEW h \in Goroutines, NEW e \in store',
                      e.key \in task'[h].doomed, e.key \notin task'[h].renewed
               PROVE  e.life # "fresh"
    BY DEF Doomed
  <2>1. h # g
    BY <1>5
  <2>2. e \in store
    BY <1>2, <1>3, <1>4, <2>1
  <2> QED BY <1>4, <2>1, <2>2 DEF IInv, Doomed
<1>16. Stale'
  <2> SUFFICES ASSUME NEW e \in store', e.life = "fresh", e.value < told[e.key]
               PROVE  \/ e.key \in overlapped
                      \/ \E h \in Goroutines : task'[h].op \in Changes /\ task'[h].key = e.key
    BY <1>1 DEF Stale
  <2>1. CASE e = n
    BY <1>1, <1>2, <1>13, <2>1 DEF IInv, FetchedStale
  <2>2. CASE e \in store /\ e.key \notin overlapped
    <3>1. PICK h \in Goroutines : task[h].op \in Changes /\ task[h].key = e.key
      BY <2>2 DEF IInv, Stale
    <3>2. h # g
      BY <1>1, <3>1 DEF Changes
    <3> QED BY <1>4, <3>1, <3>2
  <2> QED BY <1>3, <2>1, <2>2
<1> QED BY <1>8, <1>9, <1>10, <1>11, <1>12, <1>14, <1>15, <1>16 DEF IInv

(* A deletion leaves nothing fresh under its key; when bolt is closed it   *)
(* fails, which counts as an overlap.                                      *)
LEMMA DeleteStep ==
  ASSUME IInv, NEW g \in Goroutines, DeleteEntry(g)
  PROVE  IInv'
<1>0. TypeOK /\ Consistent
  BY DEF IInv
<1> DEFINE k == task[g].key
<1>1. /\ task[g].op \in {"change", "precede", "delete", "cached"} /\ k \in Keys
      /\ task[g].pc = "locked"
      /\ UNCHANGED <<remote, told, db, dead, readers, pending>> /\ writer' = None
  BY <1>0 DEF DeleteEntry, At, Op, Consistent, Fetches, Changes, Unlock
<1>2. /\ store' \subseteq store /\ overlapped \subseteq overlapped' /\ overlapped' \subseteq Keys
      /\ \A e \in store' : e.key = k => k \in overlapped'
  BY <1>0, <1>1 DEF DeleteEntry, EntriesOf, Key, TypeOK
<1>3. \/ Goto(g, "post") /\ task[g].op = "precede"
      \/ Return(g)
  BY DEF DeleteEntry, Op
<1>4. /\ task' \in [Goroutines -> Task] /\ Others(g)
      /\ \/ /\ task'[g].pc = "post" /\ task'[g].op = "precede" /\ task[g].op = "precede"
            /\ task'[g].key = k
            /\ task'[g].doomed = task[g].doomed /\ task'[g].renewed = task[g].renewed
         \/ task'[g].pc = "idle" /\ task'[g].op = "delete" /\ task'[g].doomed = {}
  <2>1. "post" \in Steps
    BY DEF Steps
  <2> QED BY <1>0, <1>3, <2>1, GotoFacts, ReturnFacts
<1>5. TypeOK'
  BY <1>0, <1>1, <1>2, <1>4 DEF TypeOK
<1>6. Consistent'
  BY <1>0, <1>1, <1>4 DEF Consistent, Others, Fetches, Changes
<1>7. PlainOnly'
  BY <1>2 DEF IInv, PlainOnly
<1>8. Overlaps'
  BY <1>2, <1>4 DEF IInv, Overlaps, Others, Fetches, Changes
<1>9. FetchedStale'
  <2> SUFFICES ASSUME NEW h \in Goroutines, task'[h].op \in Fetches,
                      task'[h].pc \in {"announce", "lock", "locked"},
                      task'[h].value < told[task'[h].key]
               PROVE  task'[h].key \in overlapped'
    BY <1>1 DEF FetchedStale
  <2>1. task'[h] = task[h]
    BY <1>4 DEF Others, Fetches
  <2> QED BY <1>2, <2>1 DEF IInv, FetchedStale
<1>10. PostClean'
  <2> SUFFICES ASSUME NEW h \in Goroutines, NEW e \in store', task'[h].pc = "post",
                      e.key = task'[h].key, e.life = "fresh"
               PROVE  e.key \in overlapped'
    BY DEF PostClean
  <2>1. CASE h = g
    BY <1>2, <1>4, <2>1
  <2>2. CASE h # g
    BY <1>2, <1>4, <2>2 DEF Others, IInv, PostClean
  <2> QED BY <2>1, <2>2
<1>11. Doomed'
  BY <1>2, <1>4 DEF IInv, Doomed, Others
<1>12. Stale'
  <2> SUFFICES ASSUME NEW e \in store', e.life = "fresh", e.value < told[e.key],
                      e.key \notin overlapped'
               PROVE  \E h \in Goroutines : task'[h].op \in Changes /\ task'[h].key = e.key
    BY <1>1 DEF Stale
  <2>1. e.key # k
    BY <1>2
  <2>2. PICK h \in Goroutines : task[h].op \in Changes /\ task[h].key = e.key
    BY <1>2 DEF IInv, Stale
  <2> QED BY <1>4, <2>1, <2>2 DEF Others
<1> QED BY <1>5, <1>6, <1>7, <1>8, <1>9, <1>10, <1>11, <1>12 DEF IInv
-----------------------------------------------------------------------------
LEMMA NextIInv == IInv /\ [Next]_vars => IInv'
<1> SUFFICES ASSUME IInv, [Next]_vars PROVE IInv'
  OBVIOUS
<1>1. CASE UNCHANGED vars
  BY <1>1 DEF vars, lock, IInv, TypeOK, Consistent, PlainOnly, Overlaps, FetchedStale, PostClean,
              Stale, Doomed
<1>2. ASSUME NEW g \in Goroutines, Step(g) PROVE IInv'
  BY <1>2, MoveSteps, DecideSteps, RemoveSteps, CloseStep, PostStep, SpawnStep, FetchStep, PutStep, DeleteStep
  DEF Step
<1>3. ASSUME NEW g \in Goroutines, Start(g) PROVE IInv'
  BY <1>3, CallSteps, DecideSteps, RemoveSteps DEF Start
<1>4. CASE Expire
  BY <1>4, ExpireStep
<1>5. CASE SyncItem
  BY <1>5, SyncStep
<1> QED BY <1>1, <1>2, <1>3, <1>4, <1>5 DEF Next

(* The inductive invariant holds in every reachable state. *)
THEOREM InvariantHolds == Spec => []IInv
BY InitIInv, NextIInv, PTL DEF Spec

(* Types, one entry for a key, and mu is held by one writer or by readers. *)
THEOREM CacheTypes == Spec => []TypeOK
<1>1. IInv => TypeOK
  BY DEF IInv
<1> QED BY <1>1, InvariantHolds, PTL

(* Only an entry that has expired, or was set again since, is deleted by a *)
(* cleanup or for an expired key.                                          *)
THEOREM OnlyExpiredDeleted == Spec => []DeletesOnlyExpired
<1>1. IInv => DeletesOnlyExpired
  BY DEF IInv, Doomed, DeletesOnlyExpired, EntriesOf
<1> QED BY <1>1, InvariantHolds, PTL

(* What the cache serves outside of a change is what a fetch would have    *)
(* answered after the last change that deletes its key, or newer, unless a *)
(* fetch overlapped with such a change or the deletion failed, however     *)
(* many changes that delete nothing come in between.                       *)
THEOREM StaleIsOverlapped == Spec => []StaleOnlyByOverlap
<1>1. IInv => StaleOnlyByOverlap
  BY DEF IInv, Stale, StaleOnlyByOverlap, Changing, Key, Op, Changes, Consistent
<1> QED BY <1>1, InvariantHolds, PTL
=============================================================================
