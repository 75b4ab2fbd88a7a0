---------------------------- MODULE RateLimiter -----------------------------
(***************************************************************************)
(* util/ratelimit.go and the way the API clients use it (tmdb.MakeRequest, *)
(* trakt.Get, GetWithAuth, Post..., fanart.Get): goroutines that each make *)
(* one Call, whose function f does an HTTP request and may                 *)
(*   - succeed, or fail for good;                                          *)
(*   - be told 429 and return ErrExceeded, so that Call runs it again, at  *)
(*     most twice, after CoolDown if the response has a Retry-After header;*)
(*   - be told 404, where tmdb calls CoolDown too and gives up;            *)
(*   - be told 403 and, while retriesLeft > 0, call the client's function  *)
(*     again from inside f, so that the new Call is nested in the old one, *)
(*     which keeps its slot of parallelChan until the inner one returns.   *)
(*                                                                         *)
(* Time is discrete.  An instant is represented by its age, capped at      *)
(* Interval, beyond which the code does not tell ages apart, so there is   *)
(* no bound on the clock.                                                  *)
(***************************************************************************)
EXTENDS Integers, Sequences

CONSTANTS
  Calls,        \* the goroutines, one outermost Call each
  Nobody,       \* no holder of mtx
  Limit,        \* r.limit
  Interval,     \* r.interval
  Parallel,     \* capacity of r.parallelChan
  RetryAfter,   \* the sleeps that a Retry-After header may ask for
  Retries,      \* initial value of the client's retriesLeft
  Decrements    \* trakt decrements retriesLeft, fanart does not

ASSUME LimitAssumption ==
  /\ Limit \in Nat \ {0}
  /\ Interval \in Nat \ {0}
  /\ Parallel \in Nat \ {0}
  /\ RetryAfter \subseteq Nat
  /\ Retries \in Nat
  /\ Decrements \in BOOLEAN
  /\ Nobody \notin Calls

VARIABLES
  times,        \* r.times as ages, front first
  granted,      \* history: the age of every successful Try, oldest first
  slots,        \* number of elements in r.parallelChan
  mtx,          \* the call that sleeps in CoolDown with r.mtx locked
  coolDown,     \* r.coolDown
  cooler,       \* calls between coolDown = true and coolDown = false
  retriesLeft,  \* the client's global
  seen,         \* per call: retriesLeft as it read it
  pc,           \* per call: where its innermost Call is
  depth,        \* per call: the slots it holds, one per nested Call
  tries,        \* per call: tries of its innermost Call
  wait,         \* per call: what is left of its time.Sleep
  raced         \* history: two calls were between the check of retriesLeft and its decrement

vars == <<times, granted, slots, mtx, coolDown, cooler, retriesLeft, seen,
          pc, depth, tries, wait, raced>>

Ages == 0 .. Interval

PCs == {"new", "enter", "try", "sleep", "run", "forbidden", "lock", "cooling",
        "force", "cooled", "leave", "done"}

TypeOK ==
  /\ times \in Seq(Ages) /\ Len(times) <= Limit
  /\ granted \in Seq(Ages)
  /\ slots \in Int /\ slots <= Parallel
  /\ mtx \in Calls \cup {Nobody}
  /\ coolDown \in BOOLEAN
  /\ cooler \subseteq Calls
  /\ retriesLeft \in Int
  /\ seen \in [Calls -> Int]
  /\ pc \in [Calls -> PCs]
  /\ depth \in [Calls -> Int]
  /\ tries \in [Calls -> 0 .. 2]
  /\ wait \in [Calls -> Nat]
  /\ raced \in BOOLEAN

Init ==
  /\ times = <<>>
  /\ granted = <<>>
  /\ slots = 0
  /\ mtx = Nobody
  /\ coolDown = FALSE
  /\ cooler = {}
  /\ retriesLeft = Retries
  /\ seen = [g \in Calls |-> 0]
  /\ pc = [g \in Calls |-> "new"]
  /\ depth = [g \in Calls |-> 0]
  /\ tries = [g \in Calls |-> 0]
  /\ wait = [g \in Calls |-> 0]
  /\ raced = FALSE

-----------------------------------------------------------------------------
(* Time passes: recorded instants get older, sleepers have less to sleep. *)
Older(ages) ==
  [i \in DOMAIN ages |-> IF ages[i] < Interval THEN ages[i] + 1 ELSE ages[i]]

Tick ==
  /\ times' = Older(times)
  /\ granted' = Older(granted)
  /\ wait' = [g \in Calls |-> IF wait[g] > 0 THEN wait[g] - 1 ELSE 0]
  /\ UNCHANGED <<slots, mtx, coolDown, cooler, retriesLeft, seen, pc, depth, tries, raced>>

(* A client function calls rl.Call. *)
Start(g) ==
  /\ pc[g] = "new"
  /\ pc' = [pc EXCEPT ![g] = "enter"]
  /\ UNCHANGED <<times, granted, slots, mtx, coolDown, cooler, retriesLeft, seen,
                 depth, tries, wait, raced>>

(* Enter: send to parallelChan, which blocks while it is full. *)
Enter(g) ==
  /\ pc[g] = "enter"
  /\ slots < Parallel
  /\ slots' = slots + 1
  /\ depth' = [depth EXCEPT ![g] = @ + 1]
  /\ tries' = [tries EXCEPT ![g] = 0]
  /\ pc' = [pc EXCEPT ![g] = "try"]
  /\ UNCHANGED <<times, granted, mtx, coolDown, cooler, retriesLeft, seen, wait, raced>>

(* Try with room in r.times, or with its oldest entry old enough. *)
Room == Len(times) < Limit

FrontExpired == ~Room /\ times[1] >= Interval

(* The entry that replaces the front, or the next one. *)
Record == IF Room THEN Append(times, 0) ELSE Append(Tail(times), 0)

(* What follows a Wait that is over: f, or the end of CoolDown. *)
AfterWait(g) ==
  IF g \in cooler
    THEN /\ coolDown' = FALSE
         /\ cooler' = cooler \ {g}
         /\ pc' = [pc EXCEPT ![g] = "cooled"]
    ELSE /\ pc' = [pc EXCEPT ![g] = "run"]
         /\ UNCHANGED <<coolDown, cooler>>

(* Mutant: the front entry is compared, but not replaced by the grant. *)
TryGrantedKeepFront(g) ==
  /\ pc[g] = "try"
  /\ mtx = Nobody
  /\ Room \/ FrontExpired
  /\ times' = IF Room THEN Append(times, 0) ELSE times
  /\ granted' = Append(granted, 0)
  /\ AfterWait(g)
  /\ UNCHANGED <<slots, mtx, retriesLeft, seen, depth, tries, wait, raced>>

(* Wait: Try returns true. *)
TryGranted(g) ==
  /\ pc[g] = "try"
  /\ mtx = Nobody
  /\ Room \/ FrontExpired
  /\ times' = Record
  /\ granted' = Append(granted, 0)
  /\ AfterWait(g)
  /\ UNCHANGED <<slots, mtx, retriesLeft, seen, depth, tries, wait, raced>>

(* Wait: Try returns false and the time that remains, which is slept. *)
TryRefused(g) ==
  /\ pc[g] = "try"
  /\ mtx = Nobody
  /\ ~Room /\ ~FrontExpired
  /\ wait' = [wait EXCEPT ![g] = Interval - times[1]]
  /\ pc' = [pc EXCEPT ![g] = "sleep"]
  /\ UNCHANGED <<times, granted, slots, mtx, coolDown, cooler, retriesLeft, seen,
                 depth, tries, raced>>

Wake(g) ==
  /\ pc[g] = "sleep"
  /\ wait[g] = 0
  /\ pc' = [pc EXCEPT ![g] = "try"]
  /\ UNCHANGED <<times, granted, slots, mtx, coolDown, cooler, retriesLeft, seen,
                 depth, tries, wait, raced>>

(* f returns nil or an error that is not ErrExceeded: Call is over. *)
Finish(g) ==
  /\ pc[g] \in {"run", "cooled"}
  /\ pc' = [pc EXCEPT ![g] = "leave"]
  /\ UNCHANGED <<times, granted, slots, mtx, coolDown, cooler, retriesLeft, seen,
                 depth, tries, wait, raced>>

(* Mutant: one try too many. *)
ExceededOnceMore(g) ==
  /\ pc[g] \in {"run", "cooled"}
  /\ IF tries[g] <= 2
       THEN tries' = [tries EXCEPT ![g] = @ + 1] /\ pc' = [pc EXCEPT ![g] = "run"]
       ELSE tries' = tries /\ pc' = [pc EXCEPT ![g] = "leave"]
  /\ UNCHANGED <<times, granted, slots, mtx, coolDown, cooler, retriesLeft, seen,
                 depth, wait, raced>>

(* f returns ErrExceeded, with no Retry-After, with CoolDown left at once   *)
(* because r.coolDown is set, or after CoolDown: f again, without a Wait.   *)
Exceeded(g) ==
  /\ pc[g] \in {"run", "cooled"}
  /\ IF tries[g] < 2
       THEN tries' = [tries EXCEPT ![g] = @ + 1] /\ pc' = [pc EXCEPT ![g] = "run"]
       ELSE tries' = tries /\ pc' = [pc EXCEPT ![g] = "leave"]
  /\ UNCHANGED <<times, granted, slots, mtx, coolDown, cooler, retriesLeft, seen,
                 depth, wait, raced>>

(* CoolDown with a Retry-After header: r.coolDown is read before r.mtx.Lock. *)
CoolDownCheck(g) ==
  /\ pc[g] = "run"
  /\ ~coolDown
  /\ pc' = [pc EXCEPT ![g] = "lock"]
  /\ UNCHANGED <<times, granted, slots, mtx, coolDown, cooler, retriesLeft, seen,
                 depth, tries, wait, raced>>

CoolDownSleep(g) ==
  /\ pc[g] = "lock"
  /\ mtx = Nobody
  /\ mtx' = g
  /\ coolDown' = TRUE
  /\ cooler' = cooler \cup {g}
  /\ \E d \in RetryAfter : wait' = [wait EXCEPT ![g] = d]
  /\ pc' = [pc EXCEPT ![g] = "cooling"]
  /\ UNCHANGED <<times, granted, slots, retriesLeft, seen, depth, tries, raced>>

(* Mutant: a deferred Unlock, which ForceWait does not live to see. *)
CoolDownWakeDeferUnlock(g) ==
  /\ pc[g] = "cooling"
  /\ wait[g] = 0
  /\ pc' = [pc EXCEPT ![g] = "force"]
  /\ UNCHANGED <<times, granted, slots, mtx, coolDown, cooler, retriesLeft, seen,
                 depth, tries, wait, raced>>

CoolDownWake(g) ==
  /\ pc[g] = "cooling"
  /\ wait[g] = 0
  /\ mtx' = Nobody
  /\ pc' = [pc EXCEPT ![g] = "force"]
  /\ UNCHANGED <<times, granted, slots, coolDown, cooler, retriesLeft, seen,
                 depth, tries, wait, raced>>

(* ForceWait: fill r.times up to the limit with now, then Wait. *)
ForceWait(g) ==
  /\ pc[g] = "force"
  /\ mtx = Nobody
  /\ times' = [i \in 1 .. Limit |-> IF i <= Len(times) THEN times[i] ELSE 0]
  /\ pc' = [pc EXCEPT ![g] = "try"]
  /\ UNCHANGED <<granted, slots, mtx, coolDown, cooler, retriesLeft, seen,
                 depth, tries, wait, raced>>

(* Mutant: the budget of nested calls is not looked at. *)
ForbiddenUnchecked(g) ==
  /\ pc[g] = "run"
  /\ seen' = [seen EXCEPT ![g] = retriesLeft]
  /\ pc' = [pc EXCEPT ![g] = "forbidden"]
  /\ raced' = (raced \/ \E h \in Calls \ {g} : pc[h] = "forbidden")
  /\ UNCHANGED <<times, granted, slots, mtx, coolDown, cooler, retriesLeft,
                 depth, tries, wait>>

(* f is told 403 and reads retriesLeft, without a lock. *)
Forbidden(g) ==
  /\ pc[g] = "run"
  /\ retriesLeft > 0
  /\ seen' = [seen EXCEPT ![g] = retriesLeft]
  /\ pc' = [pc EXCEPT ![g] = "forbidden"]
  /\ raced' = (raced \/ \E h \in Calls \ {g} : pc[h] = "forbidden")
  /\ UNCHANGED <<times, granted, slots, mtx, coolDown, cooler, retriesLeft,
                 depth, tries, wait>>

(* retriesLeft-- is a read and a write in a race with the others: it may    *)
(* use the value the check read, or one read later.  Then f calls Get.      *)
Nest(g) ==
  /\ pc[g] = "forbidden"
  /\ IF Decrements
       THEN \E base \in {seen[g], retriesLeft} : retriesLeft' = base - 1
       ELSE retriesLeft' = retriesLeft
  /\ pc' = [pc EXCEPT ![g] = "enter"]
  /\ UNCHANGED <<times, granted, slots, mtx, coolDown, cooler, seen,
                 depth, tries, wait, raced>>

(* Mutant: a nested Call that returns ends the outer one without its Leave. *)
LeaveInnermostOnly(g) ==
  /\ pc[g] = "leave"
  /\ slots' = slots - 1
  /\ depth' = [depth EXCEPT ![g] = @ - 1]
  /\ pc' = [pc EXCEPT ![g] = "done"]
  /\ UNCHANGED <<times, granted, mtx, coolDown, cooler, retriesLeft, seen, tries, wait, raced>>

(* Deferred Leave.  An f with a nested Call then returns nil, so the outer  *)
(* Call is over as well. *)
Leave(g) ==
  /\ pc[g] = "leave"
  /\ slots' = slots - 1
  /\ depth' = [depth EXCEPT ![g] = @ - 1]
  /\ pc' = [pc EXCEPT ![g] = IF depth[g] = 1 THEN "done" ELSE "leave"]
  /\ UNCHANGED <<times, granted, mtx, coolDown, cooler, retriesLeft, seen, tries, wait, raced>>

Step(g) ==
  \/ Enter(g) \/ TryGranted(g) \/ TryRefused(g) \/ Wake(g)
  \/ Finish(g) \/ Exceeded(g) \/ CoolDownCheck(g) \/ Forbidden(g)
  \/ CoolDownSleep(g) \/ CoolDownWake(g) \/ ForceWait(g) \/ Nest(g) \/ Leave(g)

Next == Tick \/ \E g \in Calls : Start(g) \/ Step(g)

(***************************************************************************)
(* The clock runs and runnable goroutines run; what a request is answered  *)
(* is not constrained, only that there is an answer (the HTTP clients'     *)
(* functions return).                                                      *)
(***************************************************************************)
Fairness == WF_vars(Tick) /\ \A g \in Calls : WF_vars(Step(g))

Spec == Init /\ [][Next]_vars

FairSpec == Spec /\ Fairness

-----------------------------------------------------------------------------
(***************************************************************************)
(* "A RateLimiter limits the rate at which an action can be performed": no *)
(* more than Limit grants in any Interval.  All grants but the last Limit  *)
(* are at least Interval old, at every instant, whatever CoolDown and      *)
(* ForceWait do to r.times in between.                                     *)
(***************************************************************************)
WindowRespected ==
  \A i \in 1 .. Len(granted) : i + Limit <= Len(granted) => granted[i] >= Interval

(***************************************************************************)
(* Once the calls are over nothing of them is left: all slots are free,    *)
(* the mutex is unlocked and the cool-down flag is down, after whatever    *)
(* overlap of cool-downs and nesting of calls.                             *)
(***************************************************************************)
NothingLeftBehind ==
  (\A g \in Calls : pc[g] \in {"new", "done"})
     => slots = 0 /\ mtx = Nobody /\ ~coolDown

(* Every slot is held by a call that waits in Enter for one more. *)
Clogged == slots = Parallel /\ \A g \in Calls : depth[g] > 0 => pc[g] = "enter"

(***************************************************************************)
(* A client whose budget of nested calls is smaller than its slots blocks  *)
(* itself for ever only if two calls were told 403 at once: retriesLeft is *)
(* checked and decremented without a lock, so that both may take the same  *)
(* one.  Otherwise some slot belongs to a call that can go on.             *)
(***************************************************************************)
ClogNeedsRace == Clogged => raced \/ ~Decrements \/ Retries >= Parallel

(***************************************************************************)
(* Every Call returns, although nested calls hold slots while they wait    *)
(* for one, and cool-downs sleep with the mutex locked, one after the      *)
(* other when they have all read the flag before the first has set it:     *)
(* or all the slots are held by calls that wait for each other.            *)
(***************************************************************************)
EveryCallReturns ==
  \A g \in Calls : (pc[g] # "new") ~> (pc[g] = "done" \/ Clogged)
=============================================================================
