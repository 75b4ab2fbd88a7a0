---------------------------- MODULE ServicesProofs ---------------------------
(***************************************************************************)
(* What the daemon is to the services it calls: the rate limiter between   *)
(* it and their APIs (RateLimiter), for every limit, interval and number   *)
(* of calls, and the synchronisation of the library with Trakt (Library),  *)
(* for any number of updates at once, changes, failures and expiries.  The *)
(* two specifications have no variable in common, and a theorem is about   *)
(* one of them.                                                            *)
(***************************************************************************)
EXTENDS RateLimiter, Library, FiniteSetTheorems, TLAPS

(***************************************************************************)
(*                               RateLimiter                               *)
(*                                                                         *)
(* WindowRespected is not inductive: r.times is what Try looks at, and it  *)
(* holds entries of ForceWait besides those of the grants.  Covered says   *)
(* that this only makes the limiter stricter: counted from the youngest,   *)
(* the k-th grant is at least as old as the k-th entry of r.times, and     *)
(* there are more grants than entries only when r.times is full.           *)
(***************************************************************************)

(* The k-th youngest element. *)
Back(s, k) == s[Len(s) - k + 1]

Covered ==
  /\ Len(granted) > Len(times) => Len(times) = Limit
  /\ \A k \in 1 .. Limit :
       k <= Len(times) /\ k <= Len(granted) => Back(granted, k) >= Back(times, k)

(* The history is in order. *)
Sorted ==
  \A i, j \in 1 .. Len(granted) : i <= j => granted[i] >= granted[j]

IInv == TypeOK /\ Sorted /\ Covered /\ WindowRespected

(* Ages stay ages, in the same number. *)
LEMMA OlderType ==
  ASSUME NEW s \in Seq(Ages)
  PROVE  /\ Older(s) \in Seq(Ages)
         /\ Len(Older(s)) = Len(s)
         /\ \A i \in 1 .. Len(s) :
              Older(s)[i] = IF s[i] < Interval THEN s[i] + 1 ELSE s[i]
<1>1. \A i \in 1 .. Len(s) : s[i] \in Ages
  OBVIOUS
<1>2. \A i \in 1 .. Len(s) : (IF s[i] < Interval THEN s[i] + 1 ELSE s[i]) \in Ages
  BY <1>1, LimitAssumption DEF Ages
<1>3. DOMAIN s = 1 .. Len(s) /\ Len(s) \in Nat
  OBVIOUS
<1> QED BY <1>2, <1>3 DEF Older

(* What a grant does to r.times: the last entry is now, the others move up. *)
LEMMA RecordType ==
  ASSUME TypeOK, Room \/ FrontExpired
  PROVE  /\ Record \in Seq(Ages)
         /\ Len(Record) = IF Room THEN Len(times) + 1 ELSE Limit
         /\ Back(Record, 1) = 0
         /\ \A k \in 2 .. Len(Record) : Back(Record, k) = Back(times, k - 1)
<1> USE LimitAssumption DEF TypeOK
<1>1. times \in Seq(Ages) /\ Len(times) \in Nat /\ 0 \in Ages
  BY DEF Ages
<1>2. CASE Room
  BY <1>1, <1>2 DEF Record, Room, Back
<1>3. CASE ~Room
  <2>1. Len(times) = Limit
    BY <1>1, <1>3 DEF Room
  <2>2. times # <<>>
    BY <2>1
  <2>3. Tail(times) \in Seq(Ages) /\ Len(Tail(times)) = Limit - 1
    BY <1>1, <2>1, <2>2
  <2>4. \A i \in 1 .. Limit - 1 : Tail(times)[i] = times[i + 1]
    BY <1>1, <2>1, <2>2
  <2>5. Record = Append(Tail(times), 0)
    BY <1>3 DEF Record
  <2>6. Record \in Seq(Ages) /\ Len(Record) = Limit /\ Record[Limit] = 0
    BY <1>1, <2>3, <2>5
  <2>7. \A i \in 1 .. Limit - 1 : Record[i] = times[i + 1]
    BY <2>3, <2>4, <2>5
  <2> QED BY <1>3, <2>1, <2>6, <2>7 DEF Back
<1> QED BY <1>2, <1>3

-----------------------------------------------------------------------------
LEMMA InitIInv == Init => IInv
<1> SUFFICES ASSUME Init PROVE IInv
  OBVIOUS
<1> USE LimitAssumption
<1>1. /\ times \in Seq(Ages) /\ granted \in Seq(Ages)
      /\ Len(times) = 0 /\ Len(granted) = 0 /\ Len(times) <= Limit
  BY DEF Init
<1>2. /\ slots \in Int /\ slots <= Parallel /\ retriesLeft \in Int
      /\ mtx \in Calls \cup {Nobody} /\ coolDown \in BOOLEAN /\ cooler \subseteq Calls
  <2>1. slots \in Int /\ slots <= Parallel /\ retriesLeft \in Int
    BY DEF Init
  <2> QED BY <2>1 DEF Init
<1>3. /\ seen \in [Calls -> Int] /\ pc \in [Calls -> PCs] /\ depth \in [Calls -> Int]
      /\ tries \in [Calls -> 0 .. 2] /\ wait \in [Calls -> Nat]
  BY DEF Init, PCs
<1>4. TypeOK
  BY <1>1, <1>2, <1>3 DEF TypeOK, Init
<1>5. Sorted /\ Covered /\ WindowRespected
  BY <1>1 DEF Sorted, Covered, WindowRespected
<1> QED BY <1>4, <1>5 DEF IInv

(* A grant is recorded in r.times and in the history. *)
LEMMA TryGrantedIInv ==
  ASSUME IInv, NEW g \in Calls, TryGranted(g)
  PROVE  IInv'
<1> USE LimitAssumption
<1>1. TypeOK /\ (Room \/ FrontExpired)
  BY DEF IInv, TryGranted
<1>2. /\ times' \in Seq(Ages)
      /\ Len(times') = IF Room THEN Len(times) + 1 ELSE Limit
      /\ Back(times', 1) = 0
      /\ \A k \in 2 .. Len(times') : Back(times', k) = Back(times, k - 1)
  <2>1. times' = Record
    BY DEF TryGranted
  <2> QED BY <1>1, <2>1, RecordType
<1>3. /\ granted \in Seq(Ages) /\ Len(granted) \in Nat
      /\ times \in Seq(Ages) /\ Len(times) \in Nat /\ Len(times) <= Limit
  BY <1>1 DEF TypeOK
<1>4. 0 \in Ages
  BY DEF Ages
<1>5. /\ granted' \in Seq(Ages) /\ Len(granted') = Len(granted) + 1
      /\ granted'[Len(granted) + 1] = 0
      /\ \A i \in 1 .. Len(granted) : granted'[i] = granted[i]
  <2>1. granted' = Append(granted, 0)
    BY DEF TryGranted
  <2> QED BY <1>3, <1>4, <2>1
<1>6. TypeOK'
  <2>1. /\ pc' \in [Calls -> PCs] /\ cooler' \subseteq Calls /\ coolDown' \in BOOLEAN
    BY <1>1 DEF TryGranted, AfterWait, TypeOK, PCs
  <2>2. Len(times') <= Limit
    BY <1>2, <1>3 DEF Room
  <2>3. UNCHANGED <<slots, mtx, retriesLeft, seen, depth, tries, wait, raced>>
    BY DEF TryGranted
  <2> QED BY <1>1, <1>2, <1>5, <2>1, <2>2, <2>3 DEF TypeOK
<1>7. Back(granted', 1) = 0 /\ \A k \in 2 .. Len(granted') : Back(granted', k) = Back(granted, k - 1)
  BY <1>3, <1>5 DEF Back
<1>8. Covered'
  <2>1. Len(granted') > Len(times') => Len(times') = Limit
    BY <1>2, <1>3, <1>5 DEF IInv, Covered, Room
  <2>2. ASSUME NEW k \in 1 .. Limit, k <= Len(times'), k <= Len(granted')
        PROVE Back(granted', k) >= Back(times', k)
    <3>1. CASE k = 1
      BY <1>2, <1>7, <3>1
    <3>2. CASE k # 1
      <4>1. k - 1 \in 1 .. Limit /\ k - 1 <= Len(times) /\ k - 1 <= Len(granted)
        BY <1>2, <1>3, <1>5, <2>2, <3>2 DEF Room
      <4>2. Back(granted, k - 1) >= Back(times, k - 1)
        BY <4>1 DEF IInv, Covered
      <4>3. Back(granted', k) = Back(granted, k - 1) /\ Back(times', k) = Back(times, k - 1)
        BY <1>2, <1>3, <1>5, <1>7, <2>2, <3>2
      <4> QED BY <4>2, <4>3
    <3> QED BY <3>1, <3>2
  <2> QED BY <2>1, <2>2 DEF Covered
(* The grant that leaves the window is covered by the front of r.times. *)
<1>9. WindowRespected'
  <2> SUFFICES ASSUME NEW i \in 1 .. Len(granted'), i + Limit <= Len(granted')
      PROVE granted'[i] >= Interval
    BY DEF WindowRespected
  <2>1. i \in 1 .. Len(granted) /\ granted'[i] = granted[i]
    BY <1>3, <1>5
  <2>2. CASE i + Limit <= Len(granted)
    BY <2>1, <2>2 DEF IInv, WindowRespected
  <2>3. CASE i + Limit = Len(granted) + 1
    <3>1. ~Room /\ Len(times) = Limit
      BY <1>3, <2>1, <2>3 DEF IInv, Covered, Room
    <3>2. times[1] >= Interval
      BY <1>1, <3>1 DEF FrontExpired
    <3>3. Back(granted, Limit) = granted[i] /\ Back(times, Limit) = times[1]
      BY <1>3, <2>1, <2>3, <3>1 DEF Back
    <3>4. Back(granted, Limit) >= Back(times, Limit)
      BY <1>3, <2>1, <2>3, <3>1 DEF IInv, Covered
    <3>5. times[1] \in Int /\ granted[i] \in Int
      BY <1>3, <2>1, <3>1 DEF Ages
    <3> QED BY <2>1, <3>2, <3>3, <3>4, <3>5
  <2>4. i \in Nat /\ i + Limit <= Len(granted) + 1
    BY <1>3, <1>5
  <2> QED BY <1>3, <2>2, <2>3, <2>4
<1>10. Sorted'
  <2> SUFFICES ASSUME NEW i \in 1 .. Len(granted) + 1, NEW j \in 1 .. Len(granted) + 1, i <= j
      PROVE granted'[i] >= granted'[j]
    BY <1>5 DEF Sorted
  <2>1. \A k \in 1 .. Len(granted) : granted[k] \in Ages
    BY <1>3
  <2>2. CASE j = Len(granted) + 1
    BY <1>3, <1>5, <2>1, <2>2 DEF Ages
  <2>3. CASE j \in 1 .. Len(granted)
    BY <1>3, <1>5, <2>3 DEF IInv, Sorted
  <2> QED BY <1>3, <2>2, <2>3
<1> QED BY <1>6, <1>8, <1>9, <1>10 DEF IInv

(* Entries and grants get older together. *)
LEMMA TickIInv == IInv /\ Tick => IInv'
<1> SUFFICES ASSUME IInv, Tick PROVE IInv'
  OBVIOUS
<1> USE LimitAssumption
<1>1. times \in Seq(Ages) /\ granted \in Seq(Ages) /\ Len(times) \in Nat /\ Len(granted) \in Nat
  BY DEF IInv, TypeOK
<1>2. /\ times' \in Seq(Ages) /\ Len(times') = Len(times)
      /\ \A i \in 1 .. Len(times) :
           times'[i] = IF times[i] < Interval THEN times[i] + 1 ELSE times[i]
  BY <1>1, OlderType DEF Tick
<1>3. /\ granted' \in Seq(Ages) /\ Len(granted') = Len(granted)
      /\ \A i \in 1 .. Len(granted) :
           granted'[i] = IF granted[i] < Interval THEN granted[i] + 1 ELSE granted[i]
  BY <1>1, OlderType DEF Tick
<1>4. TypeOK'
  BY <1>2, <1>3 DEF IInv, TypeOK, Tick
<1>5. /\ \A i \in 1 .. Len(times) : times[i] \in Ages
      /\ \A i \in 1 .. Len(granted) : granted[i] \in Ages
  BY <1>1
<1>6. Covered'
  <2>1. ASSUME NEW k \in 1 .. Limit, k <= Len(times), k <= Len(granted)
        PROVE Back(granted', k) >= Back(times', k)
    <3>1. Len(times) - k + 1 \in 1 .. Len(times) /\ Len(granted) - k + 1 \in 1 .. Len(granted)
      BY <1>1, <2>1
    <3>2. Back(granted, k) >= Back(times, k)
      BY <2>1 DEF IInv, Covered
    <3>3. Back(granted, k) \in Ages /\ Back(times, k) \in Ages
      BY <1>5, <3>1 DEF Back
    <3>4. times'[Len(times) - k + 1] = IF times[Len(times) - k + 1] < Interval
                                       THEN times[Len(times) - k + 1] + 1
                                       ELSE times[Len(times) - k + 1]
      BY <1>2, <3>1, Zenon
    <3>5. granted'[Len(granted) - k + 1] = IF granted[Len(granted) - k + 1] < Interval
                                           THEN granted[Len(granted) - k + 1] + 1
                                           ELSE granted[Len(granted) - k + 1]
      BY <1>3, <3>1, Zenon
    <3>6. Back(times', k) = IF Back(times, k) < Interval THEN Back(times, k) + 1 ELSE Back(times, k)
      BY <1>2, <3>4, Zenon DEF Back
    <3>7. Back(granted', k) =
            IF Back(granted, k) < Interval THEN Back(granted, k) + 1 ELSE Back(granted, k)
      BY <1>3, <3>5, Zenon DEF Back
    <3> HIDE DEF Back
    <3> QED BY <3>2, <3>3, <3>6, <3>7 DEF Ages
  <2> QED BY <1>2, <1>3, <2>1 DEF IInv, Covered
<1>7. WindowRespected'
  <2> SUFFICES ASSUME NEW i \in 1 .. Len(granted), i + Limit <= Len(granted)
      PROVE granted'[i] >= Interval
    BY <1>3 DEF WindowRespected
  <2>1. granted[i] >= Interval /\ granted[i] \in Ages
    BY <1>5 DEF IInv, WindowRespected
  <2> QED BY <1>3, <2>1 DEF Ages
<1>8. Sorted'
  <2> SUFFICES ASSUME NEW i \in 1 .. Len(granted), NEW j \in 1 .. Len(granted), i <= j
      PROVE granted'[i] >= granted'[j]
    BY <1>3 DEF Sorted
  <2>1. granted[i] >= granted[j] /\ granted[i] \in Ages /\ granted[j] \in Ages
    BY <1>5 DEF IInv, Sorted
  <2> QED BY <1>3, <2>1 DEF Ages
<1> QED BY <1>4, <1>6, <1>7, <1>8 DEF IInv

(* The entries ForceWait adds are the youngest there can be. *)
LEMMA ForceWaitIInv ==
  ASSUME IInv, NEW g \in Calls, ForceWait(g)
  PROVE  IInv'
<1> USE LimitAssumption
<1>1. times \in Seq(Ages) /\ Len(times) \in Nat /\ Len(times) <= Limit /\ 0 \in Ages
  BY DEF IInv, TypeOK, Ages
<1>2. \A i \in 1 .. Len(times) : times[i] \in Ages
  BY <1>1
<1>3. times' = [i \in 1 .. Limit |-> IF i <= Len(times) THEN times[i] ELSE 0]
  BY DEF ForceWait
<1>4. times' \in Seq(Ages) /\ Len(times') = Limit
  <2>1. \A i \in 1 .. Limit : (IF i <= Len(times) THEN times[i] ELSE 0) \in Ages
    BY <1>1, <1>2
  <2> QED BY <1>3, <2>1
<1>5. UNCHANGED <<granted, slots, mtx, coolDown, cooler, retriesLeft, seen, depth, tries, wait, raced>>
  BY DEF ForceWait
<1>6. TypeOK'
  <2>1. pc' \in [Calls -> PCs]
    BY DEF ForceWait, IInv, TypeOK, PCs
  <2> QED BY <1>4, <1>5, <2>1 DEF IInv, TypeOK
<1>7. Covered'
  <2>0. granted \in Seq(Ages) /\ Len(granted) \in Nat
    BY DEF IInv, TypeOK
  <2>1. ASSUME NEW k \in 1 .. Limit, k <= Len(granted)
        PROVE Back(granted, k) >= Back(times', k)
    <3>1. Back(granted, k) \in Ages
      BY <2>0, <2>1 DEF Back
    <3>2. CASE Limit - k + 1 <= Len(times)
      <4> DEFINE j == Len(times) - Limit + k
      <4>1. j \in 1 .. Limit /\ j <= k /\ j <= Len(times) /\ j <= Len(granted)
        BY <1>1, <2>0, <2>1, <3>2
      <4>2. Back(times', k) = Back(times, j)
        BY <1>1, <1>3, <1>4, <3>2 DEF Back
      <4>3. Back(granted, j) >= Back(times, j)
        BY <4>1 DEF IInv, Covered
      <4>4. Back(granted, k) >= Back(granted, j)
        BY <2>0, <2>1, <4>1 DEF Back, IInv, Sorted
      <4>5. Back(granted, j) \in Ages /\ Back(times, j) \in Ages
        BY <1>2, <2>0, <4>1 DEF Back
      <4> QED BY <3>1, <4>2, <4>3, <4>4, <4>5 DEF Ages
    <3>3. CASE ~(Limit - k + 1 <= Len(times))
      <4>1. Back(times', k) = 0
        BY <1>1, <1>3, <1>4, <3>3 DEF Back
      <4> QED BY <3>1, <4>1 DEF Ages
    <3> QED BY <3>2, <3>3
  <2> QED BY <1>4, <1>5, <2>1 DEF Covered
<1>8. WindowRespected' /\ Sorted'
  BY <1>5 DEF IInv, WindowRespected, Sorted
<1> QED BY <1>6, <1>7, <1>8 DEF IInv

(* The other steps touch neither r.times nor the history. *)
LEMMA OtherIInv ==
  ASSUME IInv, TypeOK', UNCHANGED <<times, granted>>
  PROVE  IInv'
BY DEF IInv, Sorted, Covered, WindowRespected

LEMMA IInvStep == IInv /\ [Next]_vars => IInv'
<1> SUFFICES ASSUME IInv, [Next]_vars PROVE IInv'
  OBVIOUS
<1> USE LimitAssumption
<1>1. CASE Tick
  BY <1>1, TickIInv
<1>2. CASE UNCHANGED vars
  BY <1>2, OtherIInv DEF vars, IInv, TypeOK
<1>3. ASSUME NEW g \in Calls, Start(g) \/ Step(g) PROVE IInv'
  <2> USE DEF IInv, TypeOK, PCs
  <2>1. CASE Start(g)
    BY <2>1, OtherIInv DEF Start
  <2>2. CASE Enter(g)
    BY <2>2, OtherIInv DEF Enter
  <2>3. CASE TryGranted(g)
    BY <2>3, TryGrantedIInv
  <2>4. CASE TryRefused(g)
    <3>1. Interval - times[1] \in Nat
      <4>1. Len(times) >= 1 /\ times \in Seq(Ages)
        BY <2>4 DEF TryRefused, Room
      <4>2. times[1] \in Ages
        BY <4>1
      <4> QED BY <4>2 DEF Ages
    <3> QED BY <2>4, <3>1, OtherIInv DEF TryRefused
  <2>5. CASE Wake(g)
    BY <2>5, OtherIInv DEF Wake
  <2>6. CASE Finish(g)
    BY <2>6, OtherIInv DEF Finish
  <2>7. CASE Exceeded(g)
    <3>1. tries' \in [Calls -> 0 .. 2]
      <4>1. tries[g] \in 0 .. 2
        OBVIOUS
      <4>2. tries[g] < 2 => tries[g] + 1 \in 0 .. 2
        BY <4>1
      <4> QED BY <2>7, <4>2 DEF Exceeded
    <3>2. pc' \in [Calls -> PCs]
      BY <2>7 DEF Exceeded
    <3>3. UNCHANGED <<times, granted, slots, mtx, coolDown, cooler, retriesLeft, seen, depth, wait, raced>>
      BY <2>7 DEF Exceeded
    <3> QED BY <3>1, <3>2, <3>3, OtherIInv
  <2>8. CASE CoolDownCheck(g)
    BY <2>8, OtherIInv DEF CoolDownCheck
  <2>9. CASE Forbidden(g)
    BY <2>9, OtherIInv DEF Forbidden
  <2>10. CASE CoolDownSleep(g)
    BY <2>10, OtherIInv DEF CoolDownSleep
  <2>11. CASE CoolDownWake(g)
    BY <2>11, OtherIInv DEF CoolDownWake
  <2>12. CASE ForceWait(g)
    BY <2>12, ForceWaitIInv
  <2>13. CASE Nest(g)
    <3>1. retriesLeft' \in Int
      <4>1. seen[g] \in Int /\ retriesLeft \in Int
        OBVIOUS
      <4> QED BY <2>13, <4>1 DEF Nest
    <3>2. pc' \in [Calls -> PCs]
      BY <2>13 DEF Nest
    <3>3. UNCHANGED <<times, granted, slots, mtx, coolDown, cooler, seen, depth, tries, wait, raced>>
      BY <2>13 DEF Nest
    <3> QED BY <3>1, <3>2, <3>3, OtherIInv
  <2>14. CASE Leave(g)
    <3>1. slots' \in Int /\ slots' <= Parallel /\ depth' \in [Calls -> Int] /\ pc' \in [Calls -> PCs]
      BY <2>14 DEF Leave
    <3>2. UNCHANGED <<times, granted, mtx, coolDown, cooler, retriesLeft, seen, tries, wait, raced>>
      BY <2>14 DEF Leave
    <3> QED BY <3>1, <3>2, OtherIInv
  <2> QED BY <1>3, <2>1, <2>2, <2>3, <2>4, <2>5, <2>6, <2>7, <2>8, <2>9, <2>10, <2>11,
             <2>12, <2>13, <2>14 DEF Step
<1> QED BY <1>1, <1>2, <1>3 DEF Next

(***************************************************************************)
(* In any window of the length of the interval at most limit grants, for   *)
(* every limit and interval and every number of calls.                     *)
(***************************************************************************)
THEOREM RateLimited == Spec => []WindowRespected
<1>1. Init => IInv
  BY InitIInv
<1>2. IInv /\ [Next]_vars => IInv'
  BY IInvStep
<1>3. IInv => WindowRespected
  BY DEF IInv
<1> QED BY <1>1, <1>2, <1>3, PTL DEF Spec

(* The limiter's state keeps its types; parallelChan is never overfull. *)
THEOREM LimiterTypes == Spec => []TypeOK
<1>1. Init => IInv
  BY InitIInv
<1>2. IInv /\ [Next]_vars => IInv'
  BY IInvStep
<1>3. IInv => TypeOK
  BY DEF IInv
<1> QED BY <1>1, <1>2, <1>3, PTL DEF Spec

-----------------------------------------------------------------------------
(***************************************************************************)
(* What a call holds.  r.parallelChan has one element for every nested     *)
(* Call that is between Enter and Leave: the elements are counted as pairs *)
(* of a call and a level of its nesting, so that nothing has to be said of *)
(* the number of calls.                                                    *)
(***************************************************************************)
Held == {s \in Calls \X (Nat \ {0}) : s[2] <= depth[s[1]]}

InCall == {"try", "sleep", "run", "forbidden", "lock", "cooling", "force", "cooled", "leave"}

CallTypes == pc \in [Calls -> PCs] /\ depth \in [Calls -> Nat]

SlotsHeld == IsFiniteSet(Held) /\ slots = Cardinality(Held)

(* A call that is inside has its slot, one that is over or not begun has none. *)
DepthOfStep ==
  \A g \in Calls : /\ pc[g] \in InCall => depth[g] > 0
                   /\ pc[g] \in {"new", "done"} => depth[g] = 0

(* r.mtx is locked by a call that sleeps in CoolDown. *)
LockedByCooling == mtx # Nobody => mtx \in Calls /\ pc[mtx] = "cooling"

(* r.coolDown is up only while a call is on its way through CoolDown. *)
FlagOfCooler ==
  /\ coolDown => cooler # {}
  /\ \A g \in cooler : g \in Calls /\ pc[g] \in {"cooling", "force", "try", "sleep"}

LeftInv == CallTypes /\ SlotsHeld /\ DepthOfStep /\ LockedByCooling /\ FlagOfCooler

LEMMA LeftInit == Init => LeftInv
<1> SUFFICES ASSUME Init PROVE LeftInv
  OBVIOUS
<1>1. Held = {}
  BY DEF Init, Held
<1>2. SlotsHeld
  BY <1>1, FS_EmptySet DEF SlotsHeld, Init
<1> QED
  BY <1>2 DEF Init, LeftInv, CallTypes, PCs, DepthOfStep, InCall, LockedByCooling, FlagOfCooler

(* Enter puts one element in the channel ... *)
LEMMA EnterSlots ==
  ASSUME LeftInv, NEW g \in Calls, Enter(g)
  PROVE  SlotsHeld'
<1> DEFINE s == <<g, depth[g] + 1>>
<1>1. depth[g] \in Nat
  BY DEF LeftInv, CallTypes
<1>2. s \in Calls \X (Nat \ {0}) /\ s \notin Held
  BY <1>1 DEF Held
<1>3. depth' = [depth EXCEPT ![g] = depth[g] + 1] /\ slots' = slots + 1
  BY DEF Enter
<1>4. Held' = Held \cup {s}
  BY <1>1, <1>2, <1>3 DEF Held, LeftInv, CallTypes
<1>5. IsFiniteSet(Held) /\ slots = Cardinality(Held)
  BY DEF LeftInv, SlotsHeld
<1> HIDE DEF s
<1> QED
  BY <1>2, <1>3, <1>4, <1>5, FS_AddElement DEF SlotsHeld

(* ... and Leave takes one out. *)
LEMMA LeaveSlots ==
  ASSUME LeftInv, NEW g \in Calls, Leave(g)
  PROVE  SlotsHeld' /\ depth[g] \in Nat \ {0}
<1> DEFINE s == <<g, depth[g]>>
<1>1. depth[g] \in Nat /\ depth[g] > 0
  BY DEF LeftInv, CallTypes, DepthOfStep, InCall, Leave
<1>2. s \in Held
  BY <1>1 DEF Held
<1>3. depth' = [depth EXCEPT ![g] = depth[g] - 1] /\ slots' = slots - 1
  BY DEF Leave
<1>4. Held' = Held \ {s}
  BY <1>1, <1>2, <1>3 DEF Held, LeftInv, CallTypes
<1>5. IsFiniteSet(Held) /\ slots = Cardinality(Held)
  BY DEF LeftInv, SlotsHeld
<1> HIDE DEF s
<1> QED
  BY <1>1, <1>2, <1>3, <1>4, <1>5, FS_RemoveElement DEF SlotsHeld

LEMMA LeftStep == LeftInv /\ [Next]_vars => LeftInv'
<1> SUFFICES ASSUME LeftInv, [Next]_vars PROVE LeftInv'
  OBVIOUS
<1> USE LimitAssumption
(* The steps that neither enter nor leave. *)
<1>1. ASSUME UNCHANGED <<slots, depth>> PROVE SlotsHeld'
  BY <1>1 DEF LeftInv, SlotsHeld, Held
<1>2. CASE Tick \/ UNCHANGED vars
  BY <1>2, <1>1 DEF Tick, vars, LeftInv, CallTypes, DepthOfStep, LockedByCooling, FlagOfCooler
<1>3. ASSUME NEW g \in Calls, Start(g) \/ Step(g) PROVE LeftInv'
  <2> USE DEF LeftInv, CallTypes, PCs, DepthOfStep, InCall, LockedByCooling, FlagOfCooler
  <2>1. CASE Start(g)
    BY <2>1, <1>1 DEF Start
  <2>2. CASE Enter(g)
    <3>1. SlotsHeld'
      BY <2>2, EnterSlots
    <3>2. depth[g] \in Nat /\ depth' = [depth EXCEPT ![g] = depth[g] + 1]
      BY <2>2 DEF Enter
    <3>3. depth[g] + 1 \in Nat /\ depth[g] + 1 > 0
      BY <3>2
    <3> QED BY <2>2, <3>1, <3>2, <3>3 DEF Enter
  <2>3. CASE TryGranted(g)
    <3>1. SlotsHeld' /\ UNCHANGED <<depth, mtx>>
      BY <2>3, <1>1 DEF TryGranted
    <3>2. CASE g \in cooler
      BY <2>3, <3>1, <3>2 DEF TryGranted, AfterWait
    <3>3. CASE g \notin cooler
      BY <2>3, <3>1, <3>3 DEF TryGranted, AfterWait
    <3> QED BY <3>2, <3>3
  <2>4. CASE TryRefused(g) \/ Wake(g) \/ Finish(g) \/ Exceeded(g)
    BY <2>4, <1>1 DEF TryRefused, Wake, Finish, Exceeded
  <2>5. CASE CoolDownCheck(g) \/ Forbidden(g)
    BY <2>5, <1>1 DEF CoolDownCheck, Forbidden
  <2>6. CASE CoolDownSleep(g)
    BY <2>6, <1>1 DEF CoolDownSleep
  <2>7. CASE CoolDownWake(g)
    BY <2>7, <1>1 DEF CoolDownWake
  <2>8. CASE ForceWait(g) \/ Nest(g)
    BY <2>8, <1>1 DEF ForceWait, Nest
  <2>9. CASE Leave(g)
    <3>1. SlotsHeld' /\ depth[g] \in Nat \ {0}
      BY <2>9, LeaveSlots
    <3>2. depth' = [depth EXCEPT ![g] = depth[g] - 1] /\ depth[g] - 1 \in Nat
      BY <2>9, <3>1 DEF Leave
    <3>3. /\ pc' = [pc EXCEPT ![g] = IF depth[g] = 1 THEN "done" ELSE "leave"] /\ pc[g] = "leave"
          /\ UNCHANGED <<mtx, coolDown, cooler>>
      BY <2>9 DEF Leave
    <3>4. depth[g] = 1 => depth'[g] = 0
      BY <3>1, <3>2
    <3>5. depth[g] # 1 => depth'[g] > 0
      BY <3>1, <3>2
    <3>6. CASE depth[g] = 1
      BY <3>1, <3>2, <3>3, <3>4, <3>6
    <3>7. CASE depth[g] # 1
      BY <3>1, <3>2, <3>3, <3>5, <3>7
    <3> QED BY <3>6, <3>7
  <2> QED BY <1>3, <2>1, <2>2, <2>3, <2>4, <2>5, <2>6, <2>7, <2>8, <2>9 DEF Step
<1> QED BY <1>2, <1>3 DEF Next

(***************************************************************************)
(* Once the calls are over, all slots are free, the mutex is unlocked and  *)
(* the cool-down flag is down, for any number of calls, any nesting and    *)
(* any capacity of the channel.                                            *)
(***************************************************************************)
THEOREM NothingIsLeft == Spec => []NothingLeftBehind
<1>1. LeftInv => NothingLeftBehind
  <2> SUFFICES ASSUME LeftInv, \A g \in Calls : pc[g] \in {"new", "done"}
               PROVE  slots = 0 /\ mtx = Nobody /\ ~coolDown
    BY DEF NothingLeftBehind
  <2>1. Held = {}
    BY DEF Held, LeftInv, DepthOfStep
  <2>2. slots = 0
    BY <2>1, FS_EmptySet DEF LeftInv, SlotsHeld
  <2> QED BY <2>2 DEF LeftInv, LockedByCooling, FlagOfCooler
<1> QED BY <1>1, LeftInit, LeftStep, PTL DEF Spec

(***************************************************************************)
(* The calls that wait for a nested one hold a slot each, and have each    *)
(* taken one from the budget of the client, as long as no two calls were   *)
(* between the check of it and the decrement.                              *)
(***************************************************************************)
Nested == {s \in Held : s[2] < depth[s[1]] \/ pc[s[1]] = "enter"}

BudgetKept ==
  /\ retriesLeft \in Nat
  /\ \A g \in Calls : pc[g] = "forbidden" =>
       /\ seen[g] = retriesLeft /\ retriesLeft > 0
       /\ \A h \in Calls : pc[h] = "forbidden" => h = g
  /\ IsFiniteSet(Nested) /\ Cardinality(Nested) + retriesLeft <= Retries

ClogInv ==
  /\ LeftInv /\ seen \in [Calls -> Int] /\ retriesLeft \in Int
  /\ Decrements /\ ~raced => BudgetKept

(* Enter and Leave let nobody wait who did not wait before. *)
LEMMA NestedShrinks ==
  ASSUME LeftInv, NEW g \in Calls, Start(g) \/ Step(g), ~Nest(g)
  PROVE  Nested' \subseteq Nested
<1> USE DEF LeftInv, CallTypes, DepthOfStep, InCall, PCs
<1>1. CASE Start(g) \/ Enter(g)
  <2>1. depth[g] \in Nat /\ pc[g] \in {"new", "enter"}
    BY <1>1 DEF Start, Enter
  <2>2. CASE Start(g)
    BY <2>1, <2>2 DEF Start, Nested, Held
  <2>3. CASE Enter(g)
    BY <2>1, <2>3 DEF Enter, Nested, Held
  <2> QED
    BY <1>1, <2>2, <2>3
<1>2. CASE Leave(g)
  <2>1. depth[g] \in Nat \ {0} /\ depth' = [depth EXCEPT ![g] = depth[g] - 1]
    BY <1>2, LeaveSlots DEF Leave
  <2>2. \A h \in Calls : pc'[h] = "enter" => pc[h] = "enter" /\ h # g
    BY <1>2 DEF Leave
  <2> QED
    BY <2>1, <2>2 DEF Nested, Held
<1>3. CASE depth' = depth /\ \A h \in Calls : pc'[h] = "enter" => pc[h] = "enter"
  BY <1>3 DEF Nested, Held
<1>4. CASE TryGranted(g)
  BY <1>3, <1>4 DEF TryGranted, AfterWait
<1>5. CASE TryRefused(g) \/ Wake(g) \/ Finish(g) \/ Exceeded(g)
  BY <1>3, <1>5 DEF TryRefused, Wake, Finish, Exceeded
<1>6. CASE CoolDownCheck(g) \/ Forbidden(g) \/ CoolDownSleep(g) \/ CoolDownWake(g) \/ ForceWait(g)
  BY <1>3, <1>6 DEF CoolDownCheck, Forbidden, CoolDownSleep, CoolDownWake, ForceWait
<1> QED
  BY <1>1, <1>2, <1>4, <1>5, <1>6 DEF Step

(* A nested call is paid for. *)
LEMMA NestPays ==
  ASSUME ClogInv, Decrements, ~raced, NEW g \in Calls, Nest(g)
  PROVE  BudgetKept'
<1> USE LimitAssumption DEF ClogInv, LeftInv, CallTypes
<1> DEFINE s == <<g, depth[g]>>
<1>1. /\ pc[g] = "forbidden" /\ depth[g] \in Nat \ {0}
      /\ seen[g] = retriesLeft /\ retriesLeft \in Nat \ {0}
      /\ \A h \in Calls : pc[h] = "forbidden" => h = g
  BY DEF Nest, BudgetKept, DepthOfStep, InCall
<1>2. /\ retriesLeft' = retriesLeft - 1 /\ depth' = depth
      /\ pc' = [pc EXCEPT ![g] = "enter"]
  BY <1>1 DEF Nest
<1>3. s \notin Nested /\ Nested' = Nested \cup {s}
  BY <1>1, <1>2 DEF Nested, Held
<1>4. IsFiniteSet(Nested) /\ Cardinality(Nested) + retriesLeft <= Retries /\ Cardinality(Nested) \in Nat
  BY FS_CardinalityType DEF BudgetKept
<1> HIDE DEF s
<1>5. IsFiniteSet(Nested') /\ Cardinality(Nested') = Cardinality(Nested) + 1
  BY <1>3, <1>4, FS_AddElement
<1>6. \A h \in Calls : pc'[h] # "forbidden"
  BY <1>1, <1>2
<1> QED
  BY <1>1, <1>2, <1>4, <1>5, <1>6 DEF BudgetKept

LEMMA ClogStep == ClogInv /\ [Next]_vars => ClogInv'
<1> SUFFICES ASSUME ClogInv, [Next]_vars PROVE ClogInv'
  OBVIOUS
<1>1. LeftInv'
  BY LeftStep DEF ClogInv
<1>2. CASE Tick \/ UNCHANGED vars
  BY <1>1, <1>2 DEF ClogInv, Tick, vars, BudgetKept, Nested, Held
<1>3. ASSUME NEW g \in Calls, Start(g) \/ Step(g) PROVE ClogInv'
  <2>1. CASE Nest(g)
    <3>1. raced' = raced /\ seen' = seen /\ retriesLeft' \in Int
      BY <2>1 DEF Nest, ClogInv
    <3> QED
      BY <1>1, <2>1, <3>1, NestPays DEF ClogInv
  <2>2. CASE Forbidden(g)
    <3>1. /\ retriesLeft' = retriesLeft /\ retriesLeft > 0
          /\ seen' = [seen EXCEPT ![g] = retriesLeft] /\ pc' = [pc EXCEPT ![g] = "forbidden"]
          /\ ~raced' => ~raced /\ \A h \in Calls \ {g} : pc[h] # "forbidden"
      BY <2>2 DEF Forbidden
    <3>2. ASSUME Decrements, ~raced' PROVE BudgetKept'
      <4>1. BudgetKept /\ pc \in [Calls -> PCs] /\ seen \in [Calls -> Int]
        BY <3>1, <3>2 DEF ClogInv, LeftInv, CallTypes
      <4>2. /\ \A h \in Calls : pc'[h] = "forbidden" => h = g
            /\ seen'[g] = retriesLeft
        BY <3>1, <3>2, <4>1
      <4>3. Nested' \subseteq Nested
        BY <1>3, <2>2, NestedShrinks DEF ClogInv, Forbidden, Nest
      <4>4. IsFiniteSet(Nested') /\ Cardinality(Nested') <= Cardinality(Nested)
        BY <4>1, <4>3, FS_Subset DEF BudgetKept
      <4> QED
        BY <3>1, <4>1, <4>2, <4>4, FS_CardinalityType, LimitAssumption DEF BudgetKept
    <3> QED
      BY <1>1, <3>1, <3>2 DEF ClogInv
  <2>3. CASE ~Nest(g) /\ ~Forbidden(g)
    <3>1. /\ UNCHANGED <<retriesLeft, seen, raced>>
          /\ \A h \in Calls : pc'[h] = "forbidden" => pc[h] = "forbidden"
      <4> USE DEF ClogInv, LeftInv, CallTypes
      <4>1. CASE Start(g) \/ Enter(g) \/ TryRefused(g) \/ Wake(g) \/ Finish(g) \/ Exceeded(g)
        BY <4>1 DEF Start, Enter, TryRefused, Wake, Finish, Exceeded
      <4>2. CASE TryGranted(g)
        BY <4>2 DEF TryGranted, AfterWait
      <4>3. CASE CoolDownCheck(g) \/ CoolDownSleep(g) \/ CoolDownWake(g) \/ ForceWait(g)
        BY <4>3 DEF CoolDownCheck, CoolDownSleep, CoolDownWake, ForceWait
      <4>4. CASE Leave(g)
        BY <4>4 DEF Leave
      <4> QED
        BY <1>3, <2>3, <4>1, <4>2, <4>3, <4>4 DEF Step
    <3>2. ASSUME BudgetKept PROVE BudgetKept'
      <4>1. Nested' \subseteq Nested
        BY <1>3, <2>3, NestedShrinks DEF ClogInv
      <4>2. IsFiniteSet(Nested') /\ Cardinality(Nested') <= Cardinality(Nested)
        BY <3>2, <4>1, FS_Subset DEF BudgetKept
      <4> QED
        BY <3>1, <3>2, <4>2, FS_CardinalityType, LimitAssumption DEF BudgetKept
    <3> QED
      BY <1>1, <3>1, <3>2 DEF ClogInv
  <2> QED
    BY <2>1, <2>2, <2>3
<1> QED
  BY <1>2, <1>3 DEF Next

(***************************************************************************)
(* A client with fewer nested retries than slots cannot block itself, for  *)
(* any number of calls and any depth of their nesting, but by two calls    *)
(* that are told 403 at once.                                              *)
(***************************************************************************)
THEOREM SlotsGoRound == Spec => []ClogNeedsRace
<1>1. Init => ClogInv
  <2> SUFFICES ASSUME Init PROVE ClogInv
    OBVIOUS
  <2>1. LeftInv /\ Held = {}
    BY LeftInit DEF Init, Held
  <2>2. Nested = {}
    BY <2>1 DEF Nested
  <2> QED
    BY <2>1, <2>2, FS_EmptySet, LimitAssumption DEF Init, ClogInv, BudgetKept
<1>2. ClogInv => ClogNeedsRace
  <2> SUFFICES ASSUME ClogInv, Clogged, Decrements, ~raced PROVE Retries >= Parallel
    BY DEF ClogNeedsRace
  <2>1. Nested = Held
    BY DEF Clogged, Nested, Held, ClogInv, LeftInv, CallTypes
  <2>2. Cardinality(Held) = Parallel /\ BudgetKept
    BY DEF Clogged, ClogInv, LeftInv, SlotsHeld
  <2> QED
    BY <2>1, <2>2, LimitAssumption DEF BudgetKept
<1> QED
  BY <1>1, <1>2, ClogStep, PTL DEF Spec

----------------------------------------------------------------------------
(***************************************************************************)
(*                                 Library                                 *)
(*                                                                         *)
(* The sync decides by what it remembers.  The invariant says what each    *)
(* memory is worth as long as there is no accident: a movie in the cached  *)
(* history is in Trakt's, and one that has been set in Kodi is watched     *)
(* there, in the copy, and in every list that is about to become the copy. *)
(***************************************************************************)

MarkTypes == kodi \in BOOLEAN /\ list \in BOOLEAN /\ trakt \in BOOLEAN /\ lastPlaycount \in BOOLEAN

Updates == [at : {"away", "entered", "tested", "fetching", "storing"}, got : BOOLEAN \cup {None},
            overall : BOOLEAN]

RefreshTypes ==
  /\ refresh \in [Goroutines -> Updates]
  /\ \A r \in Goroutines : refresh[r].at = "storing" => refresh[r].got \in BOOLEAN

Syncs == [at : {"away", "tested", "activities", "locking", "watched", "diff", "compare", "send",
                "posting", "done", "failed"},
          news : BOOLEAN, fresh : BOOLEAN, previous : {"none", "out", "in", "old"},
          current : BOOLEAN, send : BOOLEAN \cup {None}]

SyncTypes ==
  /\ sync \in [Goroutines -> Syncs] /\ news \in BOOLEAN
  /\ cached \in {"none", "out", "in", "old"}
  /\ \A s \in Goroutines : sync[s].at \in {"send", "posting"} => sync[s].send \in BOOLEAN

LibraryTypes == MarkTypes /\ RefreshTypes /\ SyncTypes

\* A movie that the sync has once seen on Trakt is still there.
SeenOnTrakt ==
  /\ cached \in {"in", "old"} => trakt
  /\ \A s \in Goroutines :
       sync[s].at = "diff" /\ sync[s].previous \in {"in", "old"} => sync[s].current

\* A movie that the sync has set in Kodi is still watched there.
SetOnce ==
  lastPlaycount => kodi /\ list /\ \A r \in Goroutines : refresh[r].at = "storing" => refresh[r].got

\* Only marks are sent.
SendsMarks == \A s \in Goroutines : sync[s].at \in {"send", "posting"} => sync[s].send

Undisturbed == ~cleared /\ ~accident

MarksInv ==
  /\ LibraryTypes
  /\ Undisturbed => ~Overlap /\ SeenOnTrakt /\ SetOnce /\ SendsMarks

----------------------------------------------------------------------------
LEMMA LibraryTypesInit == LibraryInit => LibraryTypes
<1> SUFFICES ASSUME LibraryInit PROVE LibraryTypes
  OBVIOUS
<1>1. MarkTypes
  BY DEF LibraryInit, MarkTypes
<1>2. Away \in Updates /\ Away.at = "away"
  BY DEF Away, Updates
<1>3. RefreshTypes
  BY <1>2 DEF LibraryInit, RefreshTypes
<1>4. NoSync \in Syncs /\ NoSync.at = "away"
  BY DEF NoSync, Syncs
<1>5. SyncTypes
  BY <1>4 DEF LibraryInit, SyncTypes
<1> QED
  BY <1>1, <1>3, <1>5 DEF LibraryTypes

LEMMA RefreshTypesStep ==
  ASSUME RefreshTypes, MarkTypes, [LibraryNext]_libraryVars
  PROVE  RefreshTypes'
<1> USE DEF RefreshTypes, library
<1>0. Away \in Updates /\ Away.at = "away"
  BY DEF Away, Updates
<1>1. ASSUME NEW r \in Goroutines, SetOverall(r) PROVE RefreshTypes'
  <2> DEFINE tested == [refresh[r] EXCEPT !.at = "tested", !.overall = TRUE]
  <2>1. tested \in Updates /\ tested.at = "tested"
    BY DEF Updates
  <2>2. refresh' = [refresh EXCEPT ![r] = tested] \/ refresh' = [refresh EXCEPT ![r] = Away]
    BY <1>1 DEF SetOverall
  <2> QED
    BY <1>0, <2>1, <2>2
<1>2. ASSUME NEW r \in Goroutines, SetRunning(r) PROVE RefreshTypes'
  BY <1>2 DEF SetRunning, Updates
<1>3. ASSUME NEW r \in Goroutines, Fetch(r) PROVE RefreshTypes'
  <2> DEFINE run == [refresh[r] EXCEPT !.at = "storing", !.got = kodi]
  <2>1. run \in Updates /\ run.at = "storing" /\ run.got \in BOOLEAN
    BY DEF Updates, MarkTypes
  <2>2. refresh' = [refresh EXCEPT ![r] = run]
    BY <1>3 DEF Fetch
  <2> HIDE DEF run
  <2> QED
    BY <2>1, <2>2
<1>4. ASSUME NEW r \in Goroutines, FetchFails(r) \/ Store(r) PROVE RefreshTypes'
  BY <1>4, <1>0 DEF FetchFails, Store, Return
<1>5. ASSUME NEW r \in Goroutines, RefreshMovies(r) PROVE RefreshTypes'
  BY <1>5 DEF RefreshMovies, Updates
<1>6. ASSUME NEW r \in Goroutines, Refresh(r) PROVE RefreshTypes'
  BY <1>6 DEF Refresh, Updates
<1>7. CASE UNCHANGED refresh
  BY <1>7
<1>8. WatchTrakt \/ PlanTraktUpdate \/ OnUpdate \/ RefreshOnScan \/ Expire \/ Stop => UNCHANGED refresh
  BY DEF WatchTrakt, PlanTraktUpdate, OnUpdate, RefreshOnScan, Expire, Stop
<1>s. ASSUME NEW s \in Goroutines, SyncStep(s) PROVE UNCHANGED refresh
  BY <1>s DEF SyncStep, SetTrakt, Activities, ActivitiesFail, LockTrakt, Watched, WatchedFails, ApplyDiff,
              Compare, DropCached, Send, SendFails, StoreActivities, SyncFailed
<1>9. User => UNCHANGED refresh \/ \E r \in Goroutines : Refresh(r)
  BY DEF User, MarkInKodi, MarkOnTrakt, TraktHistoryMovies, UpdateTrakt, UpdateLibrary, Play, MarkKodiRefresh
<1> QED
  BY <1>1, <1>2, <1>3, <1>4, <1>5, <1>6, <1>7, <1>8, <1>s, <1>9
     DEF LibraryNext, Tracked, RefreshStep, WatchMovies, WatchOverall, libraryVars

LEMMA SyncTypesStep ==
  ASSUME SyncTypes, MarkTypes, [LibraryNext]_libraryVars
  PROVE  SyncTypes'
<1> USE DEF SyncTypes
<1>0. NoSync \in Syncs /\ NoSync.at = "away"
  BY DEF NoSync, Syncs
\* A run that is left at one of these places has nothing to send.
<1>p. ASSUME NEW s \in Goroutines, NEW run \in Syncs, run.at \notin {"send", "posting"},
             sync' = [sync EXCEPT ![s] = run], news' \in BOOLEAN, cached' \in {"none", "out", "in", "old"}
      PROVE  SyncTypes'
  BY <1>p
<1>g. ASSUME NEW s \in Goroutines, NEW to \in {"tested", "activities", "watched"}, Goes(s, to),
             UNCHANGED <<news, cached>>
      PROVE  SyncTypes'
  <2>1. [sync[s] EXCEPT !.at = to] \in Syncs /\ [sync[s] EXCEPT !.at = to].at = to
    BY DEF Syncs
  <2> QED
    BY <1>g, <1>p, <2>1 DEF Goes
<1>l. ASSUME NEW s \in Goroutines, NEW to \in {"done", "failed"}, Leaves(s, to),
             UNCHANGED news, cached' \in {"none", "out", "in", "old"}
      PROVE  SyncTypes'
  <2> DEFINE run == [NoSync EXCEPT !.at = to, !.fresh = sync[s].fresh]
  <2>1. run \in Syncs /\ run.at = to
    BY DEF NoSync, Syncs
  <2> QED
    BY <1>l, <1>p, <2>1 DEF Leaves
<1>r. ASSUME NEW s \in Goroutines, Returns(s), news' \in BOOLEAN, UNCHANGED cached
      PROVE  SyncTypes'
  BY <1>0, <1>p, <1>r DEF Returns
<1>o. Outdated(sync) \in [Goroutines -> Syncs]
      /\ \A s \in Goroutines : Outdated(sync)[s].at = sync[s].at /\ Outdated(sync)[s].send = sync[s].send
  <2>1. ASSUME NEW s \in Goroutines
        PROVE  /\ [sync[s] EXCEPT !.fresh = FALSE] \in Syncs
               /\ [sync[s] EXCEPT !.fresh = FALSE].at = sync[s].at
               /\ [sync[s] EXCEPT !.fresh = FALSE].send = sync[s].send
    BY DEF Syncs
  <2> QED
    BY <2>1 DEF Outdated
<1>1. ASSUME NEW s \in Goroutines, SyncStep(s) PROVE SyncTypes'
  <2>1. CASE SetTrakt(s)
    BY <1>g, <2>1 DEF SetTrakt, memory, marks
  <2>2. CASE Activities(s)
    <3>1. CASE Returns(s)
      BY <1>r, <2>2, <3>1 DEF Activities, memory, marks
    <3>2. CASE ~Returns(s)
      <4> DEFINE run == [sync[s] EXCEPT !.at = "locking", !.news = news, !.fresh = TRUE]
      <4>1. run \in Syncs /\ run.at = "locking"
        BY DEF Syncs
      <4> QED
        BY <1>p, <2>2, <3>2, <4>1 DEF Activities, memory, marks
    <3> QED
      BY <3>1, <3>2
  <2>3. CASE ActivitiesFail(s) \/ SyncFailed(s)
    BY <1>r, <2>3 DEF ActivitiesFail, SyncFailed, memory, marks
  <2>4. CASE LockTrakt(s)
    BY <1>g, <2>4 DEF LockTrakt, memory, marks
  <2>5. CASE Watched(s)
    <3>1. cached' \in {"none", "out", "in", "old"} /\ news' = news
      BY <2>5 DEF Watched, marks
    <3>2. CASE Leaves(s, "done")
      BY <1>l, <3>1, <3>2
    <3>3. CASE ~Leaves(s, "done")
      <4> DEFINE current == IF sync[s].news \/ cached = "none" THEN trakt ELSE cached # "out"
                 run == [sync[s] EXCEPT !.at = "diff", !.news = FALSE, !.previous = cached, !.current = current]
      <4>1. current \in BOOLEAN
        BY DEF MarkTypes
      <4>2. sync' = [sync EXCEPT ![s] = run]
        BY <2>5, <3>3 DEF Watched
      <4> HIDE DEF current
      <4>3. run \in Syncs /\ run.at = "diff"
        BY <4>1 DEF Syncs
      <4> HIDE DEF run
      <4> QED
        BY <1>p, <3>1, <4>2, <4>3
    <3> QED
      BY <3>2, <3>3
  <2>6. CASE WatchedFails(s) \/ SendFails(s)
    BY <1>l, <2>6 DEF WatchedFails, SendFails, memory, marks
  <2>7. CASE ApplyDiff(s)
    <3> DEFINE run == [sync[s] EXCEPT !.at = "compare", !.previous = "none"]
    <3>1. run \in Syncs /\ run.at = "compare"
      BY DEF Syncs
    <3> QED
      BY <1>p, <2>7, <3>1 DEF ApplyDiff, memory
  <2>8. CASE Compare(s)
    <3>1. UNCHANGED <<news, cached>>
      BY <2>8 DEF Compare
    <3>2. CASE Leaves(s, "done")
      BY <1>l, <3>1, <3>2
    <3>3. CASE ~Leaves(s, "done")
      <4> DEFINE sent == Seen(s)
                 run == [sync[s] EXCEPT !.at = "send", !.current = FALSE, !.send = sent]
      <4>1. sent \in BOOLEAN
        BY DEF Seen
      <4> HIDE DEF sent
      <4>2. run \in Syncs /\ run.at = "send" /\ run.send \in BOOLEAN
        BY <4>1 DEF Syncs
      <4>3. sync' = [sync EXCEPT ![s] = run]
        BY <2>8, <3>3 DEF Compare, sent
      <4> HIDE DEF run
      <4> QED
        BY <3>1, <4>2, <4>3
    <3> QED
      BY <3>2, <3>3
  <2>9. CASE DropCached(s)
    BY <2>9 DEF DropCached, Goes, marks, Syncs
  <2>10. CASE Send(s)
    <3> DEFINE run == [NoSync EXCEPT !.at = "done"]
    <3>1. run \in Syncs /\ run.at = "done"
      BY <1>0 DEF Syncs
    <3>2. sync' = [Outdated(sync) EXCEPT ![s] = run] /\ news' = TRUE /\ cached' = cached
      BY <2>10 DEF Send
    <3> HIDE DEF run
    <3> QED
      BY <1>o, <3>1, <3>2
  <2>11. CASE StoreActivities(s)
    BY <1>r, <2>11 DEF StoreActivities, memory, Syncs
  <2> QED
    BY <1>1, <2>1, <2>2, <2>3, <2>4, <2>5, <2>6, <2>7, <2>8, <2>9, <2>10, <2>11 DEF SyncStep
<1>2. ASSUME NEW s \in Goroutines, RefreshTrakt(s), UNCHANGED <<news, cached>> PROVE SyncTypes'
  BY <1>2, <1>g DEF RefreshTrakt
<1>3. CASE UNCHANGED <<sync, news, cached>>
  BY <1>3
<1>4. WatchMovies \/ WatchOverall \/ PlanTraktUpdate \/ OnUpdate \/ RefreshOnScan \/ Stop
        => UNCHANGED <<sync, news, cached>>
  BY DEF WatchMovies, RefreshMovies, WatchOverall, Refresh, PlanTraktUpdate, OnUpdate, RefreshOnScan, Stop,
         memory, marks
<1>s. ASSUME NEW r \in Goroutines, RefreshStep(r) PROVE UNCHANGED <<sync, news, cached>>
  BY <1>s DEF RefreshStep, SetOverall, SetRunning, Fetch, FetchFails, Store, Return, memory, marks
<1>5. CASE WatchTrakt
  BY <1>5, <1>2 DEF WatchTrakt, memory, marks
<1>6. CASE Expire
  BY <1>6 DEF Expire, memory
<1>7. CASE User
  <2>1. ASSUME NEW watched \in BOOLEAN, MarkOnTrakt(watched) PROVE SyncTypes'
    BY <1>o, <2>1 DEF MarkOnTrakt
  <2>2. CASE TraktHistoryMovies
    BY <2>2 DEF TraktHistoryMovies, marks
  <2>3. CASE UpdateTrakt
    BY <2>3, <1>2 DEF UpdateTrakt, memory, marks
  <2>4. CASE (\E watched \in BOOLEAN : MarkInKodi(watched)) \/ UpdateLibrary \/ Play \/ MarkKodiRefresh
    BY <1>3, <2>4 DEF MarkInKodi, UpdateLibrary, Refresh, Play, MarkKodiRefresh, memory, marks
  <2> QED
    BY <1>7, <2>1, <2>2, <2>3, <2>4 DEF User
<1> QED
  BY <1>1, <1>3, <1>4, <1>s, <1>5, <1>6, <1>7 DEF LibraryNext, Tracked, libraryVars, memory, marks

LEMMA MarkTypesStep ==
  ASSUME LibraryTypes, [LibraryNext]_libraryVars
  PROVE  MarkTypes'
<1> USE DEF LibraryTypes, MarkTypes, library, memory, marks
<1>1. ASSUME NEW r \in Goroutines, RefreshStep(r) PROVE MarkTypes'
  BY <1>1 DEF RefreshStep, SetOverall, SetRunning, Fetch, FetchFails, Store, Return, RefreshTypes
<1>2. ASSUME NEW s \in Goroutines, SyncStep(s) PROVE MarkTypes'
  <2>1. CASE \/ SetTrakt(s) \/ Activities(s) \/ ActivitiesFail(s) \/ LockTrakt(s) \/ Watched(s)
             \/ WatchedFails(s) \/ DropCached(s) \/ SendFails(s) \/ StoreActivities(s) \/ SyncFailed(s)
    BY <2>1 DEF SetTrakt, Activities, ActivitiesFail, LockTrakt, Watched, WatchedFails, DropCached,
                SendFails, StoreActivities, SyncFailed
  <2>2. CASE ApplyDiff(s) \/ Compare(s)
    BY <2>2 DEF ApplyDiff, Compare, SetInKodi
  <2>3. CASE Send(s)
    BY <2>3 DEF Send, SyncTypes
  <2> QED
    BY <1>2, <2>1, <2>2, <2>3 DEF SyncStep
<1>3. CASE WatchTrakt \/ WatchMovies \/ WatchOverall \/ PlanTraktUpdate \/ OnUpdate \/ RefreshOnScan \/ Expire \/ Stop
  BY <1>3 DEF WatchTrakt, WatchMovies, RefreshMovies, WatchOverall, Refresh, PlanTraktUpdate, OnUpdate,
              RefreshOnScan, Expire, Stop
<1>4. CASE User
  BY <1>4 DEF User, MarkInKodi, MarkOnTrakt, TraktHistoryMovies, UpdateTrakt, UpdateLibrary, Refresh, Play,
              MarkKodiRefresh
<1>5. CASE UNCHANGED libraryVars
  BY <1>5 DEF libraryVars
<1> QED
  BY <1>1, <1>2, <1>3, <1>4, <1>5 DEF LibraryNext, Tracked
----------------------------------------------------------------------------
(* Nothing unmarks the movie. *)

\* The steps of the updates that leave the marks and the memories alone.
LEMMA OtherSyncSteps ==
  ASSUME NEW s \in Goroutines,
         \/ SetTrakt(s) \/ Activities(s) \/ ActivitiesFail(s) \/ LockTrakt(s) \/ WatchedFails(s)
         \/ StoreActivities(s) \/ SyncFailed(s)
  PROVE  UNCHANGED <<kodi, list, trakt, memory, refresh, cleared>>
BY DEF SetTrakt, Activities, ActivitiesFail, LockTrakt, WatchedFails, StoreActivities, SyncFailed,
       library, memory, marks, user

LEMMA OtherSteps ==
  ASSUME \/ WatchTrakt \/ WatchMovies \/ WatchOverall \/ PlanTraktUpdate \/ OnUpdate \/ RefreshOnScan \/ Stop
  PROVE  UNCHANGED <<kodi, list, trakt, memory, cleared>>
BY DEF WatchTrakt, WatchMovies, RefreshMovies, WatchOverall, Refresh, PlanTraktUpdate, OnUpdate,
       RefreshOnScan, Stop, library, memory, marks, user

LEMMA RefreshSteps ==
  ASSUME NEW r \in Goroutines, RefreshStep(r)
  PROVE  UNCHANGED <<kodi, trakt, memory, cleared, sync>>
BY DEF RefreshStep, SetOverall, SetRunning, Fetch, FetchFails, Store, Return, memory, marks, user

\* The user's unmarking is remembered.
LEMMA ClearedStays == [LibraryNext]_libraryVars /\ ~cleared' => ~cleared
<1> SUFFICES ASSUME [LibraryNext]_libraryVars, ~cleared' PROVE ~cleared
  OBVIOUS
<1>1. ASSUME NEW s \in Goroutines, SyncStep(s) PROVE cleared' = cleared
  BY <1>1, OtherSyncSteps DEF SyncStep, Watched, ApplyDiff, Compare, DropCached, Send, SendFails, user
<1>2. Expire => cleared' = cleared
  BY DEF Expire, user
<1>3. User => ~cleared
  BY DEF User, MarkInKodi, MarkOnTrakt, TraktHistoryMovies, UpdateTrakt, UpdateLibrary, Play, MarkKodiRefresh
<1> QED
  BY <1>1, <1>2, <1>3, OtherSteps, RefreshSteps DEF LibraryNext, Tracked, libraryVars, user

LEMMA NothingUnmarks ==
  ASSUME MarksInv, [LibraryNext]_libraryVars, ~cleared', ~accident
  PROVE  (kodi => kodi') /\ (trakt => trakt')
<1>0. SeenOnTrakt /\ SendsMarks
  BY ClearedStays DEF MarksInv, Undisturbed
<1>1. ASSUME NEW s \in Goroutines, SyncStep(s) PROVE (kodi => kodi') /\ (trakt => trakt')
  <2>1. CASE Watched(s) \/ DropCached(s) \/ SendFails(s)
    BY <2>1 DEF Watched, DropCached, SendFails, marks
  <2>2. CASE ApplyDiff(s)
    <3>1. ~Gone(sync[s].previous, sync[s].current)
      BY <2>2, <1>0 DEF ApplyDiff, SeenOnTrakt, Gone
    <3> QED
      BY <2>2, <3>1 DEF ApplyDiff, SetInKodi
  <2>3. CASE Compare(s)
    BY <2>3 DEF Compare, SetInKodi
  <2>4. CASE Send(s)
    BY <2>4, <1>0 DEF Send, SendsMarks
  <2> QED
    BY <1>1, <2>1, <2>2, <2>3, <2>4, OtherSyncSteps DEF SyncStep
<1>2. Expire => UNCHANGED <<kodi, trakt>>
  BY DEF Expire
<1>3. CASE User
  <2>1. ASSUME NEW watched \in BOOLEAN, MarkInKodi(watched) PROVE (kodi => kodi') /\ UNCHANGED trakt
    BY <2>1 DEF MarkInKodi
  <2>2. ASSUME NEW watched \in BOOLEAN, MarkOnTrakt(watched) PROVE (trakt => trakt') /\ UNCHANGED kodi
    BY <2>2 DEF MarkOnTrakt
  <2>3. TraktHistoryMovies \/ UpdateTrakt \/ UpdateLibrary \/ Play \/ MarkKodiRefresh => UNCHANGED <<kodi, trakt>>
    BY DEF TraktHistoryMovies, UpdateTrakt, UpdateLibrary, Refresh, Play, MarkKodiRefresh, marks
  <2> QED
    BY <1>3, <2>1, <2>2, <2>3 DEF User
<1>4. UNCHANGED libraryVars => UNCHANGED <<kodi, trakt>>
  BY DEF libraryVars, marks
<1> QED
  BY <1>1, <1>2, <1>3, <1>4, OtherSteps, RefreshSteps DEF LibraryNext, Tracked

----------------------------------------------------------------------------
(* The invariant *)

LEMMA SeenStep ==
  ASSUME MarksInv, [LibraryNext]_libraryVars, ~cleared', ~accident
  PROVE  SeenOnTrakt'
<1> USE DEF SeenOnTrakt
<1>0. /\ SeenOnTrakt /\ (trakt => trakt') /\ SyncTypes /\ MarkTypes
      /\ NoSync.at = "away"
  BY ClearedStays, NothingUnmarks DEF MarksInv, Undisturbed, LibraryTypes, NoSync
\* A run that is not at "diff" has read nothing.
<1>p. ASSUME NEW s \in Goroutines, NEW run, run.at # "diff", sync' = [sync EXCEPT ![s] = run],
             cached' \in {"in", "old"} => trakt'
      PROVE  SeenOnTrakt'
  BY <1>0, <1>p DEF SyncTypes
<1>g. ASSUME NEW s \in Goroutines, NEW to, to # "diff", Goes(s, to), cached' \in {"in", "old"} => trakt'
      PROVE  SeenOnTrakt'
  <2>1. [sync[s] EXCEPT !.at = to].at = to
    BY <1>0 DEF SyncTypes, Syncs
  <2> QED
    BY <1>g, <1>p, <2>1 DEF Goes
<1>l. ASSUME NEW s \in Goroutines, NEW to \in {"done", "failed"}, Leaves(s, to), cached' \in {"in", "old"} => trakt'
      PROVE  SeenOnTrakt'
  <2>1. [NoSync EXCEPT !.at = to, !.fresh = sync[s].fresh].at = to
    BY DEF NoSync
  <2> QED
    BY <1>l, <1>p, <2>1 DEF Leaves
<1>r. ASSUME NEW s \in Goroutines, Returns(s), UNCHANGED cached PROVE SeenOnTrakt'
  BY <1>0, <1>p, <1>r DEF Returns
<1>o. \A s \in Goroutines : /\ Outdated(sync)[s].at = sync[s].at
                            /\ Outdated(sync)[s].previous = sync[s].previous
                            /\ Outdated(sync)[s].current = sync[s].current
  BY <1>0 DEF Outdated, SyncTypes, Syncs
<1>k. CASE UNCHANGED <<sync, cached>>
  BY <1>0, <1>k
<1>1. ASSUME NEW s \in Goroutines, SyncStep(s) PROVE SeenOnTrakt'
  <2>1. CASE SetTrakt(s) \/ LockTrakt(s)
    BY <1>0, <1>g, <2>1 DEF SetTrakt, LockTrakt, memory
  <2>2. CASE Activities(s)
    <3>1. CASE Returns(s)
      BY <1>r, <2>2, <3>1 DEF Activities, memory
    <3>2. CASE ~Returns(s)
      <4> DEFINE run == [sync[s] EXCEPT !.at = "locking", !.news = news, !.fresh = TRUE]
      <4>1. run.at = "locking"
        BY <1>0 DEF SyncTypes, Syncs
      <4>2. sync' = [sync EXCEPT ![s] = run] /\ cached' = cached
        BY <2>2, <3>2 DEF Activities, memory
      <4> HIDE DEF run
      <4> QED
        BY <1>0, <1>p, <4>1, <4>2
    <3> QED
      BY <3>1, <3>2
  <2>3. CASE ActivitiesFail(s) \/ SyncFailed(s) \/ StoreActivities(s)
    BY <1>r, <2>3 DEF ActivitiesFail, SyncFailed, StoreActivities, memory
  <2>4. CASE Watched(s)
    <3> DEFINE asks == sync[s].news \/ cached = "none"
               current == IF asks THEN trakt ELSE cached # "out"
               run == [sync[s] EXCEPT !.at = "diff", !.news = FALSE, !.previous = cached, !.current = current]
    <3>1. cached' = (IF asks THEN (IF trakt THEN "in" ELSE "out") ELSE cached) /\ trakt' = trakt
      BY <2>4 DEF Watched, marks
    <3>2. cached' \in {"in", "old"} => trakt'
      BY <1>0, <3>1
    <3>3. CASE Leaves(s, "done")
      BY <1>l, <3>2, <3>3
    <3>4. CASE ~Leaves(s, "done")
      <4>1. sync' = [sync EXCEPT ![s] = run]
        BY <2>4, <3>4 DEF Watched
      <4>2. cached \in {"in", "old"} => current
        BY <1>0
      <4>3. sync[s] \in Syncs
        BY <1>0 DEF SyncTypes
      <4> HIDE DEF asks, current
      <4>4. run.previous = cached /\ run.current = current
        BY <4>3 DEF Syncs
      <4> HIDE DEF run
      <4> QED
        BY <1>0, <3>2, <4>1, <4>2, <4>4 DEF SyncTypes
    <3> QED
      BY <3>3, <3>4
  <2>5. CASE WatchedFails(s) \/ SendFails(s)
    BY <1>0, <1>l, <2>5 DEF WatchedFails, SendFails, memory, marks
  <2>6. CASE ApplyDiff(s)
    <3> DEFINE run == [sync[s] EXCEPT !.at = "compare", !.previous = "none"]
    <3>1. run.at = "compare"
      BY <1>0 DEF SyncTypes, Syncs
    <3>2. sync' = [sync EXCEPT ![s] = run] /\ cached' = cached
      BY <2>6 DEF ApplyDiff, memory
    <3> HIDE DEF run
    <3> QED
      BY <1>0, <1>p, <3>1, <3>2
  <2>7. CASE Compare(s)
    <3>1. cached' = cached
      BY <2>7 DEF Compare
    <3>2. CASE Leaves(s, "done")
      BY <1>0, <1>l, <3>1, <3>2
    <3>3. CASE ~Leaves(s, "done")
      <4> DEFINE run == [sync[s] EXCEPT !.at = "send", !.current = FALSE, !.send = Seen(s)]
      <4>1. run.at = "send"
        BY <1>0 DEF SyncTypes, Syncs
      <4>2. sync' = [sync EXCEPT ![s] = run]
        BY <2>7, <3>3 DEF Compare
      <4> HIDE DEF run
      <4> QED
        BY <1>0, <1>p, <3>1, <4>1, <4>2
    <3> QED
      BY <3>2, <3>3
  <2>8. CASE DropCached(s)
    BY <1>g, <2>8 DEF DropCached
  <2>9. CASE Send(s)
    <3> DEFINE run == [NoSync EXCEPT !.at = "done"]
    <3>1. run.at = "done"
      BY DEF NoSync
    <3>2. sync' = [Outdated(sync) EXCEPT ![s] = run] /\ cached' = cached
      BY <2>9 DEF Send
    <3>3. DOMAIN Outdated(sync) = Goroutines
      BY DEF Outdated
    <3> HIDE DEF run
    <3> QED
      BY <1>0, <1>o, <3>1, <3>2, <3>3
  <2> QED
    BY <1>1, <2>1, <2>2, <2>3, <2>4, <2>5, <2>6, <2>7, <2>8, <2>9 DEF SyncStep
<1>2. ASSUME NEW s \in Goroutines, RefreshTrakt(s), UNCHANGED cached PROVE SeenOnTrakt'
  BY <1>0, <1>2, <1>g, <1>k DEF RefreshTrakt
<1>3. WatchMovies \/ WatchOverall \/ PlanTraktUpdate \/ OnUpdate \/ RefreshOnScan \/ Stop
        => UNCHANGED <<sync, cached>>
  BY DEF WatchMovies, RefreshMovies, WatchOverall, Refresh, PlanTraktUpdate, OnUpdate, RefreshOnScan, Stop, memory
<1>4. CASE WatchTrakt
  BY <1>2, <1>4 DEF WatchTrakt, memory
<1>5. CASE Expire
  BY <1>0, <1>5 DEF Expire, memory
<1>6. CASE User
  <2>1. ASSUME NEW watched \in BOOLEAN, MarkOnTrakt(watched) PROVE SeenOnTrakt'
    BY <1>0, <1>o, <2>1 DEF MarkOnTrakt
  <2>2. CASE TraktHistoryMovies
    BY <1>0, <2>2 DEF TraktHistoryMovies, marks
  <2>3. CASE UpdateTrakt
    BY <1>2, <2>3 DEF UpdateTrakt, memory
  <2>4. CASE (\E watched \in BOOLEAN : MarkInKodi(watched)) \/ UpdateLibrary \/ Play \/ MarkKodiRefresh
    BY <1>k, <2>4 DEF MarkInKodi, UpdateLibrary, Refresh, Play, MarkKodiRefresh, memory
  <2> QED
    BY <1>6, <2>1, <2>2, <2>3, <2>4 DEF User
<1> QED
  BY <1>1, <1>3, <1>4, <1>5, <1>6, <1>k, RefreshSteps DEF LibraryNext, Tracked, libraryVars, memory

LEMMA SendsStep ==
  ASSUME MarksInv, [LibraryNext]_libraryVars, ~cleared', ~accident
  PROVE  SendsMarks'
<1> USE DEF SendsMarks
<1>0. SendsMarks /\ SetOnce /\ SyncTypes /\ NoSync.at = "away"
  BY ClearedStays DEF MarksInv, Undisturbed, LibraryTypes, NoSync
<1>p. ASSUME NEW s \in Goroutines, NEW run, run.at \notin {"send", "posting"}, sync' = [sync EXCEPT ![s] = run]
      PROVE  SendsMarks'
  BY <1>0, <1>p DEF SyncTypes
<1>g. ASSUME NEW s \in Goroutines, NEW to \in {"tested", "activities", "watched"}, Goes(s, to) PROVE SendsMarks'
  <2>1. [sync[s] EXCEPT !.at = to].at = to
    BY <1>0 DEF SyncTypes, Syncs
  <2> QED
    BY <1>g, <1>p, <2>1 DEF Goes
<1>l. ASSUME NEW s \in Goroutines, NEW to \in {"done", "failed"}, Leaves(s, to) PROVE SendsMarks'
  <2>1. [NoSync EXCEPT !.at = to, !.fresh = sync[s].fresh].at = to
    BY DEF NoSync
  <2> QED
    BY <1>l, <1>p, <2>1 DEF Leaves
<1>r. ASSUME NEW s \in Goroutines, Returns(s) PROVE SendsMarks'
  BY <1>0, <1>p, <1>r DEF Returns
<1>o. \A s \in Goroutines : Outdated(sync)[s].at = sync[s].at /\ Outdated(sync)[s].send = sync[s].send
  BY <1>0 DEF Outdated, SyncTypes, Syncs
<1>k. CASE UNCHANGED sync
  BY <1>0, <1>k
<1>1. ASSUME NEW s \in Goroutines, SyncStep(s) PROVE SendsMarks'
  <2>1. CASE SetTrakt(s) \/ LockTrakt(s)
    BY <1>g, <2>1 DEF SetTrakt, LockTrakt
  <2>2. CASE Activities(s)
    <3> DEFINE run == [sync[s] EXCEPT !.at = "locking", !.news = news, !.fresh = TRUE]
    <3>1. run.at = "locking"
      BY <1>0 DEF SyncTypes, Syncs
    <3>2. Returns(s) \/ sync' = [sync EXCEPT ![s] = run]
      BY <2>2 DEF Activities
    <3> HIDE DEF run
    <3> QED
      BY <1>p, <1>r, <3>1, <3>2
  <2>3. CASE ActivitiesFail(s) \/ SyncFailed(s) \/ StoreActivities(s)
    BY <1>r, <2>3 DEF ActivitiesFail, SyncFailed, StoreActivities
  <2>4. CASE Watched(s)
    <3> DEFINE current == IF sync[s].news \/ cached = "none" THEN trakt ELSE cached # "out"
               run == [sync[s] EXCEPT !.at = "diff", !.news = FALSE, !.previous = cached, !.current = current]
    <3>1. run.at = "diff"
      BY <1>0 DEF SyncTypes, Syncs
    <3>2. Leaves(s, "done") \/ sync' = [sync EXCEPT ![s] = run]
      BY <2>4 DEF Watched
    <3> HIDE DEF run
    <3> QED
      BY <1>p, <1>l, <3>1, <3>2
  <2>5. CASE WatchedFails(s) \/ SendFails(s)
    BY <1>l, <2>5 DEF WatchedFails, SendFails
  <2>6. CASE ApplyDiff(s)
    <3> DEFINE run == [sync[s] EXCEPT !.at = "compare", !.previous = "none"]
    <3>1. run.at = "compare"
      BY <1>0 DEF SyncTypes, Syncs
    <3>2. sync' = [sync EXCEPT ![s] = run]
      BY <2>6 DEF ApplyDiff
    <3> HIDE DEF run
    <3> QED
      BY <1>p, <3>1, <3>2
  \* What is sent differs from Trakt's side: a mark, since a movie there that is unmarked in the
  \* copy has not been set by the sync, and is set now.
  <2>7. CASE Compare(s)
    <3>1. CASE Leaves(s, "done")
      BY <1>l, <3>1
    <3>2. CASE ~Leaves(s, "done")
      <4> DEFINE sent == Seen(s)
                 run == [sync[s] EXCEPT !.at = "send", !.current = FALSE, !.send = sent]
      <4>1. Differs(s) /\ sync' = [sync EXCEPT ![s] = run]
        BY <2>7, <3>2 DEF Compare
      <4>2. sync[s].current \in BOOLEAN
        BY <1>0 DEF SyncTypes, Syncs
      <4>3. sync[s].current => list \/ ~lastPlaycount
        BY <1>0 DEF SetOnce
      <4>4. sent
        BY <4>1, <4>2, <4>3 DEF Differs, Seen, Restores
      <4> HIDE DEF sent
      <4>5. run.send = sent
        BY <1>0 DEF SyncTypes, Syncs
      <4> HIDE DEF run
      <4> QED
        BY <1>0, <4>1, <4>4, <4>5 DEF SyncTypes
    <3> QED
      BY <3>1, <3>2
  <2>8. CASE DropCached(s)
    <3> DEFINE run == [sync[s] EXCEPT !.at = "posting"]
    <3>1. run.send = sync[s].send /\ sync[s].at = "send" /\ sync' = [sync EXCEPT ![s] = run]
      BY <1>0, <2>8 DEF DropCached, Goes, SyncTypes, Syncs
    <3> HIDE DEF run
    <3> QED
      BY <1>0, <3>1 DEF SyncTypes
  <2>9. CASE Send(s)
    <3> DEFINE run == [NoSync EXCEPT !.at = "done"]
    <3>1. run.at = "done"
      BY DEF NoSync
    <3>2. sync' = [Outdated(sync) EXCEPT ![s] = run] /\ DOMAIN Outdated(sync) = Goroutines
      BY <2>9 DEF Send, Outdated
    <3> HIDE DEF run
    <3> QED
      BY <1>0, <1>o, <3>1, <3>2
  <2> QED
    BY <1>1, <2>1, <2>2, <2>3, <2>4, <2>5, <2>6, <2>7, <2>8, <2>9 DEF SyncStep
<1>2. ASSUME NEW s \in Goroutines, RefreshTrakt(s) PROVE SendsMarks'
  BY <1>2, <1>g, <1>k DEF RefreshTrakt
<1>3. WatchMovies \/ WatchOverall \/ PlanTraktUpdate \/ OnUpdate \/ RefreshOnScan \/ Expire \/ Stop
        => UNCHANGED sync
  BY DEF WatchMovies, RefreshMovies, WatchOverall, Refresh, PlanTraktUpdate, OnUpdate, RefreshOnScan, Expire, Stop
<1>4. CASE WatchTrakt
  BY <1>2, <1>4 DEF WatchTrakt
<1>5. CASE User
  <2>1. ASSUME NEW watched \in BOOLEAN, MarkOnTrakt(watched) PROVE SendsMarks'
    BY <1>0, <1>o, <2>1 DEF MarkOnTrakt
  <2>2. CASE UpdateTrakt
    BY <1>2, <2>2 DEF UpdateTrakt
  <2>3. CASE \/ \E watched \in BOOLEAN : MarkInKodi(watched)
             \/ TraktHistoryMovies \/ UpdateLibrary \/ Play \/ MarkKodiRefresh
    BY <1>k, <2>3 DEF MarkInKodi, TraktHistoryMovies, UpdateLibrary, Refresh, Play, MarkKodiRefresh
  <2> QED
    BY <1>5, <2>1, <2>2, <2>3 DEF User
<1> QED
  BY <1>1, <1>3, <1>4, <1>5, <1>k, RefreshSteps DEF LibraryNext, Tracked, libraryVars

\* No list is stored, or asked for, that says the movie is unmarked.
LEMMA SetStep ==
  ASSUME MarksInv, [LibraryNext]_libraryVars, ~cleared', ~accident, ~accident', LibraryTypes'
  PROVE  SetOnce'
<1> USE DEF SetOnce
<1> DEFINE Good == \A r \in Goroutines : refresh[r].at = "storing" => refresh[r].got
<1>0. /\ SetOnce /\ SeenOnTrakt /\ ~Overlap /\ (kodi => kodi')
      /\ MarkTypes /\ RefreshTypes /\ SyncTypes /\ MarkTypes'
  BY ClearedStays, NothingUnmarks DEF MarksInv, Undisturbed, LibraryTypes
<1>k. ASSUME UNCHANGED <<list, refresh>>, lastPlaycount' => lastPlaycount PROVE SetOnce'
  BY <1>0, <1>k
<1>1. ASSUME NEW r \in Goroutines, RefreshStep(r) PROVE SetOnce'
  <2>1. lastPlaycount' = lastPlaycount /\ kodi' = kodi
    BY <1>1, RefreshSteps DEF memory
  <2>2. CASE SetOverall(r) \/ SetRunning(r)
    <3>1. list' = list /\ \A q \in Goroutines : refresh'[q].at = "storing" => refresh'[q] = refresh[q]
      <4>1. list' = list /\ \A q \in Goroutines \ {r} : refresh'[q] = refresh[q]
        BY <1>0, <2>2 DEF SetOverall, SetRunning, RefreshTypes
      <4>2. refresh'[r].at # "storing"
        <5>1. CASE SetOverall(r) /\ MayRefresh
          <6> DEFINE tested == [refresh[r] EXCEPT !.at = "tested", !.overall = TRUE]
          <6>1. refresh'[r] = tested
            BY <1>0, <5>1 DEF SetOverall, RefreshTypes
          <6>2. refresh[r] \in Updates
            BY <1>0 DEF RefreshTypes
          <6>3. tested.at = "tested"
            BY <6>2 DEF Updates
          <6> QED
            BY <6>1, <6>3
        <5>2. CASE SetOverall(r) /\ ~MayRefresh
          BY <1>0, <5>2 DEF SetOverall, RefreshTypes, Away
        <5>3. CASE SetRunning(r)
          BY <1>0, <5>3 DEF SetRunning, RefreshTypes, Updates
        <5> QED
          BY <2>2, <5>1, <5>2, <5>3
      <4> QED
        BY <4>1, <4>2
    <3> QED
      BY <1>0, <2>1, <3>1
  <2>3. CASE Fetch(r)
    <3>1. list' = list /\ refresh'[r].got = kodi /\ \A q \in Goroutines \ {r} : refresh'[q] = refresh[q]
      BY <1>0, <2>3 DEF Fetch, RefreshTypes, Updates
    <3> QED
      BY <1>0, <2>1, <3>1
  <2>4. CASE FetchFails(r) \/ Store(r)
    <3>1. /\ list' = list \/ (refresh[r].at = "storing" /\ list' = refresh[r].got)
          /\ refresh'[r].at = "away" /\ \A q \in Goroutines \ {r} : refresh'[q] = refresh[q]
      BY <1>0, <2>4 DEF FetchFails, Store, Return, Away, RefreshTypes
    <3>2. ASSUME lastPlaycount PROVE list'
      <4>1. list /\ (refresh[r].at = "storing" => refresh[r].got)
        BY <1>0, <3>2
      <4>2. CASE list' = list
        BY <4>1, <4>2, Zenon
      <4>3. CASE refresh[r].at = "storing" /\ list' = refresh[r].got
        BY <4>1, <4>3, Zenon
      <4> QED
        BY <3>1, <4>2, <4>3
    <3>3. lastPlaycount => \A q \in Goroutines : refresh'[q].at = "storing" => refresh'[q].got
      BY <1>0, <3>1
    <3> QED
      BY <1>0, <2>1, <3>2, <3>3
  <2> QED
    BY <1>1, <2>2, <2>3, <2>4 DEF RefreshStep
<1>2. ASSUME NEW s \in Goroutines, SyncStep(s) PROVE SetOnce'
  <2>1. CASE ApplyDiff(s)
    <3>1. ~Gone(sync[s].previous, sync[s].current)
      BY <2>1, <1>0 DEF ApplyDiff, SeenOnTrakt, Gone
    <3>2. (list => list') /\ refresh' = refresh /\ lastPlaycount' = lastPlaycount
      BY <2>1, <3>1 DEF ApplyDiff, SetInKodi, memory
    <3> QED
      BY <1>0, <3>2
  <2>2. CASE Compare(s)
    <3>1. CASE Restores(s)
      <4>1. /\ ~list /\ list' /\ sync[s].at = "compare" /\ refresh' = refresh
            /\ \A r \in Goroutines : refresh[r].at # "storing"
        BY <1>0, <2>2, <3>1 DEF Compare, SetInKodi, Restores, Overlap, Reading, Writing
      <4>2. sync'[s] # sync[s]
        <5>1. \/ sync' = [sync EXCEPT ![s] = [@ EXCEPT !.at = "send", !.current = FALSE, !.send = Seen(s)]]
              \/ sync' = [sync EXCEPT ![s] = [NoSync EXCEPT !.at = "done", !.fresh = sync[s].fresh]]
          BY <2>2 DEF Compare, Leaves
        <5>2. /\ [sync[s] EXCEPT !.at = "send", !.current = FALSE, !.send = Seen(s)].at = "send"
              /\ [NoSync EXCEPT !.at = "done", !.fresh = sync[s].fresh].at = "done"
          BY <1>0 DEF NoSync, SyncTypes, Syncs
        <5>3. sync'[s].at \in {"send", "done"}
          BY <1>0, <5>1, <5>2 DEF SyncTypes
        <5> QED
          BY <4>1, <5>3
      <4>3. LibraryNext
        BY <4>1 DEF libraryVars, library
      <4>4. ~Refused
        BY <4>3 DEF LibraryNext, Tracked
      <4>5. kodi'
        BY <1>0, <4>1, <4>2, <4>4 DEF Refused, MarkTypes
      <4> QED
        BY <4>1, <4>5
    <3>2. CASE ~Restores(s)
      BY <1>k, <2>2, <3>2 DEF Compare
    <3> QED
      BY <3>1, <3>2
  <2>3. CASE Watched(s) \/ DropCached(s) \/ Send(s) \/ SendFails(s)
    BY <1>k, <2>3 DEF Watched, DropCached, Send, SendFails, library, memory
  <2> QED
    BY <1>2, <1>k, <2>1, <2>2, <2>3, OtherSyncSteps DEF SyncStep, memory
<1>3. WatchTrakt \/ PlanTraktUpdate \/ OnUpdate \/ RefreshOnScan \/ Stop \/ Expire
        => UNCHANGED <<list, refresh>> /\ (lastPlaycount' => lastPlaycount)
  BY DEF WatchTrakt, PlanTraktUpdate, OnUpdate, RefreshOnScan, Stop, Expire, library, memory
<1>4. ASSUME NEW r \in Goroutines, RefreshMovies(r) \/ Refresh(r) PROVE SetOnce'
  <2>1. /\ UNCHANGED <<list, kodi, lastPlaycount>>
        /\ \A q \in Goroutines : refresh'[q].at = "storing" => refresh'[q] = refresh[q]
    BY <1>0, <1>4 DEF RefreshMovies, Refresh, memory, marks, RefreshTypes, Updates
  <2> QED
    BY <1>0, <2>1
<1>5. CASE User
  <2>1. (\E watched \in BOOLEAN : MarkInKodi(watched) \/ MarkOnTrakt(watched)) \/ TraktHistoryMovies
        \/ UpdateTrakt \/ Play \/ MarkKodiRefresh => UNCHANGED <<list, refresh, lastPlaycount>>
    BY DEF MarkInKodi, MarkOnTrakt, TraktHistoryMovies, UpdateTrakt, Play, MarkKodiRefresh, library, memory
  <2> QED
    BY <1>4, <1>5, <1>k, <2>1 DEF User, UpdateLibrary
<1>6. UNCHANGED libraryVars => UNCHANGED <<list, refresh, lastPlaycount>>
  BY DEF libraryVars, library, memory
<1> QED
  BY <1>1, <1>2, <1>3, <1>4, <1>5, <1>6, <1>k DEF LibraryNext, Tracked, WatchMovies, WatchOverall

LEMMA MarksInit == LibraryInit => MarksInv
<1> SUFFICES ASSUME LibraryInit PROVE MarksInv
  OBVIOUS
<1>1. /\ cached = "none" /\ lastPlaycount = FALSE
      /\ \A g \in Goroutines : refresh[g].at = "away" /\ sync[g].at = "away"
  BY DEF LibraryInit, NoSync, Away
<1> QED
  BY <1>1, LibraryTypesInit DEF MarksInv, Overlap, Reading, SeenOnTrakt, SetOnce, SendsMarks

LEMMA MarksStep == MarksInv /\ [LibraryNext]_libraryVars => MarksInv'
<1> SUFFICES ASSUME MarksInv, [LibraryNext]_libraryVars PROVE MarksInv'
  OBVIOUS
<1>1. LibraryTypes'
  BY RefreshTypesStep, SyncTypesStep, MarkTypesStep DEF MarksInv, LibraryTypes
<1>2. ASSUME Undisturbed' PROVE ~Overlap' /\ SeenOnTrakt' /\ SetOnce' /\ SendsMarks'
  <2>0. ~cleared' /\ ~accident' /\ ~cleared
    BY <1>2, ClearedStays DEF Undisturbed
  <2>1. CASE UNCHANGED libraryVars
    BY <2>0, <2>1 DEF MarksInv, Undisturbed, libraryVars, library, memory, marks, Overlap, Reading, Writing,
                      SeenOnTrakt, SetOnce, SendsMarks
  <2>2. CASE LibraryNext
    <3>1. ~Overlap' /\ (accident => Agree')
      BY <2>0, <2>2 DEF LibraryNext, Tracked
    <3>2. CASE ~accident
      BY <1>1, <2>0, <3>1, <3>2, SeenStep, SendsStep, SetStep
    \* When an accident is over, the copy, Kodi and Trakt bear out what is remembered.
    <3>3. CASE Agree'
      BY <3>1, <3>3 DEF Agree, Reading, Writing, SeenOnTrakt, SetOnce, SendsMarks
    <3> QED
      BY <3>1, <3>2, <3>3
  <2> QED
    BY <2>1, <2>2
<1> QED
  BY <1>1, <1>2 DEF MarksInv

----------------------------------------------------------------------------
\* The synchronisation with Trakt takes back no mark, in Kodi or on Trakt, that a user has not taken
\* back, but after an accident: for any number of updates at once that pass each other's tests of
\* the flags, of failed requests, of changes and of expired memories, and again when an accident has
\* been made good.
THEOREM NoMarkIsLost == LibrarySpec => MarksAreKept
<1>1. MarksInv /\ [LibraryNext]_libraryVars =>
        [~cleared' /\ ~accident => (kodi => kodi') /\ (trakt => trakt')]_libraryVars
  BY NothingUnmarks
<1> QED
  BY <1>1, MarksInit, MarksStep, PTL DEF LibrarySpec, MarksAreKept
============================================================================
