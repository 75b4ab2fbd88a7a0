-------------------------- MODULE BroadcastProofs ---------------------------
(***************************************************************************)
(* Proofs about Broadcast, for any writers, receivers, values and bound.   *)
(*                                                                         *)
(* Neither MessageInOnePlace nor NoSendOnClosed is inductive: that a       *)
(* receiver has something to put back, that it is never ahead of the       *)
(* writer, and that a write in progress has a node to move to are needed   *)
(* as well (Hands, Behind, LockRoom).  Position is what the refinement     *)
(* needs besides: what the user of r was given ends where r now stands.    *)
(***************************************************************************)
EXTENDS Broadcast, TLAPS

(* A receiver holds a value exactly between taking it and handing it over. *)
Hands ==
  \A r \in Receivers : held[r] # Empty <=> pc[r] \in {"putback", "send"}

(* A receiver stands at a written node, or at the one written next. *)
Behind ==
  \A r \in Receivers : rc[r] <= Written

(* Inside Write the next node exists, and only the owner ever closes. *)
LockRoom ==
  /\ mx # Empty => tail < MaxWrites /\ ~closed
  /\ closed => Owner # Empty

(* The values given to the user of r are those of the nodes r went past, *)
(* and the one r is about to hand over is that of the node before its own. *)
Place(r) ==
  /\ pc[r] = "none" => got[r] = <<>> /\ user[r] = "reading"
  /\ pc[r] \in {"select", "putback"} => from[r] + Len(got[r]) = rc[r]
  /\ pc[r] = "send" => from[r] + Len(got[r]) + 1 = rc[r]

NextValue(r) ==
  \A n \in Nodes : pc[r] = "send" /\ rc[r] = n + 1 => held[r] = ValueAt(n)

Position == \A r \in Receivers : Place(r) /\ NextValue(r)

(* MessageInOnePlace, receiver by receiver and node by node. *)
PutsBackToEmpty ==
  \A r \in Receivers :
    pc[r] = "putback" => rc[r] < Written /\ slot[rc[r]] = Empty

OneHolder ==
  \A r, q \in Receivers :
    pc[r] = "putback" /\ pc[q] = "putback" /\ rc[r] = rc[q] => r = q

NoneLost ==
  \A n \in Nodes :
    n < Written /\ slot[n] = Empty
      => \E r \in Receivers : pc[r] = "putback" /\ rc[r] = n

NotYetWritten ==
  \A n \in Nodes : n >= Written => slot[n] = Empty

IInv ==
  /\ TypeOK
  /\ Hands
  /\ Behind
  /\ LockRoom
  /\ PutsBackToEmpty
  /\ OneHolder
  /\ NoneLost
  /\ NotYetWritten

-----------------------------------------------------------------------------
LEMMA InitIInv == Init => IInv
<1> SUFFICES ASSUME Init PROVE IInv
  OBVIOUS
<1> USE OwnerAssumption, MaxWritesAssumption DEF Init, Nodes, PCs
<1>1. TypeOK
  <2>1. <<>> \in Seq(Values)
    OBVIOUS
  <2>2. got \in [Receivers -> Seq(Values)]
    BY <2>1
  <2>3. slot \in [Nodes -> Values \cup {Empty}]
    OBVIOUS
  <2>4. tail \in Nodes /\ mx \in Writers \cup {Empty} /\ closed \in BOOLEAN
    OBVIOUS
  <2>5. pc \in [Receivers -> PCs] /\ rc \in [Receivers -> Nodes]
    OBVIOUS
  <2>6. held \in [Receivers -> Values \cup {Empty}] /\ from \in [Receivers -> Nodes]
    OBVIOUS
  <2>7. user \in [Receivers -> {"reading", "gone"}]
    OBVIOUS
  <2> QED BY <2>2, <2>3, <2>4, <2>5, <2>6, <2>7 DEF TypeOK
<1>2. Hands /\ Behind /\ LockRoom
  BY DEF Hands, Behind, LockRoom, Written
<1>3. PutsBackToEmpty /\ OneHolder /\ NoneLost /\ NotYetWritten
  BY DEF PutsBackToEmpty, OneHolder, NoneLost, NotYetWritten, Written
<1> QED BY <1>1, <1>2, <1>3 DEF IInv

(* The type invariant, one step per action. *)
LEMMA TypeStep == IInv /\ [Next]_vars => TypeOK'
<1> SUFFICES ASSUME IInv, [Next]_vars PROVE TypeOK'
  OBVIOUS
<1> USE OwnerAssumption, MaxWritesAssumption DEF IInv, TypeOK, Nodes, PCs
<1>1. ASSUME NEW w \in Writers, NEW v \in Values, WriteSend(w, v) PROVE TypeOK'
  BY <1>1 DEF WriteSend
<1>2. ASSUME NEW w \in Writers, WriteSwap(w) PROVE TypeOK'
  BY <1>2 DEF WriteSwap, LockRoom
<1>3. CASE Close
  BY <1>3 DEF Close
<1>4. ASSUME NEW r \in Receivers, Listen(r) PROVE TypeOK'
  BY <1>4 DEF Listen
<1>5. ASSUME NEW r \in Receivers, Take(r) PROVE TypeOK'
  BY <1>5 DEF Take
<1>6. ASSUME NEW r \in Receivers, PutBack(r) PROVE TypeOK'
  BY <1>6 DEF PutBack, PutsBackToEmpty, Written, LockRoom
<1>7. ASSUME NEW r \in Receivers, Deliver(r) PROVE TypeOK'
  <2>1. held[r] \in Values
    BY <1>7 DEF Deliver, Hands
  <2>2. Append(got[r], held[r]) \in Seq(Values)
    BY <2>1
  <2> QED BY <1>7, <2>2 DEF Deliver
<1>8. ASSUME NEW r \in Receivers, EndOfStream(r) PROVE TypeOK'
  BY <1>8 DEF EndOfStream
<1>9. ASSUME NEW r \in Receivers, Done(r) PROVE TypeOK'
  BY <1>9 DEF Done
<1>10. ASSUME NEW r \in Receivers, Leave(r) PROVE TypeOK'
  BY <1>10 DEF Leave
<1>11. CASE UNCHANGED vars
  BY <1>11 DEF vars
<1> QED BY <1>1, <1>2, <1>3, <1>4, <1>5, <1>6, <1>7, <1>8, <1>9, <1>10, <1>11
        DEF Next, Receive

(* Every step preserves the inductive invariant, one step per action. *)
LEMMA IInvStep == IInv /\ [Next]_vars => IInv'
<1> SUFFICES ASSUME IInv, [Next]_vars PROVE IInv'
  OBVIOUS
<1>0. TypeOK'
  BY TypeStep
<1> USE OwnerAssumption, MaxWritesAssumption, <1>0 DEF TypeOK, Nodes, PCs
<1>1. ASSUME NEW w \in Writers, NEW v \in Values, WriteSend(w, v) PROVE IInv'
  <2>1. Hands' /\ Behind' /\ LockRoom'
    BY <1>1 DEF WriteSend, IInv, Hands, Behind, LockRoom, PutsBackToEmpty, Written
  <2>2. PutsBackToEmpty' /\ OneHolder'
    BY <1>1 DEF WriteSend, IInv, PutsBackToEmpty, OneHolder, NotYetWritten, Behind, Written
  <2>3. NoneLost' /\ NotYetWritten'
    BY <1>1 DEF WriteSend, IInv, NoneLost, NotYetWritten, OneHolder, PutsBackToEmpty, Written
  <2> QED BY <2>1, <2>2, <2>3 DEF IInv
<1>2. ASSUME NEW w \in Writers, WriteSwap(w) PROVE IInv'
  <2>1. Hands' /\ Behind' /\ LockRoom'
    BY <1>2 DEF WriteSwap, IInv, Hands, Behind, LockRoom, PutsBackToEmpty, Written
  <2>2. PutsBackToEmpty' /\ OneHolder'
    BY <1>2 DEF WriteSwap, IInv, PutsBackToEmpty, OneHolder, NotYetWritten, Behind, Written
  <2>3. NoneLost' /\ NotYetWritten'
    BY <1>2 DEF WriteSwap, IInv, NoneLost, NotYetWritten, OneHolder, PutsBackToEmpty, Written
  <2> QED BY <2>1, <2>2, <2>3 DEF IInv
<1>3. CASE Close
  <2>1. Hands' /\ Behind' /\ LockRoom'
    BY <1>3 DEF Close, IInv, Hands, Behind, LockRoom, PutsBackToEmpty, Written
  <2>2. PutsBackToEmpty' /\ OneHolder'
    BY <1>3 DEF Close, IInv, PutsBackToEmpty, OneHolder, NotYetWritten, Behind, Written
  <2>3. NoneLost' /\ NotYetWritten'
    BY <1>3 DEF Close, IInv, NoneLost, NotYetWritten, OneHolder, PutsBackToEmpty, Written
  <2> QED BY <2>1, <2>2, <2>3 DEF IInv
<1>4. ASSUME NEW r \in Receivers, Listen(r) PROVE IInv'
  <2>1. Hands' /\ Behind' /\ LockRoom'
    BY <1>4 DEF Listen, IInv, Hands, Behind, LockRoom, PutsBackToEmpty, Written
  <2>2. PutsBackToEmpty' /\ OneHolder'
    BY <1>4 DEF Listen, IInv, PutsBackToEmpty, OneHolder, NotYetWritten, Behind, Written
  <2>3. NoneLost' /\ NotYetWritten'
    BY <1>4 DEF Listen, IInv, NoneLost, NotYetWritten, OneHolder, PutsBackToEmpty, Written
  <2> QED BY <2>1, <2>2, <2>3 DEF IInv
<1>5. ASSUME NEW r \in Receivers, Take(r) PROVE IInv'
  <2>1. Hands' /\ Behind' /\ LockRoom'
    BY <1>5 DEF Take, IInv, Hands, Behind, LockRoom, PutsBackToEmpty, Written
  <2>2. PutsBackToEmpty' /\ OneHolder'
    BY <1>5 DEF Take, IInv, PutsBackToEmpty, OneHolder, NotYetWritten, Behind, Written
  <2>3. NoneLost' /\ NotYetWritten'
    BY <1>5 DEF Take, IInv, NoneLost, NotYetWritten, OneHolder, PutsBackToEmpty, Written
  <2> QED BY <2>1, <2>2, <2>3 DEF IInv
<1>6. ASSUME NEW r \in Receivers, PutBack(r) PROVE IInv'
  <2>1. Hands' /\ Behind' /\ LockRoom'
    BY <1>6 DEF PutBack, IInv, Hands, Behind, LockRoom, PutsBackToEmpty, Written
  <2>2. PutsBackToEmpty' /\ OneHolder'
    BY <1>6 DEF PutBack, IInv, PutsBackToEmpty, OneHolder, NotYetWritten, Behind, Written
  <2>3. NoneLost' /\ NotYetWritten'
    BY <1>6 DEF PutBack, IInv, Hands, NoneLost, NotYetWritten, OneHolder, PutsBackToEmpty, Written
  <2> QED BY <2>1, <2>2, <2>3 DEF IInv
<1>7. ASSUME NEW r \in Receivers, Deliver(r) PROVE IInv'
  <2>1. Hands' /\ Behind' /\ LockRoom'
    BY <1>7 DEF Deliver, IInv, Hands, Behind, LockRoom, PutsBackToEmpty, Written
  <2>2. PutsBackToEmpty' /\ OneHolder'
    BY <1>7 DEF Deliver, IInv, PutsBackToEmpty, OneHolder, NotYetWritten, Behind, Written
  <2>3. NoneLost' /\ NotYetWritten'
    BY <1>7 DEF Deliver, IInv, NoneLost, NotYetWritten, OneHolder, PutsBackToEmpty, Written
  <2> QED BY <2>1, <2>2, <2>3 DEF IInv
<1>8. ASSUME NEW r \in Receivers, EndOfStream(r) PROVE IInv'
  <2>1. Hands' /\ Behind' /\ LockRoom'
    BY <1>8 DEF EndOfStream, IInv, Hands, Behind, LockRoom, PutsBackToEmpty, Written
  <2>2. PutsBackToEmpty' /\ OneHolder'
    BY <1>8 DEF EndOfStream, IInv, PutsBackToEmpty, OneHolder, NotYetWritten, Behind, Written
  <2>3. NoneLost' /\ NotYetWritten'
    BY <1>8 DEF EndOfStream, IInv, NoneLost, NotYetWritten, OneHolder, PutsBackToEmpty, Written
  <2> QED BY <2>1, <2>2, <2>3 DEF IInv
<1>9. ASSUME NEW r \in Receivers, Done(r) PROVE IInv'
  <2>1. Hands' /\ Behind' /\ LockRoom'
    BY <1>9 DEF Done, IInv, Hands, Behind, LockRoom, PutsBackToEmpty, Written
  <2>2. PutsBackToEmpty' /\ OneHolder'
    BY <1>9 DEF Done, IInv, PutsBackToEmpty, OneHolder, NotYetWritten, Behind, Written
  <2>3. NoneLost' /\ NotYetWritten'
    BY <1>9 DEF Done, IInv, NoneLost, NotYetWritten, OneHolder, PutsBackToEmpty, Written
  <2> QED BY <2>1, <2>2, <2>3 DEF IInv
<1>10. ASSUME NEW r \in Receivers, Leave(r) PROVE IInv'
  <2>1. Hands' /\ Behind' /\ LockRoom'
    BY <1>10 DEF Leave, IInv, Hands, Behind, LockRoom, PutsBackToEmpty, Written
  <2>2. PutsBackToEmpty' /\ OneHolder'
    BY <1>10 DEF Leave, IInv, PutsBackToEmpty, OneHolder, NotYetWritten, Behind, Written
  <2>3. NoneLost' /\ NotYetWritten'
    BY <1>10 DEF Leave, IInv, NoneLost, NotYetWritten, OneHolder, PutsBackToEmpty, Written
  <2> QED BY <2>1, <2>2, <2>3 DEF IInv
<1>11. CASE UNCHANGED vars
  BY <1>11 DEF vars, IInv, Hands, Behind, LockRoom, PutsBackToEmpty, OneHolder,
               NoneLost, NotYetWritten, Written
<1> QED BY <1>1, <1>2, <1>3, <1>4, <1>5, <1>6, <1>7, <1>8, <1>9, <1>10, <1>11
        DEF Next, Receive

(* The inductive invariant holds in every reachable state. *)
THEOREM InvariantHolds == Spec => []IInv
<1>1. Init => IInv
  BY InitIInv
<1>2. IInv /\ [Next]_vars => IInv'
  BY IInvStep
<1> QED BY <1>1, <1>2, PTL DEF Spec

(* The variables of the broadcaster keep their types. *)
THEOREM TypeCorrect == Spec => []TypeOK
<1>1. IInv => TypeOK
  BY DEF IInv
<1> QED BY <1>1, InvariantHolds, PTL

LEMMA OnePlace == IInv => MessageInOnePlace
<1> SUFFICES ASSUME IInv, NEW n \in Nodes
    PROVE /\ n < Written => \/ slot[n] # Empty /\ Holders(n) = {}
                            \/ slot[n] = Empty /\ \E r \in Receivers : Holders(n) = {r}
          /\ n >= Written => slot[n] = Empty /\ Holders(n) = {}
  BY DEF MessageInOnePlace
<1> USE MaxWritesAssumption
<1>1. ASSUME n < Written, slot[n] # Empty
      PROVE Holders(n) = {}
  BY <1>1 DEF IInv, TypeOK, Nodes, Holders, PutsBackToEmpty
<1>2. ASSUME n < Written, slot[n] = Empty
      PROVE \E r \in Receivers : Holders(n) = {r}
  <2>1. PICK r \in Receivers : pc[r] = "putback" /\ rc[r] = n
    BY <1>2 DEF IInv, NoneLost
  <2>2. Holders(n) = {r}
    BY <2>1 DEF IInv, Holders, OneHolder
  <2> QED BY <2>2
<1>3. ASSUME n >= Written
      PROVE slot[n] = Empty /\ Holders(n) = {}
  <2>1. Holders(n) = {}
    BY <1>3 DEF IInv, TypeOK, Nodes, Holders, PutsBackToEmpty, Written
  <2> QED BY <1>3, <2>1 DEF IInv, NotYetWritten
<1> QED BY <1>1, <1>2, <1>3

(***************************************************************************)
(* No message is ever lost or duplicated while receivers take it out of    *)
(* its channel and put it back.                                            *)
(***************************************************************************)
THEOREM MessagesKept == Spec => []MessageInOnePlace
BY InvariantHolds, OnePlace, PTL

(***************************************************************************)
(* No goroutine sends on the channel that Close has closed, provided that  *)
(* only the single writer closes the broadcaster (OwnerAssumption).        *)
(***************************************************************************)
THEOREM NoPanic == Spec => []NoSendOnClosed
<1>1. IInv => NoSendOnClosed
  <2> SUFFICES ASSUME IInv, closed PROVE mx = Empty /\ Holders(tail) = {}
    BY DEF NoSendOnClosed
  <2>1. mx = Empty
    BY DEF IInv, LockRoom
  <2>2. Holders(tail) = {}
    BY <2>1 DEF IInv, TypeOK, Holders, PutsBackToEmpty, Written, Nodes
  <2> QED BY <2>1, <2>2
<1> QED BY <1>1, InvariantHolds, PTL

-----------------------------------------------------------------------------
(* The value of a written node is the one its message carries. *)
LEMMA ValueOfHeld ==
  ASSUME IInv, NEW r \in Receivers, pc[r] = "putback"
  PROVE  ValueAt(rc[r]) = held[r]
<1>1. Holders(rc[r]) = {r}
  BY DEF IInv, OneHolder, Holders
<1>2. (CHOOSE q \in Holders(rc[r]) : TRUE) = r
  BY <1>1
<1> QED BY <1>2 DEF IInv, PutsBackToEmpty, ValueAt

LEMMA ValueOfSlot ==
  ASSUME NEW n, slot[n] # Empty
  PROVE  ValueAt(n) = slot[n]
BY DEF ValueAt

LEMMA ValueTyped ==
  ASSUME IInv, NEW n \in Nodes, n < Written
  PROVE  ValueAt(n) \in Values
<1>1. CASE slot[n] # Empty
  BY <1>1, ValueOfSlot DEF IInv, TypeOK
<1>2. CASE slot[n] = Empty
  <2>1. PICK r \in Receivers : pc[r] = "putback" /\ rc[r] = n
    BY <1>2 DEF IInv, NoneLost
  <2> QED BY <2>1, ValueOfHeld DEF IInv, TypeOK, Hands
<1> QED BY <1>1, <1>2

(* The three facts above as one predicate, so that it can be primed. *)
ValueFacts ==
  /\ \A r \in Receivers : pc[r] = "putback" => ValueAt(rc[r]) = held[r]
  /\ \A n \in Nodes : slot[n] # Empty => ValueAt(n) = slot[n]
  /\ \A n \in Nodes : n < Written => ValueAt(n) \in Values

LEMMA ValueFactsHold == IInv => ValueFacts
BY ValueOfHeld, ValueOfSlot, ValueTyped DEF ValueFacts

(* No step changes a value written earlier, or unwrites it. *)
LogGrows ==
  /\ Written <= Written'
  /\ \A n \in Nodes : n < Written => ValueAt(n)' = ValueAt(n)

LEMMA LogGrowsStep == IInv /\ [Next]_vars => LogGrows
<1> SUFFICES ASSUME IInv, [Next]_vars PROVE LogGrows
  OBVIOUS
<1>0. IInv' /\ ValueFacts /\ ValueFacts'
  <2>1. IInv'
    BY IInvStep
  <2>2. ValueFacts
    BY ValueFactsHold
  <2>3. IInv' => ValueFacts'
    BY ValueFactsHold, PTL
  <2> QED BY <2>1, <2>2, <2>3
<1>1. Written <= Written'
  <2> USE OwnerAssumption DEF Written
  <2>0. tail \in Nat
    BY MaxWritesAssumption DEF IInv, TypeOK, Nodes
  <2>1. ASSUME NEW w \in Writers, NEW v \in Values, WriteSend(w, v)
        PROVE Written <= Written'
    BY <2>0, <2>1 DEF WriteSend
  <2>2. ASSUME NEW w \in Writers, WriteSwap(w) PROVE Written <= Written'
    BY <2>0, <2>2 DEF WriteSwap
  <2>3. ASSUME UNCHANGED <<tail, mx>> PROVE Written <= Written'
    BY <2>0, <2>3
  <2> QED BY <2>1, <2>2, <2>3 DEF Next, vars, Receive, Close, Listen, Take, PutBack,
             Deliver, EndOfStream, Done, Leave
<1>2. ASSUME NEW n \in Nodes, n < Written PROVE ValueAt(n)' = ValueAt(n)
  <2> USE <1>0, <1>2
  (* Inside a step either the message stays in the channel, ... *)
  <2>1. ASSUME slot[n] # Empty, slot'[n] = slot[n] PROVE ValueAt(n)' = ValueAt(n)
    BY <2>1 DEF ValueFacts
  (* ... or stays in the hands of the same receiver, ... *)
  <2>2. ASSUME NEW r \in Receivers, pc[r] = "putback", rc[r] = n,
               pc'[r] = "putback", rc'[r] = n, held'[r] = held[r]
        PROVE ValueAt(n)' = ValueAt(n)
    BY <2>2 DEF ValueFacts
  (* ... or goes from the one to the other. *)
  <2>3. ASSUME NEW r \in Receivers, Take(r) PROVE ValueAt(n)' = ValueAt(n)
    <3>1. CASE rc[r] = n
      BY <2>3, <3>1 DEF Take, ValueFacts, IInv, TypeOK
    <3>2. CASE rc[r] # n /\ slot[n] # Empty
      BY <2>1, <2>3, <3>2 DEF Take, IInv, TypeOK
    <3>3. CASE slot[n] = Empty
      <4>1. PICK q \in Receivers : pc[q] = "putback" /\ rc[q] = n
        BY <3>3 DEF IInv, NoneLost
      <4>2. q # r
        BY <2>3, <4>1 DEF Take
      <4> QED BY <2>2, <2>3, <4>1, <4>2 DEF Take, IInv, TypeOK
    <3> QED BY <3>1, <3>2, <3>3
  <2>4. ASSUME NEW r \in Receivers, PutBack(r) PROVE ValueAt(n)' = ValueAt(n)
    <3>1. CASE rc[r] = n
      BY <2>4, <3>1 DEF PutBack, ValueFacts, IInv, TypeOK, Hands
    <3>2. CASE rc[r] # n /\ slot[n] # Empty
      BY <2>1, <2>4, <3>2 DEF PutBack, IInv, TypeOK
    <3>3. CASE rc[r] # n /\ slot[n] = Empty
      <4>1. PICK q \in Receivers : pc[q] = "putback" /\ rc[q] = n
        BY <3>3 DEF IInv, NoneLost
      <4>2. q # r
        BY <3>3, <4>1
      <4> QED BY <2>2, <2>4, <4>1, <4>2 DEF PutBack, IInv, TypeOK
    <3> QED BY <3>1, <3>2, <3>3
  (* The other steps leave every message where it is. *)
  <2>5. ASSUME slot'[n] = slot[n],
               \A q \in Receivers : pc[q] = "putback" =>
                  pc'[q] = "putback" /\ rc'[q] = rc[q] /\ held'[q] = held[q]
        PROVE ValueAt(n)' = ValueAt(n)
    <3>1. CASE slot[n] # Empty
      BY <2>1, <2>5, <3>1
    <3>2. CASE slot[n] = Empty
      <4>1. PICK q \in Receivers : pc[q] = "putback" /\ rc[q] = n
        BY <3>2 DEF IInv, NoneLost
      <4> QED BY <2>2, <2>5, <4>1
    <3> QED BY <3>1, <3>2
  <2>6. ASSUME NEW w \in Writers, NEW v \in Values, WriteSend(w, v)
        PROVE ValueAt(n)' = ValueAt(n)
    BY <2>5, <2>6 DEF WriteSend, Written, IInv, TypeOK, Nodes
  <2>7. ASSUME NEW w \in Writers, WriteSwap(w) PROVE ValueAt(n)' = ValueAt(n)
    BY <2>5, <2>7 DEF WriteSwap
  <2>8. CASE Close
    BY <2>5, <2>8 DEF Close
  <2>9. ASSUME NEW r \in Receivers, Listen(r) PROVE ValueAt(n)' = ValueAt(n)
    BY <2>5, <2>9 DEF Listen, IInv, TypeOK
  <2>10. ASSUME NEW r \in Receivers, Deliver(r) PROVE ValueAt(n)' = ValueAt(n)
    BY <2>5, <2>10 DEF Deliver, IInv, TypeOK
  <2>11. ASSUME NEW r \in Receivers, EndOfStream(r) \/ Done(r) \/ Leave(r)
         PROVE ValueAt(n)' = ValueAt(n)
    BY <2>5, <2>11 DEF EndOfStream, Done, Leave, IInv, TypeOK
  <2>12. CASE UNCHANGED vars
    BY <2>5, <2>12 DEF vars
  <2> QED BY <2>3, <2>4, <2>6, <2>7, <2>8, <2>9, <2>10, <2>11, <2>12 DEF Next, Receive
<1> QED BY <1>1, <1>2 DEF LogGrows

(* Where the users of the receivers are follows from what is written. *)
LEMMA InitPosition == Init => Position
BY MaxWritesAssumption DEF Init, Position, Place, NextValue

LEMMA PositionStep == IInv /\ Position /\ [Next]_vars => Position'
<1> SUFFICES ASSUME IInv, Position, [Next]_vars, NEW r \in Receivers
    PROVE (Place(r) /\ NextValue(r))'
  BY DEF Position
<1>0. LogGrows /\ ValueFacts
  BY LogGrowsStep, ValueFactsHold
<1>t. /\ rc \in [Receivers -> Nodes] /\ from[r] \in Nodes
      /\ pc \in [Receivers -> PCs] /\ held \in [Receivers -> Values \cup {Empty}]
      /\ got \in [Receivers -> Seq(Values)] /\ from \in [Receivers -> Nodes]
      /\ tail \in Nodes
  BY DEF IInv, TypeOK
<1>n. Nodes \subseteq Nat
  BY MaxWritesAssumption DEF Nodes
<1>p. Place(r) /\ NextValue(r)
  BY DEF Position
<1>w. \A n \in Nodes : rc[r] = n + 1 => n < Written
  BY <1>t, <1>n DEF IInv, Behind, Written
(* A step of somebody else leaves r where it is, and the log too. *)
<1>1. ASSUME pc'[r] = pc[r], rc'[r] = rc[r], held'[r] = held[r],
             from'[r] = from[r], got'[r] = got[r],
             pc[r] = "none" => user'[r] = user[r]
      PROVE (Place(r) /\ NextValue(r))'
  <2>1. Place(r)'
    BY <1>1, <1>p DEF Place
  <2>2. ASSUME NEW n \in Nodes, pc'[r] = "send", rc'[r] = n + 1
        PROVE held'[r] = ValueAt(n)'
    BY <1>0, <1>1, <1>p, <1>w, <2>2 DEF NextValue, LogGrows
  <2> QED BY <2>1, <2>2 DEF NextValue
<1>2. ASSUME NEW q \in Receivers, Listen(q) PROVE (Place(r) /\ NextValue(r))'
  <2>1. CASE q = r
    <3>1. NextValue(r)'
      BY <1>2, <1>t, <2>1 DEF Listen, NextValue
    <3>2. got[r] = <<>> /\ got' = got /\ from'[r] = tail /\ rc'[r] = tail /\ pc'[r] = "select"
      BY <1>2, <1>t, <1>p, <2>1 DEF Listen, Place
    <3> QED BY <1>t, <1>n, <3>1, <3>2 DEF Place
  <2> QED BY <1>1, <1>2, <1>t, <2>1 DEF Listen
<1>3. ASSUME NEW q \in Receivers, Take(q) PROVE (Place(r) /\ NextValue(r))'
  <2>1. CASE q = r
    BY <1>3, <1>t, <1>p, <2>1 DEF Take, NextValue, Place
  <2> QED BY <1>1, <1>3, <1>t, <2>1 DEF Take
(* The value put back is that of the node r moves away from. *)
<1>4. ASSUME NEW q \in Receivers, PutBack(q) PROVE (Place(r) /\ NextValue(r))'
  <2>1. CASE q = r
    <3>1. Place(r)'
      BY <1>4, <1>t, <1>n, <1>p, <2>1 DEF PutBack, Place
    <3>2. ASSUME NEW n \in Nodes, rc'[r] = n + 1 PROVE held'[r] = ValueAt(n)'
      <4>1. rc[r] = n /\ held'[r] = held[r]
        <5>1. rc'[r] = rc[r] + 1 /\ held'[r] = held[r]
          BY <1>4, <1>t, <2>1 DEF PutBack
        <5>2. rc[r] \in Nat /\ n \in Nat
          BY <1>t, <1>n
        <5> QED BY <3>2, <5>1, <5>2
      <4>2. held[r] = ValueAt(rc[r])
        BY <1>0, <1>4, <2>1 DEF PutBack, ValueFacts
      <4>3. n < Written
        BY <1>4, <2>1, <4>1 DEF PutBack, IInv, PutsBackToEmpty
      <4> QED BY <1>0, <4>1, <4>2, <4>3 DEF LogGrows
    <3> QED BY <3>1, <3>2 DEF NextValue
  <2> QED BY <1>1, <1>4, <1>t, <2>1 DEF PutBack
<1>5. ASSUME NEW q \in Receivers, Deliver(q) PROVE (Place(r) /\ NextValue(r))'
  <2>1. CASE q = r
    <3>1. got[r] \in Seq(Values) /\ got'[r] = Append(got[r], held[r])
      BY <1>5, <1>t, <2>1 DEF Deliver
    <3>2. Len(got'[r]) = Len(got[r]) + 1
      BY <3>1
    <3>3. pc[r] = "send" /\ pc'[r] = "select" /\ rc' = rc /\ from' = from
      BY <1>5, <1>t, <2>1 DEF Deliver
    <3>4. Len(got[r]) \in Nat /\ from[r] \in Nat /\ rc[r] \in Nat
      <4>1. Len(got[r]) \in Nat
        BY <3>1
      <4> QED BY <1>t, <1>n, <4>1
    <3>5. from[r] + Len(got[r]) + 1 = rc[r]
      BY <1>p, <3>3 DEF Place
    <3>6. from'[r] + Len(got'[r]) = rc'[r]
      BY <3>2, <3>3, <3>4, <3>5
    <3>7. Place(r)'
      BY <3>3, <3>6 DEF Place
    <3>8. NextValue(r)'
      BY <3>3 DEF NextValue
    <3> QED BY <3>7, <3>8
  <2> QED BY <1>1, <1>5, <1>t, <2>1 DEF Deliver
<1>6. ASSUME NEW q \in Receivers, EndOfStream(q) \/ Done(q) PROVE (Place(r) /\ NextValue(r))'
  <2>1. CASE q = r
    BY <1>6, <1>t, <2>1 DEF EndOfStream, Done, Place, NextValue
  <2> QED BY <1>1, <1>6, <1>t, <2>1 DEF EndOfStream, Done
<1>7. ASSUME NEW q \in Receivers, Leave(q) PROVE (Place(r) /\ NextValue(r))'
  BY <1>1, <1>7, <1>t DEF Leave, IInv, TypeOK
<1>8. ASSUME NEW w \in Writers, NEW v \in Values, WriteSend(w, v)
      PROVE (Place(r) /\ NextValue(r))'
  BY <1>1, <1>8 DEF WriteSend
<1>9. ASSUME NEW w \in Writers, WriteSwap(w) PROVE (Place(r) /\ NextValue(r))'
  BY <1>1, <1>9 DEF WriteSwap
<1>10. CASE Close
  BY <1>1, <1>10 DEF Close
<1>11. CASE UNCHANGED vars
  BY <1>1, <1>11 DEF vars
<1> QED BY <1>2, <1>3, <1>4, <1>5, <1>6, <1>7, <1>8, <1>9, <1>10, <1>11 DEF Next, Receive

-----------------------------------------------------------------------------
(* The refinement mapping of ImplementsLog, under names of its own. *)
LogOf == [i \in 1 .. Written |-> ValueAt(i - 1)]

StreamOf ==
  [r \in Receivers |->
     CASE pc[r] = "none"  -> "none"
       [] pc[r] = "ended" -> "over"
       [] OTHER -> IF user[r] = "gone" THEN "left" ELSE "active"]

LEMMA WrittenTyped == IInv => Written \in Nat /\ \A i \in 1 .. Written : i - 1 \in Nodes
BY MaxWritesAssumption DEF IInv, TypeOK, Nodes, LockRoom, Written

LEMMA LogTyped == IInv => LogOf \in Seq(Values) /\ Len(LogOf) = Written
<1> SUFFICES ASSUME IInv PROVE LogOf \in Seq(Values) /\ Len(LogOf) = Written
  OBVIOUS
<1>1. Written \in Nat /\ \A i \in 1 .. Written : i - 1 \in Nodes /\ i - 1 < Written
  BY WrittenTyped
<1>2. \A i \in 1 .. Written : ValueAt(i - 1) \in Values
  BY <1>1, ValueTyped
<1> QED BY <1>1, <1>2 DEF LogOf

(* A step that writes nothing leaves the log as it is. *)
LEMMA SameLog ==
  ASSUME IInv, [Next]_vars, Written' = Written
  PROVE  LogOf' = LogOf
<1>1. LogGrows
  BY LogGrowsStep
<1>2. \A i \in 1 .. Written : i - 1 \in Nodes /\ i - 1 < Written
  BY WrittenTyped
<1>3. \A i \in 1 .. Written : ValueAt(i - 1)' = ValueAt(i - 1)
  BY <1>1, <1>2 DEF LogGrows
<1> QED BY <1>3 DEF LogOf

(* A write appends its value to the log. *)
LEMMA LogAppended ==
  ASSUME IInv, NEW w \in Writers, NEW v \in Values, WriteSend(w, v)
  PROVE  LogOf' = Append(LogOf, v)
<1>0. [Next]_vars
  BY DEF Next
<1>1. LogGrows /\ IInv' /\ ValueFacts'
  <2>1. LogGrows /\ IInv'
    BY <1>0, LogGrowsStep, IInvStep
  <2>2. IInv' => ValueFacts'
    BY ValueFactsHold, PTL
  <2> QED BY <2>1, <2>2
<1>2. Written = tail /\ Written' = tail + 1 /\ tail \in Nodes /\ tail \in Nat
  BY OwnerAssumption, MaxWritesAssumption DEF IInv, TypeOK, Nodes, WriteSend, Written
<1>3. \A i \in 1 .. Written : i - 1 \in Nodes /\ i - 1 < Written
  BY WrittenTyped
<1>4. \A i \in 1 .. Written : ValueAt(i - 1)' = ValueAt(i - 1)
  BY <1>1, <1>3 DEF LogGrows
<1>5. \A n \in Nodes : n = tail => ValueAt(n)' = v
  <2>1. slot'[tail] = v /\ v # Empty
    BY <1>2, OwnerAssumption DEF WriteSend, IInv, TypeOK
  <2> QED BY <1>1, <2>1 DEF ValueFacts
<1>6. LogOf \in Seq(Values) /\ Len(LogOf) = tail
  BY <1>2, LogTyped
<1>7. Append(LogOf, v) = [i \in 1 .. tail + 1 |-> IF i = tail + 1 THEN v ELSE ValueAt(i - 1)]
  BY <1>2, <1>6 DEF LogOf
<1>8. \A i \in 1 .. tail + 1 :
         ValueAt(i - 1)' = IF i = tail + 1 THEN v ELSE ValueAt(i - 1)
  <2> SUFFICES ASSUME NEW i \in 1 .. tail + 1
      PROVE ValueAt(i - 1)' = IF i = tail + 1 THEN v ELSE ValueAt(i - 1)
    OBVIOUS
  <2>1. CASE i = tail + 1
    <3>1. i - 1 = tail
      BY <1>2, <2>1
    <3> QED BY <1>2, <1>5, <2>1, <3>1
  <2>2. CASE i # tail + 1
    <3>1. i \in 1 .. Written
      BY <1>2, <2>2
    <3> QED BY <1>4, <2>2, <3>1
  <2> QED BY <2>1, <2>2
<1>9. LogOf' = [i \in 1 .. tail + 1 |-> ValueAt(i - 1)']
  BY <1>2 DEF LogOf
<1> QED BY <1>7, <1>8, <1>9

(* Every step is a step of the log, or a stutter of it. *)
LEMMA LogStep == IInv /\ Position /\ [Next]_vars => [Log!Next]_Log!logVars
<1> SUFFICES ASSUME IInv, Position, [Next]_vars
    PROVE [Log!Next]_<<LogOf, ~closed, StreamOf, from, got>>
  BY DEF Log!logVars, LogOf, StreamOf
<1>t. /\ rc \in [Receivers -> Nodes] /\ from \in [Receivers -> Nodes]
      /\ pc \in [Receivers -> PCs] /\ got \in [Receivers -> Seq(Values)]
      /\ user \in [Receivers -> {"reading", "gone"}]
      /\ Written \in Nat /\ LogOf \in Seq(Values) /\ Len(LogOf) = Written
      /\ closed \in BOOLEAN /\ tail \in Nodes
  BY WrittenTyped, LogTyped DEF IInv, TypeOK
<1>n. Nodes \subseteq Nat
  BY MaxWritesAssumption DEF Nodes
<1>1. ASSUME NEW w \in Writers, NEW v \in Values, WriteSend(w, v) PROVE Log!Write(v)
  BY <1>1, LogAppended DEF WriteSend, Log!Write, LogOf
(* Everything else leaves what is written alone. *)
<1>2. ASSUME Written' = Written PROVE LogOf' = LogOf
  BY <1>2, SameLog
<1>3. ASSUME NEW w \in Writers, WriteSwap(w)
      PROVE UNCHANGED <<LogOf, ~closed, StreamOf, from, got>>
  <2>1. Written' = Written
    BY <1>3, <1>t, OwnerAssumption DEF WriteSwap, Written
  <2> QED BY <1>2, <1>3, <2>1 DEF WriteSwap, StreamOf
<1>4. ASSUME Close PROVE Log!CloseLog
  BY <1>2, <1>4 DEF Close, Written, Log!CloseLog, LogOf
<1>5. ASSUME NEW r \in Receivers, Listen(r) PROVE Log!Subscribe(r)
  <2>1. LogOf' = LogOf
    BY <1>2, <1>5 DEF Listen, Written
  <2>2. Written = tail
    BY <1>5 DEF Listen, Written
  <2>3. StreamOf[r] = "none" /\ StreamOf' = [StreamOf EXCEPT ![r] = "active"]
    BY <1>5, <1>t DEF Listen, StreamOf, Position, Place, PCs
  <2> QED BY <1>5, <1>t, <2>1, <2>2, <2>3 DEF Listen, Log!Subscribe, LogOf, StreamOf
<1>6. ASSUME NEW r \in Receivers, Take(r) \/ PutBack(r)
      PROVE UNCHANGED <<LogOf, ~closed, StreamOf, from, got>>
  <2>1. LogOf' = LogOf
    BY <1>2, <1>6 DEF Take, PutBack, Written
  <2>2. StreamOf' = StreamOf
    BY <1>6, <1>t DEF Take, PutBack, StreamOf
  <2> QED BY <1>6, <2>1, <2>2 DEF Take, PutBack
<1>7. ASSUME NEW r \in Receivers, Deliver(r) PROVE Log!Consume(r)
  <2>1. LogOf' = LogOf
    BY <1>2, <1>7 DEF Deliver, Written
  <2>2. StreamOf[r] = "active" /\ StreamOf' = StreamOf
    BY <1>7, <1>t DEF Deliver, StreamOf
  <2>3. /\ from[r] + Len(got[r]) + 1 = rc[r]
        /\ \A n \in Nodes : rc[r] = n + 1 => held[r] = ValueAt(n)
        /\ rc[r] <= Written
    BY <1>7 DEF Deliver, Position, Place, NextValue, IInv, Behind
  <2>4. Len(got[r]) \in Nat /\ from[r] \in Nat /\ rc[r] \in Nat
    <3>1. Len(got[r]) \in Nat
      BY <1>t
    <3> QED BY <1>t, <1>n, <3>1
  <2>5. rc[r] \in 1 .. Written /\ from[r] + Len(got[r]) < Written
    BY <1>t, <2>3, <2>4
  <2>6. rc[r] - 1 \in Nodes
    BY <2>5, WrittenTyped
  <2>7. held[r] = LogOf[from[r] + Len(got[r]) + 1]
    BY <2>3, <2>4, <2>5, <2>6 DEF LogOf
  <2> QED BY <1>7, <1>t, <2>1, <2>2, <2>5, <2>7 DEF Deliver, Log!Consume, LogOf, StreamOf
<1>8. ASSUME NEW r \in Receivers, EndOfStream(r) PROVE Log!Finish(r)
  <2>1. LogOf' = LogOf
    BY <1>2, <1>8 DEF EndOfStream, Written
  <2>2. StreamOf' = [StreamOf EXCEPT ![r] = "over"] /\ StreamOf[r] \in {"active", "left"}
    BY <1>8, <1>t DEF EndOfStream, StreamOf
  <2>3. closed /\ from[r] + Len(got[r]) = Len(LogOf)
    BY <1>8, <1>t DEF EndOfStream, Position, Place, IInv, LockRoom, Written
  <2> QED BY <1>8, <2>1, <2>2, <2>3 DEF EndOfStream, Log!Finish, LogOf, StreamOf
<1>9. ASSUME NEW r \in Receivers, Done(r) PROVE Log!Finish(r)
  <2>1. LogOf' = LogOf
    BY <1>2, <1>9 DEF Done, Written
  <2>2. StreamOf' = [StreamOf EXCEPT ![r] = "over"] /\ StreamOf[r] = "left"
    BY <1>9, <1>t DEF Done, StreamOf
  <2> QED BY <1>9, <2>1, <2>2 DEF Done, Log!Finish, LogOf, StreamOf
<1>10. ASSUME NEW r \in Receivers, Leave(r)
       PROVE Log!Leave(r) \/ UNCHANGED <<LogOf, ~closed, StreamOf, from, got>>
  <2>1. LogOf' = LogOf
    BY <1>2, <1>10 DEF Leave, Written
  <2>2. CASE pc[r] = "ended"
    <3>1. StreamOf' = StreamOf
      BY <1>10, <1>t, <2>2 DEF Leave, StreamOf
    <3> QED BY <1>10, <2>1, <3>1 DEF Leave
  <2>3. CASE pc[r] # "ended"
    <3>1. StreamOf' = [StreamOf EXCEPT ![r] = "left"] /\ StreamOf[r] = "active"
      BY <1>10, <1>t, <2>3 DEF Leave, StreamOf
    <3> QED BY <1>10, <2>1, <3>1 DEF Leave, Log!Leave, LogOf, StreamOf
  <2> QED BY <2>2, <2>3
<1>11. ASSUME UNCHANGED vars
       PROVE UNCHANGED <<LogOf, ~closed, StreamOf, from, got>>
  BY <1>2, <1>11 DEF vars, Written, StreamOf
<1> QED
  BY <1>1, <1>3, <1>4, <1>5, <1>6, <1>7, <1>8, <1>9, <1>10, <1>11
     DEF Next, Receive, Log!Next

(***************************************************************************)
(* The linked channels implement the log: every step of a goroutine is a   *)
(* step of BroadcastLog or changes nothing that its users can see.         *)
(***************************************************************************)
THEOREM Refinement == Spec => ImplementsLog
<1> USE DEF LogOf, StreamOf
<1>1. Init => Log!Init
  <2> SUFFICES ASSUME Init PROVE Log!Init
    OBVIOUS
  <2>1. Written = 0
    BY DEF Init, Written
  <2>2. LogOf = <<>>
    BY <2>1
  <2>3. StreamOf = [r \in Receivers |-> "none"]
    BY DEF Init
  <2> QED BY <2>2, <2>3 DEF Init, Log!Init
<1>2. IInv /\ Position /\ [Next]_vars => [Log!Next]_Log!logVars
  BY LogStep
<1>3. Init => Position
  BY InitPosition
<1>4. IInv /\ Position /\ [Next]_vars => Position'
  BY PositionStep
<1> QED
  BY <1>1, <1>2, <1>3, <1>4, InvariantHolds, PTL DEF Spec, ImplementsLog, Log!Spec
=============================================================================
