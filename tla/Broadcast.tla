----------------------------- MODULE Broadcast ------------------------------
(***************************************************************************)
(* Package broadcast (src/broadcast/broadcast.go): one value channel of    *)
(* capacity one per written value, linked into a list.  Node n of the list *)
(* is the n-th channel made; the message that fills it carries the value   *)
(* and the link to node n + 1.  The broadcaster holds the last node (b.c,  *)
(* here tail), which is empty, and a receiver the node it will read next.  *)
(*                                                                         *)
(* A receiver goroutine TAKES the message out of its node, puts it BACK    *)
(* for the other receivers, moves on and hands the value to its user over  *)
(* an unbuffered channel.  While it holds the message every other receiver *)
(* of that node sees it empty, and Close does not take the mutex.          *)
(***************************************************************************)
EXTENDS Naturals, Sequences

CONSTANTS
  Writers,     \* goroutines that call Write, Broadcast or Signal
  Receivers,   \* goroutines started by Listen, one per call
  Values,      \* the values they write
  Empty,       \* an empty channel slot, or nothing in a goroutine's hands
  Owner,       \* the writer that also closes the broadcaster, or Empty
  MaxWrites    \* bound on the number of writes

(***************************************************************************)
(* The only caller of Close is the deferred call of onAlertsConsumer       *)
(* (service.go:1036), which is also the only writer of that broadcaster;   *)
(* a Player's bufferEvents has several writers and is never closed.        *)
(***************************************************************************)
ASSUME OwnerAssumption ==
  /\ Empty \notin Values
  /\ Empty \notin Writers
  /\ Owner # Empty => Writers = {Owner}

ASSUME MaxWritesAssumption == MaxWrites \in Nat

VARIABLES
  slot,        \* what is in the channel of each node
  tail,        \* b.c, the node the next value goes to
  mx,          \* the writer between Lock and Unlock of b.mx, or Empty
  closed,      \* Close has closed the channel of node tail
  pc,          \* per receiver: where its goroutine is
  rc,          \* per receiver: r.c, the node it reads
  held,        \* per receiver: the message it has taken and not handed over
  from,        \* per receiver: the node it started at
  got,         \* per receiver: the values handed to its user
  user         \* per receiver: "reading", or "gone" once it closed cc

vars == <<slot, tail, mx, closed, pc, rc, held, from, got, user>>

Nodes == 0 .. MaxWrites

PCs == {"none", "select", "putback", "send", "ended"}

TypeOK ==
  /\ slot \in [Nodes -> Values \cup {Empty}]
  /\ tail \in Nodes
  /\ mx \in Writers \cup {Empty}
  /\ closed \in BOOLEAN
  /\ pc \in [Receivers -> PCs]
  /\ rc \in [Receivers -> Nodes]
  /\ held \in [Receivers -> Values \cup {Empty}]
  /\ from \in [Receivers -> Nodes]
  /\ got \in [Receivers -> Seq(Values)]
  /\ user \in [Receivers -> {"reading", "gone"}]

Init ==
  /\ slot = [n \in Nodes |-> Empty]
  /\ tail = 0
  /\ mx = Empty
  /\ closed = FALSE
  /\ pc = [r \in Receivers |-> "none"]
  /\ rc = [r \in Receivers |-> 0]
  /\ held = [r \in Receivers |-> Empty]
  /\ from = [r \in Receivers |-> 0]
  /\ got = [r \in Receivers |-> <<>>]
  /\ user = [r \in Receivers |-> "reading"]

-----------------------------------------------------------------------------
(* Write, first half: lock, then send {v, c} to b.c, which blocks when full. *)
WriteSend(w, v) ==
  /\ mx = Empty
  /\ ~closed
  /\ tail < MaxWrites
  /\ slot[tail] = Empty
  /\ mx' = w
  /\ slot' = [slot EXCEPT ![tail] = v]
  /\ UNCHANGED <<tail, closed, pc, rc, held, from, got, user>>

(* Write, second half: b.c = c and unlock. *)
WriteSwap(w) ==
  /\ mx = w
  /\ tail' = tail + 1
  /\ mx' = Empty
  /\ UNCHANGED <<slot, closed, pc, rc, held, from, got, user>>

(* Mutant: Close may be called by somebody else than the writer. *)
CloseByStranger ==
  /\ ~closed
  /\ closed' = TRUE
  /\ UNCHANGED <<slot, tail, mx, pc, rc, held, from, got, user>>

(* Mutant: Close replaces b.c by a new channel and closes that one. *)
CloseFreshChannel ==
  /\ Owner # Empty
  /\ mx # Owner
  /\ ~closed
  /\ tail < MaxWrites
  /\ closed' = TRUE
  /\ tail' = tail + 1
  /\ UNCHANGED <<slot, mx, pc, rc, held, from, got, user>>

(* Close: close(b.c), without b.mx; its caller is not inside Write. *)
Close ==
  /\ Owner # Empty
  /\ mx # Owner
  /\ ~closed
  /\ closed' = TRUE
  /\ UNCHANGED <<slot, tail, mx, pc, rc, held, from, got, user>>

(* Listen snapshots b.c under b.mx and starts the goroutine. *)
Listen(r) ==
  /\ pc[r] = "none"
  /\ mx = Empty
  /\ pc' = [pc EXCEPT ![r] = "select"]
  /\ rc' = [rc EXCEPT ![r] = tail]
  /\ from' = [from EXCEPT ![r] = tail]
  /\ UNCHANGED <<slot, tail, mx, closed, held, got, user>>

(* Mutant: the second result of the receive, ok, is not looked at. *)
TakeUnchecked(r) ==
  /\ pc[r] = "select"
  /\ slot[rc[r]] # Empty \/ (closed /\ rc[r] = tail)
  /\ held' = [held EXCEPT ![r] = slot[rc[r]]]
  /\ slot' = [slot EXCEPT ![rc[r]] = Empty]
  /\ pc' = [pc EXCEPT ![r] = "send"]
  /\ UNCHANGED <<tail, mx, closed, rc, from, got, user>>

(* select, case msg := <-r.c: the message leaves the shared channel. *)
Take(r) ==
  /\ pc[r] = "select"
  /\ slot[rc[r]] # Empty
  /\ held' = [held EXCEPT ![r] = slot[rc[r]]]
  /\ slot' = [slot EXCEPT ![rc[r]] = Empty]
  /\ pc' = [pc EXCEPT ![r] = "putback"]
  /\ UNCHANGED <<tail, mx, closed, rc, from, got, user>>

(* Mutant: the message is not put back for the other receivers. *)
KeepMessage(r) ==
  /\ pc[r] = "putback"
  /\ rc' = [rc EXCEPT ![r] = @ + 1]
  /\ pc' = [pc EXCEPT ![r] = "send"]
  /\ UNCHANGED <<slot, tail, mx, closed, held, from, got, user>>

(* Mutant: the receiver moves to the broadcaster's node, not the linked one. *)
PutBackAndJump(r) ==
  /\ pc[r] = "putback"
  /\ slot[rc[r]] = Empty
  /\ slot' = [slot EXCEPT ![rc[r]] = held[r]]
  /\ rc' = [rc EXCEPT ![r] = tail]
  /\ pc' = [pc EXCEPT ![r] = "send"]
  /\ UNCHANGED <<tail, mx, closed, held, from, got, user>>

(* r.c <- msg, which blocks when the channel is full, then r.c = msg.c. *)
PutBack(r) ==
  /\ pc[r] = "putback"
  /\ slot[rc[r]] = Empty
  /\ slot' = [slot EXCEPT ![rc[r]] = held[r]]
  /\ rc' = [rc EXCEPT ![r] = @ + 1]
  /\ pc' = [pc EXCEPT ![r] = "send"]
  /\ UNCHANGED <<tail, mx, closed, held, from, got, user>>

(* vc <- msg.v, a rendezvous with a user that still reads. *)
Deliver(r) ==
  /\ pc[r] = "send"
  /\ user[r] = "reading"
  /\ got' = [got EXCEPT ![r] = Append(@, held[r])]
  /\ held' = [held EXCEPT ![r] = Empty]
  /\ pc' = [pc EXCEPT ![r] = "select"]
  /\ UNCHANGED <<slot, tail, mx, closed, rc, from, user>>

(* Mutant: the goroutine ends as soon as the broadcaster is closed. *)
EndWithoutDraining(r) ==
  /\ pc[r] = "select"
  /\ closed
  /\ pc' = [pc EXCEPT ![r] = "ended"]
  /\ UNCHANGED <<slot, tail, mx, closed, rc, held, from, got, user>>

(* select, case !ok: the node is closed and empty; deferred close(vc). *)
EndOfStream(r) ==
  /\ pc[r] = "select"
  /\ closed /\ rc[r] = tail
  /\ pc' = [pc EXCEPT ![r] = "ended"]
  /\ UNCHANGED <<slot, tail, mx, closed, rc, held, from, got, user>>

(* select, case <-cc: deferred close(vc). *)
Done(r) ==
  /\ pc[r] = "select"
  /\ user[r] = "gone"
  /\ pc' = [pc EXCEPT ![r] = "ended"]
  /\ UNCHANGED <<slot, tail, mx, closed, rc, held, from, got, user>>

(* The user closes cc and stops reading vc (deferred at every call site). *)
Leave(r) ==
  /\ pc[r] # "none"
  /\ user[r] = "reading"
  /\ user' = [user EXCEPT ![r] = "gone"]
  /\ UNCHANGED <<slot, tail, mx, closed, pc, rc, held, from, got>>

Receive(r) == Take(r) \/ PutBack(r) \/ Deliver(r) \/ EndOfStream(r) \/ Done(r)

Next ==
  \/ \E w \in Writers, v \in Values : WriteSend(w, v)
  \/ \E w \in Writers : WriteSwap(w)
  \/ Close
  \/ \E r \in Receivers : Listen(r) \/ Receive(r) \/ Leave(r)

(* Goroutines that can run are scheduled; nobody has to write or to leave. *)
Fairness ==
  /\ \A w \in Writers : WF_vars(WriteSwap(w))
  /\ \A r \in Receivers : /\ WF_vars(PutBack(r))
                          /\ WF_vars(Deliver(r))
                          /\ WF_vars(EndOfStream(r))
                          /\ WF_vars(Done(r))
                          /\ WF_vars(Take(r))

Spec == Init /\ [][Next]_vars

FairSpec == Spec /\ Fairness

-----------------------------------------------------------------------------
(* The number of values written: the node tail is full inside Write. *)
Written == IF mx = Empty THEN tail ELSE tail + 1

Holders(n) == {r \in Receivers : pc[r] = "putback" /\ rc[r] = n}

(* The value written to node n, wherever its message is. *)
ValueAt(n) ==
  IF slot[n] # Empty THEN slot[n] ELSE held[CHOOSE r \in Holders(n) : TRUE]

(***************************************************************************)
(* The message of a written node is in exactly one place, its channel or   *)
(* the hands of one receiver that is about to put it back, and a node not  *)
(* yet written is empty.  So neither Write (under b.mx) nor the put-back   *)
(* ever blocks on a full channel, and no message is lost.                  *)
(***************************************************************************)
MessageInOnePlace ==
  \A n \in Nodes :
    /\ n < Written => \/ slot[n] # Empty /\ Holders(n) = {}
                      \/ slot[n] = Empty /\ \E r \in Receivers : Holders(n) = {r}
    /\ n >= Written => slot[n] = Empty /\ Holders(n) = {}

(***************************************************************************)
(* Nobody sends on the channel that Close closed (a panic in Go): neither  *)
(* a receiver putting a message back nor the writer inside Write.          *)
(***************************************************************************)
NoSendOnClosed ==
  closed => mx = Empty /\ Holders(tail) = {}

(***************************************************************************)
(* Every value written is sent to every active receiver, none is dropped   *)
(* and they arrive in order (broadcast.go:22-25): BroadcastLog.            *)
(***************************************************************************)
Log == INSTANCE BroadcastLog WITH
         log    <- [i \in 1 .. Written |-> ValueAt(i - 1)],
         open   <- ~closed,
         stream <- [r \in Receivers |->
                      CASE pc[r] = "none"  -> "none"
                        [] pc[r] = "ended" -> "over"
                        [] OTHER -> IF user[r] = "gone" THEN "left" ELSE "active"]

ImplementsLog == Log!Spec

(***************************************************************************)
(* A receiver whose user keeps reading is given every value written since  *)
(* it started to listen.                                                   *)
(***************************************************************************)
EveryValueArrives ==
  \A r \in Receivers, n \in Nodes :
    (pc[r] # "none" /\ n <= tail)
      ~> (from[r] + Len(got[r]) >= n \/ user[r] = "gone")

(***************************************************************************)
(* "Close Closes the broadcaster, this also closes all the listening       *)
(* channels" (broadcast.go:113): for the users that are still reading.     *)
(***************************************************************************)
CloseEndsReaders ==
  \A r \in Receivers :
    (closed /\ pc[r] # "none") ~> (pc[r] = "ended" \/ user[r] = "gone")
=============================================================================
