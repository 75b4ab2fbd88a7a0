---------------------------- MODULE BroadcastLog ----------------------------
(***************************************************************************)
(* What package broadcast promises its users (broadcast.go:22-25): every   *)
(* value written to a broadcaster reaches every active receiver, none is   *)
(* dropped and they arrive in the order of the writes.                     *)
(*                                                                         *)
(* The broadcaster is a log of the written values.  A receiver is active   *)
(* from the write position at which it subscribed and consumes the log     *)
(* from there.  Its stream is over after its user left, or when the        *)
(* broadcaster has been closed and everything has been consumed.           *)
(***************************************************************************)
EXTENDS Naturals, Sequences

CONSTANTS Receivers,   \* the receivers that may subscribe
          Values       \* the values that may be written

VARIABLES log,         \* the values written so far, in order
          open,        \* FALSE once the broadcaster has been closed
          stream,      \* per receiver: "none", "active", "left" or "over"
          from,        \* per receiver: length of the log when it subscribed
          got          \* per receiver: the values its user has been given

logVars == <<log, open, stream, from, got>>

TypeOK ==
  /\ log \in Seq(Values)
  /\ open \in BOOLEAN
  /\ stream \in [Receivers -> {"none", "active", "left", "over"}]
  /\ from \in [Receivers -> Nat]
  /\ got \in [Receivers -> Seq(Values)]

Init ==
  /\ log = <<>>
  /\ open = TRUE
  /\ stream = [r \in Receivers |-> "none"]
  /\ from = [r \in Receivers |-> 0]
  /\ got = [r \in Receivers |-> <<>>]

Write(v) ==
  /\ open
  /\ log' = Append(log, v)
  /\ UNCHANGED <<open, stream, from, got>>

Subscribe(r) ==
  /\ stream[r] = "none"
  /\ stream' = [stream EXCEPT ![r] = "active"]
  /\ from' = [from EXCEPT ![r] = Len(log)]
  /\ UNCHANGED <<log, open, got>>

(* The user of r is given the next value of the log, and no other. *)
Consume(r) ==
  /\ stream[r] = "active"
  /\ from[r] + Len(got[r]) < Len(log)
  /\ got' = [got EXCEPT ![r] = Append(@, log[from[r] + Len(@) + 1])]
  /\ UNCHANGED <<log, open, stream, from>>

CloseLog ==
  /\ open
  /\ open' = FALSE
  /\ UNCHANGED <<log, stream, from, got>>

(* The user of r gives the stream up before its end. *)
Leave(r) ==
  /\ stream[r] = "active"
  /\ stream' = [stream EXCEPT ![r] = "left"]
  /\ UNCHANGED <<log, open, from, got>>

Finish(r) ==
  /\ \/ stream[r] = "left"
     \/ /\ stream[r] = "active"
        /\ ~open
        /\ from[r] + Len(got[r]) = Len(log)
  /\ stream' = [stream EXCEPT ![r] = "over"]
  /\ UNCHANGED <<log, open, from, got>>

Next ==
  \/ \E v \in Values : Write(v)
  \/ CloseLog
  \/ \E r \in Receivers : Subscribe(r) \/ Consume(r) \/ Leave(r) \/ Finish(r)

Spec == Init /\ [][Next]_logVars
=============================================================================
