------------------------------- MODULE Event --------------------------------
(***************************************************************************)
(* util/event/event.go: a flag with a channel that is closed when the flag *)
(* is set.  The channel is made by the first of C and Set that finds none; *)
(* C takes no lock, and Set looks at the flag before it takes one.         *)
(*                                                                         *)
(* The operators are the atomic steps of C and Set on the event of e; who  *)
(* takes them is up to the modules that use it.                            *)
(***************************************************************************)
EXTENDS Naturals

CONSTANTS Events, Setters, NoSetter

VARIABLES
  ch,      \* me.ch: the number of the channel made last, or 0
  shut,    \* the channels that are closed
  flag,    \* me.closed
  mu,      \* the setter that holds me.mu, or NoSetter
  setter   \* per setter: "idle", "lock", "make", "close" or "end"

eventVars == <<ch, shut, flag, mu, setter>>

Channels == 0 .. 2

EventTypeOK ==
  /\ ch \in [Events -> Channels]
  /\ shut \in [Events -> SUBSET Channels]
  /\ flag \in [Events -> BOOLEAN]
  /\ mu \in [Events -> Setters \cup {NoSetter}]
  /\ setter \in [Events -> [Setters -> {"idle", "lock", "make", "close", "end"}]]

EventInit ==
  /\ ch = [e \in Events |-> 0]
  /\ shut = [e \in Events |-> {}]
  /\ flag = [e \in Events |-> FALSE]
  /\ mu = [e \in Events |-> NoSetter]
  /\ setter = [e \in Events |-> [s \in Setters |-> "idle"]]

(* C finds no channel and makes one. *)
NoChannel(e) == ch[e] = 0

MakeChannel(e) == ch' = [ch EXCEPT ![e] = @ + 1]

SetterTo(e, s, to) == setter' = [setter EXCEPT ![e][s] = to]

(* Set: "if me.closed". *)
SetTest(e, s) ==
  /\ setter[e][s] = "idle"
  /\ SetterTo(e, s, IF flag[e] THEN "end" ELSE "lock")
  /\ UNCHANGED <<ch, shut, flag, mu>>

SetLock(e, s) ==
  /\ setter[e][s] = "lock"
  /\ mu[e] = NoSetter
  /\ mu' = [mu EXCEPT ![e] = s]
  /\ SetterTo(e, s, IF ch[e] = 0 THEN "make" ELSE "close")
  /\ UNCHANGED <<ch, shut, flag>>

(* close(me.ch) panics if two setters have passed the test. *)
ClosesTwice(e, s) == setter[e][s] = "close" /\ ch[e] \in shut[e]

(* Mutant: a channel that Set makes is not closed. *)
SetOpen(e, s) ==
  /\ setter[e][s] \in {"make", "close"}
  /\ IF setter[e][s] = "make" THEN MakeChannel(e) ELSE UNCHANGED ch
  /\ shut' = [shut EXCEPT ![e] = @ \cup ({ch[e]} \ {0})]
  /\ flag' = [flag EXCEPT ![e] = TRUE]
  /\ mu' = [mu EXCEPT ![e] = NoSetter]
  /\ SetterTo(e, s, "end")

(* The channel it has found, or the one it makes now. *)
SetClose(e, s) ==
  /\ setter[e][s] \in {"make", "close"}
  /\ IF setter[e][s] = "make" THEN MakeChannel(e) ELSE UNCHANGED ch
  /\ shut' = [shut EXCEPT ![e] = @ \cup {ch'[e]}]
  /\ flag' = [flag EXCEPT ![e] = TRUE]
  /\ mu' = [mu EXCEPT ![e] = NoSetter]
  /\ SetterTo(e, s, "end")

SetStep(e, s) == SetTest(e, s) \/ SetLock(e, s) \/ SetClose(e, s)
=============================================================================
