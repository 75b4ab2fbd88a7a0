----------------------------- MODULE MCProcess -----------------------------
(* Process with small sets.  Which number an inode has, and what is in one *)
(* that nothing refers to, distinguishes no two states.                    *)
EXTENDS Process, TLC

Symmetry == Permutations(Procs) \cup Permutations(Writes)

Users(i) == {q \in Procs : i \in {want[q], held[q], src[q]}}
Seen(i) == IF i = None THEN {}
           ELSE {<<data[i], {f \in Files : link[f] = i}, Users(i)>>}
View == <<pc, try, [p \in Procs |-> IF pc[p] = "kill" THEN victim[p] ELSE None],
          lockVars, snap, young, acked, history, [f \in Files |-> Seen(link[f])],
          [p \in Procs |-> <<Seen(want[p]), Seen(held[p]), Seen(src[p])>>]>>
============================================================================
