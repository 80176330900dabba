----------------------------- MODULE AtomicFile -----------------------------
(***************************************************************************)
(* What saving promises to those who read the files: a file holds a text   *)
(* that somebody put there whole, or it is absent.  A loss of power may    *)
(* bring back what a file held before it was last put, never anything     *)
(* else.                                                                   *)
(***************************************************************************)
CONSTANTS Path, Whole      (* Whole: what a file may hold                   *)

VARIABLES store, lost
vars == <<store, lost>>

Init ==
  /\ store \in [Path -> Whole]
  /\ lost = [p \in Path |-> {}]

Put(p, t) ==
  /\ store' = [store EXCEPT ![p] = t]
  /\ \/ lost' = [lost EXCEPT ![p] = @ \cup {store[p]}]
     \/ lost' = [lost EXCEPT ![p] = {}]            \* on the disk at once

\* What was put has reached the disk.
Settle(p) ==
  /\ lost' = [lost EXCEPT ![p] = {}]
  /\ UNCHANGED store

PowerLoss ==
  /\ store' \in [Path -> Whole]
  /\ \A p \in Path : store'[p] \in {store[p]} \cup lost[p]
  /\ lost' = [p \in Path |-> {}]

Next == (\E p \in Path : (\E t \in Whole : Put(p, t)) \/ Settle(p)) \/ PowerLoss

Spec == Init /\ [][Next]_vars
=============================================================================
