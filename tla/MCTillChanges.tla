---------------------------- MODULE MCTillChanges ----------------------------
(* Small instances of TillChanges.                                           *)
EXTENDS TillChanges, FiniteSets, TLC

Symmetry == Permutations(Vals) \cup Permutations(Fields) \cup Permutations(Slots)
(* With a branch server, whose copy is a retry in itself: one request at a   *)
(* time, and either a fault or a change on the web.  Without one, all.       *)
Bounded ==
    server => /\ Cardinality({h \in Slots : handler[h] # Absent}) <= 1
              /\ faults = 0 \/ webs = 0
=============================================================================
