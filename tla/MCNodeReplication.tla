------------------------- MODULE MCNodeReplication -------------------------
(***************************************************************************)
(* Small branches for TLC: a server s, a till t that may be promoted, and  *)
(* a till u that makes the rows.                                           *)
(***************************************************************************)
EXTENDS NodeReplication

CONSTANTS s, t, u

QuotaU2   == [m \in Machine |-> IF m = u THEN 2 ELSE 0]
QuotaU1   == [m \in Machine |-> IF m = u THEN 1 ELSE 0]

NoRows    == {}
FirstOfU  == {<<u, 1>>}
BothOfU   == {<<u, 1>>, <<u, 2>>}
============================================================================
