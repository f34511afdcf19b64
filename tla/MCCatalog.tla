------------------------------ MODULE MCCatalog ------------------------------
(***************************************************************************)
(* Catalog for TLC.  A table and an index may share a name; no definition  *)
(* tells two keys apart.                                                   *)
(***************************************************************************)
EXTENDS Catalog, TLC

CONSTANT MaxEffort   \* bound: how much may come together in a state

Symmetric == Permutations(Keys)

\* What makes a state large: DDL statements, crashes and failing saves, scans
\* under way, rows, a second table.  (A row counts twice in a table that has
\* the name of an index, so that the most is done in the other.)
InUse == {t \in Tables : t \in open \/ rows[t] # <<>>}
RowsOf(S) == {tn \in S \X Slots : tn[2] \in DOMAIN rows[tn[1]]}
Effort ==
  ddls + faults
  + Cardinality({s \in Readers : dml[s] # IdleDml})
  + Cardinality(RowsOf(Tables)) + Cardinality(RowsOf(Tables \cap Indexes))
  + (IF Cardinality(InUse) > 1 THEN 1 ELSE 0)
Bounded == Effort <= MaxEffort
=============================================================================
