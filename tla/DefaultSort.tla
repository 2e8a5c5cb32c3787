------------------------------- MODULE DefaultSort -------------------------------
(***************************************************************************)
(* The order of the rows of fact_table (src/utils/default-sort.ts).        *)
(***************************************************************************)
EXTENDS RowOrder

CONSTANT Columns   \* the columns of fact_table, in table order

ColumnSet == {Columns[i] : i \in 1..Len(Columns)}

(* ORDER BY ALL, as an item of a sort; no column has an empty name.         *)
AllColumns == [field |-> "", dir |-> "ASC"]

ASSUME ColumnsAssumption ==
  Columns \in Seq(ColumnSet) /\ Columns # <<>> /\ AllColumns.field \notin ColumnSet

PrimaryKeys(d) == Keep(Columns, d.primaryKeys)

(* What tells two rows apart: the primary keys, or every column where there *)
(* is none.                                                                 *)
KeyColumns(d) == IF d.primaryKeys # {} THEN d.primaryKeys ELSE ColumnSet

(* What a schema can hold: [rows, primaryKeys, clusterBy].  The rows of one *)
(* without primary key are unique: the writer's contract.                   *)
IsFactTable(d) ==
  /\ d.rows \subseteq [ColumnSet -> Values] /\ IsFiniteSet(d.rows)
  /\ d.primaryKeys \subseteq ColumnSet
  /\ d.clusterBy \in Seq(ToSet(d.clusterBy))
  /\ \A r, q \in d.rows : (\A c \in KeyColumns(d) : r[c] = q[c]) => r = q

(* The key columns that `items` does not name yet.                          *)
Tiebreakers(items, d) == Asc(Keep(Columns, KeyColumns(d) \ Fields(items)))

(* resolveEffectiveSort(): columns of clusterBy that are gone are skipped.  *)
EffectiveSort(explicit, d) ==
  LET clustered == Keep(d.clusterBy, ColumnSet)
  IN IF explicit # <<>> THEN explicit \o Tiebreakers(explicit, d)
     ELSE IF clustered # <<>> THEN Asc(clustered)
     ELSE IF d.primaryKeys # {} THEN Asc(PrimaryKeys(d))
     ELSE <<AllColumns>>

=============================================================================
