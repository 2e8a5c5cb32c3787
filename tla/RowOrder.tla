-------------------------------- MODULE RowOrder --------------------------------
(***************************************************************************)
(* ORDER BY, LIMIT and OFFSET over rows that are functions from columns to *)
(* values.                                                                 *)
(***************************************************************************)
EXTENDS Integers, Sequences, FiniteSets, SequencesExt

CONSTANT Null   \* NULL

ASSUME NullAssumption == Null \notin Int

(* What a column holds: numbers, where nothing but their order matters.     *)
Values == Int \cup {Null}

Asc(fields) == [i \in 1..Len(fields) |-> [field |-> fields[i], dir |-> "ASC"]]
Fields(items) == {items[i].field : i \in 1..Len(items)}

(* ORDER BY <field> <dir>, NULLS LAST in both directions: value v comes     *)
(* before value w.                                                          *)
Lower(v, w, dir) ==
  \/ v # Null /\ w = Null
  \/ v # Null /\ w # Null /\ (IF dir = "ASC" THEN v < w ELSE w < v)

(* buildOrderBy(): row r comes before row q.                                *)
Before(r, q, items) ==
  \E i \in 1..Len(items) :
    /\ \A j \in 1..i - 1 : r[items[j].field] = q[items[j].field]
    /\ Lower(r[items[i].field], q[items[i].field], items[i].dir)

(* The elements of S in the order R, a set of pairs: each stands where as   *)
(* many are before it as come before it in R.                               *)
Ranked(S, R) ==
  [k \in 1..Cardinality(S) |->
     CHOOSE x \in S : Cardinality({y \in S : <<y, x>> \in R}) = k - 1]

(* ORDER BY over rows that the items tell apart.                            *)
Sorted(rows, items) ==
  Ranked(rows, {p \in rows \X rows : Before(p[1], p[2], items)})

(* Array.filter(): the elements of s at the places in A, in their order,    *)
(* and those that are in S.                                                 *)
Pick(s, A) ==
  LET places == Ranked(A, {p \in A \X A : p[1] < p[2]})
  IN [k \in 1..Len(places) |-> s[places[k]]]
Keep(s, S) == Pick(s, {i \in 1..Len(s) : s[i] \in S})

(* Rows that the order does not tell apart come in any order.               *)
Orderings(rows, items) ==
  {s \in SetToSeqs(rows) : \A i, j \in 1..Len(s) : i < j => ~Before(s[j], s[i], items)}

PageOf(seq, limit, offset) ==
  SubSeq(seq, offset + 1, IF offset + limit < Len(seq) THEN offset + limit ELSE Len(seq))

=============================================================================
