------------------------------ MODULE SelectOptions ------------------------------
(***************************************************************************)
(* The values of a column for a menu: a flat list (loadSelectOptions) and  *)
(* the tree of a hierarchy of columns (loadSelectOptionsTree), both with a *)
(* filter and a search term, and the statistics of a column (loadStats).   *)
(*                                                                         *)
(* The writer's contract on the rows: a code has one label, and below a    *)
(* level that is NULL every level is.  The order of siblings is left out.  *)
(***************************************************************************)
EXTENDS AggregateQuery, FilterTree

CONSTANTS
  Spelling,   \* CAST(v AS VARCHAR), as characters, for each value v
  Alphabet    \* the characters, in the order of their bytes

-----------------------------------------------------------------------------
(* Conditions, as text.  CAST(<field> AS VARCHAR) is a column of its own.   *)

TextColumn(field) == "CAST " \o field
WithTexts(row) ==
  row @@ [c \in {TextColumn(f) : f \in DOMAIN row} |->
           LET v == row[CHOOSE f \in DOMAIN row : TextColumn(f) = c]
           IN IF v = Null THEN Null ELSE Spelling[v]]

Present(field) ==
  <<[tok |-> "predicate", column |-> field, sql |-> "IS_NOT_NULL", placeholders |-> 0]>>
HasText(field) ==
  <<[tok |-> "predicate", column |-> TextColumn(field), sql |-> "ICONTAINS", placeholders |-> 1]>>

(* whereKey(): an empty filter is no filter.                                *)
Filter(where) ==
  IF where = Null THEN [sql |-> <<>>, params |-> <<>>]
  ELSE [sql |-> FilterPredicate(where), params |-> where.params]

(* The search term, with its wildcards escaped, in the code or its label.   *)
Search(term, field, label) ==
  LET pattern == [json |-> "string", as |-> "text",
                  chars |-> <<"%">> \o EscapeLike(LowerCase(term)) \o <<"%">>]
  IN IF term = <<>> THEN [sql |-> <<>>, params |-> <<>>]
     ELSE IF label = Null THEN [sql |-> Word("AND") \o HasText(field), params |-> <<pattern>>]
     ELSE [sql |-> Word("AND") \o Paren(HasText(field) \o Word("OR") \o HasText(label)),
           params |-> <<pattern, pattern>>]

(* WHERE <present> IS NOT NULL AND (<filter>) AND <search>                  *)
RowsRead(rows, present, where, search) ==
  LET filter == Filter(where)
      sql == Present(present) \o filter.sql \o search.sql
  IN {r \in rows : Truth(sql, filter.params \o search.params, WithTexts(r)) = TRUE}

(* ORDER BY over texts: the first character apart decides, and a text comes *)
(* before those that go on after it: "10" comes before "2".                 *)
TextBefore(s, t) ==
  LET n == Len(LongestCommonPrefix({s, t}))
      PlaceOf(c) == CHOOSE i \in 1..Len(Alphabet) : Alphabet[i] = c
  IN n < Len(t) /\ (n < Len(s) => PlaceOf(s[n + 1]) < PlaceOf(t[n + 1]))

(* ORDER BY ... LIMIT n                                                     *)
FirstOf(S, n, Precedes(_, _)) == {s \in S : Cardinality({t \in S : Precedes(t, s)}) < n}

-----------------------------------------------------------------------------
(* A flat list: [field, limit, term, label, where]                          *)

OptionLabel(row, field, label) ==
  Spelling[IF label = Null \/ row[label] = Null THEN row[field] ELSE row[label]]

(* Values are ordered as the column is; with a label column the code is     *)
(* selected as text, so it is ordered, and cut by the limit, as text.       *)
OptionBefore(s, t, q) ==
  IF q.label = Null THEN s.code < t.code ELSE TextBefore(Spelling[s.code], Spelling[t.code])

SelectOptionsOf(rows, q) ==
  LET read == RowsRead(rows, q.field, q.where, Search(q.term, q.field, q.label))
      distinct == {[code |-> r[q.field], label |-> OptionLabel(r, q.field, q.label)] : r \in read}
  IN {[value |-> Spelling[o.code], label |-> o.label] :
        o \in FirstOf(distinct, q.limit, LAMBDA s, t : OptionBefore(s, t, q))}

-----------------------------------------------------------------------------
(* The tree of a hierarchy.  A node is the path of values that leads to it. *)

(* resolveColumnChain(): up from the field, not further than maxDepth, not  *)
(* to a column that is not declared, and not around a cycle.                *)
RECURSIVE Climb(_, _, _)
Climb(chain, maxDepth, metadata) ==
  LET parent == metadata[chain[1]].parent
  IN IF \/ parent = Null \/ parent \notin DOMAIN metadata
        \/ maxDepth # Null /\ Len(chain) >= maxDepth
        \/ parent \in ToSet(chain)
     THEN chain
     ELSE Climb(<<parent>> \o chain, maxDepth, metadata)
ColumnChain(field, maxDepth, metadata) == Climb(<<field>>, maxDepth, metadata)

RowBefore(r, q, columns) == Before(r, q, Asc(columns))

(* The branch of a row ends before its first NULL.                          *)
PathsOf(row, chain) ==
  {[i \in 1..n |-> row[chain[i]]] :
     n \in {k \in 1..Len(chain) : \A i \in 1..k : row[chain[i]] # Null}}

(* Faulty: the query stops at the bound, so that it is never passed.        *)
FaultyRowCap(maxNodes) == maxNodes

RowCap(maxNodes) == maxNodes + 1

TooLarge == Null   \* in place of a tree

(* loadSelectOptionsTree(): [field, maxDepth, term, maxNodes, where].  The  *)
(* distinct rows are capped one past the bound; the label is the first      *)
(* row's that reaches the node.                                             *)
SelectOptionsTree(rows, q, metadata) ==
  LET chain == ColumnChain(q.field, q.maxDepth, metadata)
      labels == Map(chain, LAMBDA c : LabelField(metadata[c]))
      columns == ToSet(chain) \cup (ToSet(labels) \ {Null})
      read == RowsRead(rows, chain[1], q.where, Search(q.term, q.field, labels[Len(chain)]))
      distinct == {[c \in columns |-> r[c]] : r \in read}
      capped == FirstOf(distinct, RowCap(q.maxNodes), LAMBDA r, t : RowBefore(r, t, chain))
      nodes == UNION {PathsOf(r, chain) : r \in capped}
      Reached(path) == CHOOSE r \in capped :
        /\ path \in PathsOf(r, chain)
        /\ \A t \in capped : path \in PathsOf(t, chain) => ~RowBefore(t, r, chain)
  IN IF Cardinality(capped) > q.maxNodes \/ Cardinality(nodes) > q.maxNodes THEN TooLarge
     ELSE [path \in nodes |->
            OptionLabel(Reached(path), chain[Len(path)], labels[Len(path)])]

-----------------------------------------------------------------------------
(* loadStats()                                                              *)

FieldStats(rows, field, where) ==
  LET read == {r \in rows : where = Null \/ Truth(BuildWhere(where), where.params, r) = TRUE}
      known == {r \in read : r[field] # Null}
  IN [min |-> AggregateValue("MIN", field, read), max |-> AggregateValue("MAX", field, read),
      distinctCount |-> Cardinality({r[field] : r \in known}),
      nullCount |-> Cardinality(read) - Cardinality(known)]

-----------------------------------------------------------------------------
(* The answer to a request for a menu or for statistics.                    *)
SingleAnswer(request, metadata, where) ==
  CASE request.kind = "options" ->
         SelectOptionsOf(request.data.rows,
           [field |-> request.field, limit |-> request.limit, term |-> request.term,
            label |-> ChosenLabel(request.field, request.label, metadata), where |-> where])
    [] request.kind = "tree" ->
         SelectOptionsTree(request.data.rows,
           [field |-> request.field, maxDepth |-> request.maxDepth, term |-> request.term,
            maxNodes |-> request.maxNodes, where |-> where], metadata)
    [] request.kind = "stats" -> FieldStats(request.data.rows, request.field, where)

=============================================================================
