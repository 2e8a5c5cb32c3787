---------------------------- MODULE QueryComplexity ----------------------------
(***************************************************************************)
(* What a GraphQL operation is priced before it runs, from its text and    *)
(* its variables alone (QueryComplexityAnalyzer, createColumnCounter,      *)
(* createDepthLimitRule), and what it then does: the fields that are       *)
(* executed, the rows and the columns they read.                           *)
(*                                                                         *)
(* A selection is a field [kind, name, key, args, sub], an inline fragment *)
(* [kind, sub] or the spread of a named one [kind, name]; `key` is the     *)
(* alias of a field, or its name.  An argument is [one |-> v], [list |->   *)
(* <<...>>], a variable [var |-> x], or Null.  The schema a field is about *)
(* is the argument `target`.  Prices are integers: tenths of points.       *)
(***************************************************************************)
EXTENDS Integers, Sequences, FiniteSets, SequencesExt

CONSTANTS
  Null, Absent,
  Price,        \* SECURITY.COMPLEXITY: [row, stats, object, factor, introspection, other,
                \*                       aggregate, holistic, group]
  Scores,       \* ROOT_FIELD_SCORES
  MaxAllowed, MaxRootFields, MaxDepth,
  MaxLimit, DefaultLimit,
  SdlLimits,    \* the root fields that have a `limit`, with its default
  Columns,      \* the number of columns of each schema that is served
  Supported,    \* those the version guard lets through
  DefaultTarget

Smallest(a, b) == IF a < b THEN a ELSE b
Largest(a, b) == IF a < b THEN b ELSE a
Total(Of(_), seq) == FoldLeft(LAMBDA n, x : n + Of(x), 0, seq)

-----------------------------------------------------------------------------
(* Arguments *)

(* withDefaultValues(): a variable that was not given has its default, or   *)
(* no value; null is a value.                                               *)
Effective(given, defaults) ==
  [x \in DOMAIN given |->
     IF given[x] = Absent /\ x \in DOMAIN defaults THEN defaults[x] ELSE given[x]]

Argument(f, name, vars) ==
  IF name \notin DOMAIN f.args THEN Absent
  ELSE LET a == f.args[name]
       IN IF a # Null /\ "var" \in DOMAIN a THEN vars[a.var] ELSE a

(* A value in the place of a list is a list of one.                         *)
Elements(a) ==
  IF a \in {Absent, Null} THEN <<>> ELSE IF "list" \in DOMAIN a THEN a.list ELSE <<a.one>>

(* rowsCost() of resolveLimit().                                            *)
RowsCost(n) == Smallest(n, MaxLimit) * Price.row

(* Faulty: a limit that is not written costs nothing.                       *)
FaultyLimitCost(f, vars) ==
  IF "limit" \notin DOMAIN f.args THEN 0
  ELSE LET a == Argument(f, "limit", vars)
       IN RowsCost(IF a \in {Absent, Null} THEN DefaultLimit ELSE Largest(a.one, 0))

LimitCost(f, vars) ==
  IF "limit" \notin DOMAIN f.args
    THEN IF f.name \in DOMAIN SdlLimits THEN RowsCost(SdlLimits[f.name]) ELSE 0
    ELSE LET a == Argument(f, "limit", vars)
         IN RowsCost(IF a \in {Absent, Null} THEN DefaultLimit ELSE Largest(a.one, 0))

ArgumentsCost(f, depth, vars) ==
  (IF depth = 0 \/ "limit" \in DOMAIN f.args THEN LimitCost(f, vars) ELSE 0)
  + (IF "where" \in DOMAIN f.args THEN 20 ELSE 0)
  + (IF "sort" \in DOMAIN f.args THEN 10 ELSE 0)

AggregatesCost(f, vars) ==
  IF f.name # "getAggregates" THEN 0
  ELSE LET asked == Elements(Argument(f, "aggregates", vars))
           holistic == SelectSeq(asked, LAMBDA a : a \in {"MEDIAN", "MODE"})
       IN Len(asked) * Price.aggregate + Len(holistic) * Price.holistic
          + Len(Elements(Argument(f, "groupBy", vars))) * Price.group

-----------------------------------------------------------------------------
(* The price *)

Target(f, vars) ==
  LET a == Argument(f, "target", vars) IN IF a \in {Absent, Null} THEN DefaultTarget ELSE a.one

(* createColumnCounter(): nothing is read of a schema that is refused.      *)
ColumnsOf(t) == IF t \in Supported THEN Columns[t] ELSE 0
AllColumns == Total(ColumnsOf, SetToSeq(DOMAIN Columns))

(* columnListsOf(): the lists of Metadata below a root field, where and how *)
(* long.  A `fields` that is not written as a list counts as every column.  *)
ColumnLists(f, vars) ==
  LET asked == Argument(f, "fields", vars)
      List(path, n) == [path |-> path, n |-> n]
  IN CASE f.name = "getCatalogSchema" -> {List(<<>>, ColumnsOf(Target(f, vars)))}
       [] f.name = "getFactTableWithMetadata" ->
            {List(<<"fields">>, IF asked \notin {Absent, Null} /\ "list" \in DOMAIN asked /\ asked.list # <<>>
                                  THEN Len(asked.list) ELSE ColumnsOf(Target(f, vars)))}
       [] f.name = "getCatalogs" -> {List(<<"schemas", "fields">>, AllColumns)}
       [] f.name = "getAggregates" ->
            {List(<<"groupBy", "field">>, Len(Elements(Argument(f, "groupBy", vars)))),
             List(<<"aggregates", "field">>, Len(Elements(Argument(f, "aggregates", vars))))}
       [] OTHER -> {}

(* Those at or below a child: a list whose path it leaves is dropped.       *)
Below(lists, name) ==
  {l \in lists : l.path = <<>>}
  \cup {[l EXCEPT !.path = Tail(@)] : l \in {m \in lists : m.path # <<>> /\ Head(m.path) = name}}

OwnCost(f, depth, lists) ==
  LET here == {l \in lists : l.path = <<>>}
  IN CASE f.name = "__typename" -> 0
       [] f.name \in {"__schema", "__type"} -> Price.introspection * Price.factor^depth
       [] depth = 0 /\ f.name \notin {"__typename", "__schema", "__type"} ->
            IF f.name \in DOMAIN Scores THEN Scores[f.name] ELSE Price.other
       [] f.name = "stats" /\ depth > 0 ->
            Price.stats * (IF here = {} THEN 1 ELSE (CHOOSE l \in here : TRUE).n)
       [] OTHER -> IF f.sub = <<>> THEN 0 ELSE Price.object * Price.factor^depth

(* The selections of a fragment.                                            *)
Contents(fragments, s) ==
  IF s.kind = "inline" THEN s.sub
  ELSE IF s.name \in DOMAIN fragments THEN fragments[s.name] ELSE <<>>

(* calculateFieldComplexity(), of a field and of what is below a node.      *)
RECURSIVE FieldPrice(_, _, _, _, _), SubPrice(_, _, _, _, _)
FieldPrice(f, fragments, vars, depth, lists) ==
  OwnCost(f, depth, lists) + ArgumentsCost(f, depth, vars)
  + (IF depth = 0 THEN AggregatesCost(f, vars) ELSE 0)
  + SubPrice(f.sub, fragments, vars, depth + 1, lists)
SubPrice(sels, fragments, vars, depth, lists) ==
  Total(LAMBDA s : IF s.kind = "field"
                     THEN FieldPrice(s, fragments, vars, depth, Below(lists, s.name))
                     ELSE SubPrice(Contents(fragments, s), fragments, vars, depth, lists), sels)

(* collectRootFields(): a named fragment is followed once.                  *)
RECURSIVE CollectRoots(_, _, _)
CollectRoots(sels, fragments, visited) ==
  FoldLeft(LAMBDA acc, s :
             IF s.kind = "field" THEN [acc EXCEPT !.fields = Append(@, s)]
             ELSE IF s.kind = "spread" /\ s.name \in acc.visited THEN acc
             ELSE LET inner == CollectRoots(Contents(fragments, s), fragments,
                                 acc.visited \cup (IF s.kind = "spread" THEN {s.name} ELSE {}))
                  IN [fields |-> acc.fields \o inner.fields, visited |-> inner.visited],
           [fields |-> <<>>, visited |-> visited], sels)

RootFields(doc) == CollectRoots(doc.root, doc.fragments, {}).fields

(* calculateForOperation()                                                  *)
ScoreOf(doc, vars) ==
  Total(LAMBDA f : FieldPrice(f, doc.fragments, vars, 0, ColumnLists(f, vars)), RootFields(doc))

Meta(name) == name \in {"__typename", "__schema", "__type"}
DataFields(doc) == SelectSeq(RootFields(doc), LAMBDA f : ~Meta(f.name))

(* isIntrospectionOperation(): such an operation is not priced.             *)
OnlyMeta(doc) == \A i \in DOMAIN doc.root : doc.root[i].kind = "field" /\ Meta(doc.root[i].name)

(* validateComplexity()                                                     *)
Affordable(doc, vars) ==
  \/ OnlyMeta(doc)
  \/ Len(DataFields(doc)) <= MaxRootFields /\ ScoreOf(doc, vars) <= MaxAllowed

(* calculateNodeDepth(): a fragment stays at the depth of its spread.       *)
RECURSIVE DepthOf(_, _, _)
DepthOf(sels, fragments, depth) ==
  FoldLeft(LAMBDA d, s :
             Largest(d, IF s.kind = "field" THEN DepthOf(s.sub, fragments, depth + 1)
                        ELSE DepthOf(Contents(fragments, s), fragments, depth)), depth, sels)

-----------------------------------------------------------------------------
(* The work: what the execution of an operation does.                       *)

(* The fields of a selection set, one for each response key, with the       *)
(* selections of all that have it.                                          *)
RECURSIVE Flat(_, _)
Flat(sels, fragments) ==
  FoldLeft(LAMBDA acc, s : acc \o IF s.kind = "field" THEN <<s>>
                                  ELSE Flat(Contents(fragments, s), fragments), <<>>, sels)
Executed(sels, fragments) ==
  LET all == Flat(sels, fragments)
      With(k) == SelectSeq(all, LAMBDA f : f.key = k)
  IN {[With(k)[1] EXCEPT !.sub = FlattenSeq([i \in DOMAIN With(k) |-> With(k)[i].sub])] :
        k \in {all[i].key : i \in DOMAIN all}}

(* The rows a root field reads: none if its limit is refused.  Only         *)
(* getSelectOptions takes null, for its default.                            *)
Rows(f, vars) ==
  LET a == Argument(f, "limit", vars)
      n == CASE a = Absent -> SdlLimits[f.name]
             [] a = Null -> IF f.name = "getSelectOptions" THEN SdlLimits[f.name] ELSE 0
             [] OTHER -> a.one
  IN IF f.name \notin DOMAIN SdlLimits \/ n > MaxLimit \/ n < 1 THEN 0 ELSE n

(* The objects a field gives of an object: [type, n], n being the columns   *)
(* of a schema or of a page, the groups or the aggregates of a result.      *)
Objects(f, parent, vars) ==
  LET Many(n, type) == [i \in 1..n |-> [type |-> type, n |-> 1]]
      t == Target(f, vars)
      One(type, n) == <<[type |-> type, n |-> n]>>
      asked == Elements(Argument(f, "fields", vars))
  IN CASE parent.type = "query" ->
            CASE f.name = "getCatalogs" -> One("catalogs", 0)
              [] f.name = "getMetaData" -> One("column", 1)
              [] f.name = "getCatalogSchema" -> Many(ColumnsOf(t), "column")
              [] f.name = "getFactTableWithMetadata" ->
                   IF t \in Supported
                     THEN One("page", IF asked = <<>> THEN Columns[t] ELSE Len(asked)) ELSE <<>>
              [] f.name = "getAggregates" ->
                   <<[type |-> "result", n |-> [groupBy |-> Len(Elements(Argument(f, "groupBy", vars))),
                               aggregates |-> Len(Elements(Argument(f, "aggregates", vars)))]]>>
              [] OTHER -> <<>>
       [] parent.type = "catalogs" /\ f.name = "schemas" ->
            LET all == SetToSeq(Supported) IN [i \in DOMAIN all |-> [type |-> "page", n |-> Columns[all[i]]]]
       [] parent.type = "page" /\ f.name = "fields" -> Many(parent.n, "column")
       [] parent.type = "result" /\ f.name \in {"groupBy", "aggregates"} -> Many(parent.n[f.name], "measure")
       [] parent.type = "measure" /\ f.name = "field" -> One("column", 1)
       [] OTHER -> <<>>

(* The statistics computed: a statement each.                               *)
RECURSIVE StatsRead(_, _, _, _)
StatsRead(sels, fragments, vars, parent) ==
  Total(LAMBDA f : IF parent.type = "column" /\ f.name = "stats" THEN 1
                   ELSE Total(LAMBDA o : StatsRead(f.sub, fragments, vars, o), Objects(f, parent, vars)),
        SetToSeq(Executed(sels, fragments)))

RECURSIVE Nesting(_, _)
Nesting(sels, fragments) ==
  FoldLeft(LAMBDA d, f : Largest(d, 1 + Nesting(f.sub, fragments)), 0, SetToSeq(Executed(sels, fragments)))

Query == [type |-> "query", n |-> 0]
RootReads(doc) == {f \in Executed(doc.root, doc.fragments) : ~Meta(f.name)}
RowsRead(doc, vars) == Total(LAMBDA f : Rows(f, vars), SetToSeq(RootReads(doc)))
ColumnsRead(doc, vars) == StatsRead(doc.root, doc.fragments, vars, Query)

-----------------------------------------------------------------------------
(* What is promised of an operation that is executed: it is a query; its    *)
(* rows and its column statistics, together, fit in MAX_ALLOWED; its root   *)
(* fields and its depth, below their ceilings.                              *)
WithinPrice(doc, vars) ==
  /\ doc.operation = "query"
  /\ Nesting(doc.root, doc.fragments) <= MaxDepth
  /\ ~OnlyMeta(doc) =>
       /\ Cardinality(RootReads(doc)) <= MaxRootFields
       /\ RowsRead(doc, vars) * Price.row + ColumnsRead(doc, vars) * Price.stats <= MaxAllowed

=============================================================================
