------------------------------- MODULE DataQueries -------------------------------
(***************************************************************************)
(* A read of data through GraphQL: facts, aggregates, comparisons, options *)
(* of a menu and statistics of a column.  The resolver checks the          *)
(* arguments, loads the metadata of the columns, compiles the filter and   *)
(* resolves the rest against that metadata, and runs its statements.  A    *)
(* client of a paged query asks for the next page, a request of its own,   *)
(* while the answer says that there is one (src/schema/resolvers/          *)
(* fact.ts, aggregates.ts, cross-database.ts, select-options.ts,           *)
(* field-stats.ts, and the loaders they call).                             *)
(*                                                                         *)
(* The data does not change between two pages: what an update does to the  *)
(* caches is CatalogRefresh and CacheInvalidation.  Projections, formats   *)
(* of numbers and the description of columns are left out.                 *)
(***************************************************************************)
EXTENDS Comparison, DefaultSort

CONSTANTS
  Requests,     \* what clients ask: records tagged by `kind`
  MaxLimit,     \* API.PAGINATION.MAX_LIMIT
  MaxOffset     \* API.PAGINATION.MAX_OFFSET

(* The filter compiler, DuckDB reading what it compiled, and the answers    *)
(* that are not paged: FilterTree, SqlText and SelectOptions.               *)
CONSTANTS
  FilterMalformed(_),     \* the structure of a tree is refused
  FilterRefused(_, _),    \* a tree is refused over columns of these types
  Compiled(_, _),         \* the predicate of a tree over columns of these types
  Passes(_, _),           \* a predicate is true of a row
  UnpagedAnswer(_, _, _)  \* to a request, by the metadata and the filter; Null if too large

Paged == {"facts", "aggregates", "compareAggregatedFacts", "compareFacts"}
Comparisons == {"compareAggregatedFacts", "compareFacts"}
Bounded == Paged \cup {"options", "commonOptions"}
Filtered == {"facts", "aggregates", "options", "tree", "stats"}

Targets(q) == IF q.kind \in Comparisons \cup {"commonOptions"} THEN <<q.data, q.other>> ELSE <<q.data>>
Tree(q) == IF q.kind \in Filtered THEN q.tree ELSE Null
AllMetadata(q) == Map(Targets(q), LAMBDA d : d.metadata)

-----------------------------------------------------------------------------
(* What a client can ask of a paged query, and of which data                *)

IsSort(sort) == sort \in Seq([field : Fields(sort), dir : {"ASC", "DESC"}])

(* Columns and label columns of the metadata are columns of the rows.       *)
IsAggregated(d) ==
  /\ IsFiniteSet(d.rows)
  /\ \A c \in DOMAIN d.metadata :
       LET labels == d.metadata[c].labels
       IN /\ labels \in Seq(ToSet(labels))
          /\ \A r \in d.rows : \A l \in ToSet(labels) \cup {c} : r[l] \in Values

(* A text stands for one value of its column.                               *)
TextsTell(groups, d) ==
  \A g \in ToSet(groups) : g.field \in DOMAIN d.metadata =>
    LET type == d.metadata[g.field].type
        known == {GroupValue(g, r) : r \in d.rows} \ {Null}
    IN \A v, w \in known :
         CastText(v, type) \in Int /\ (CastText(v, type) = CastText(w, type) => v = w)

(* joinFields: columns without a grain, and one measure.                    *)
IsKeyed(q) ==
  /\ \A g \in ToSet(q.groupBy) : g.grain = Null /\ MeasureAlias \notin {g.field, LabelColumnOf(g.field)}
  /\ Len(q.aggregates) = 1
  /\ \A i, j \in 1..Len(q.groupBy) : KeyColumn(i) = KeyColumn(j) => i = j
  /\ \A i \in 1..Len(q.groupBy) : KeyColumn(i) \notin ComparisonFields
  /\ ~UnknownColumns(q, q.data.metadata) =>
       \A r \in q.data.rows :
         JoinedText(Map(q.groupBy, LAMBDA g : AsText(r[g.field], q.data.metadata[g.field].type))) \in Int

ASSUME QueryAssumption ==
  /\ MaxLimit \in Nat /\ MaxOffset \in Nat
  /\ \A q \in Requests : q.kind \in Paged =>
       /\ IsSort(q.sort)
       /\ q.kind = "facts" => IsFactTable(q.data) /\ DOMAIN q.data.metadata \subseteq ColumnSet
       /\ q.kind # "facts" =>
            /\ q.groupBy \in Seq(ToSet(q.groupBy)) /\ q.aggregates \in Seq(ToSet(q.aggregates))
            /\ \A d \in ToSet(Targets(q)) : IsAggregated(d)
       /\ q.kind \in Comparisons => \A d \in {q.data, q.other} : TextsTell(q.groupBy, d)
       /\ q.kind = "compareFacts" => IsKeyed(q)

VARIABLES
  request,    \* the request; its pages differ by their offset only
  pc,         \* where the request of the page stands
  columns,    \* the metadata it loaded, of each dataset
  where,      \* its filter, compiled
  offset,     \* its `offset`
  total,      \* `total` of the answer
  received    \* the rows of the pages received so far, or the one answer

vars == <<request, pc, columns, where, offset, total, received>>

-----------------------------------------------------------------------------
(* What is refused                                                          *)

(* validatePagination()                                                     *)
PageRefused == request.kind \in Bounded /\ (request.limit \notin 1..MaxLimit \/ offset \notin 0..MaxOffset)

(* Before any access to the database.                                       *)
RefusedAtOnce ==
  \/ PageRefused
  \/ request.kind = "tree" /\ request.tree # Null /\ FilterMalformed(request.tree)
  \/ request.kind = "compareFacts" /\ ComparisonMalformed(request)

(* By the metadata: an unknown column, an operation, a value, an            *)
(* aggregation its type does not have.                                      *)
ArgumentsRefused(q, metadata) ==
  LET own == metadata[1]
  IN \/ Tree(q) # Null /\ FilterRefused(Tree(q), Types(own))
     \/ q.kind = "facts" /\ ~(Fields(q.sort) \subseteq DOMAIN own)
     \/ q.kind = "aggregates" /\ AggregateRefused(q, own)
     \/ q.kind = "compareAggregatedFacts" /\ ComparisonRefused(q, own, metadata[2])
     \/ q.kind = "compareFacts" /\ CompareFactsRefused(q, own, metadata[2])
     \/ q.kind \in {"options", "tree", "stats"} /\ q.field \notin DOMAIN own
     \/ q.kind = "options" /\ LabelRefused(q.field, q.label, own)
     \/ q.kind = "tree" /\ q.maxDepth # Null /\ q.maxDepth < 1
     \/ q.kind = "commonOptions" /\
          \E i \in 1..Len(metadata) : q.field \notin DOMAIN metadata[i]

(* treeToSQL() of the filter, if there is one.                              *)
FilterOf(q, metadata) ==
  IF Tree(q) = Null THEN Null ELSE Compiled(Tree(q), Types(metadata[1]))

-----------------------------------------------------------------------------
(* The answers                                                              *)

(* The rows a filter keeps.                                                 *)
Kept(q, filter) == {r \in q.data.rows : filter = Null \/ Passes(filter, r)}

OrderBy(items) == IF items = <<AllColumns>> THEN Asc(Columns) ELSE items

(* [rows, sort, total] of a paged query: loadFacts() and getCount(), the    *)
(* page and the group count of aggregates, the comparisons.                 *)
Result(q, metadata, filter) ==
  CASE q.kind = "facts" ->
         [rows |-> Kept(q, filter), sort |-> OrderBy(EffectiveSort(q.sort, q.data)),
          total |-> Cardinality(Kept(q, filter))]
    [] q.kind = "aggregates" ->
         LET params == AggregateParams(q, metadata[1])
         IN [rows |-> AggregateSelect(params, Kept(q, filter)), sort |-> params.sort,
             total |-> GroupCount(params, Kept(q, filter))]
    [] q.kind = "compareAggregatedFacts" -> CompareAggregatedFacts(q, q.data, q.other)
    [] q.kind = "compareFacts" -> CompareFacts(q, q.data, q.other)

Long(q) == q.kind = "aggregates" /\ q.format = "LONG"

(* meltRows() of a page, in the LONG format.                                *)
Shaped(q, metadata, page) ==
  IF Long(q) THEN MeltRows(page, Aliases(ResolvedAggregates(q, metadata[1]))) ELSE page

-----------------------------------------------------------------------------
TypeOK ==
  /\ pc \in {"received", "checked", "loaded", "resolved", "paged", "done", "refused", "failed"}
  /\ where # Null => where = Compiled(Tree(request), Types(columns[1]))
  /\ offset > 0 => request.kind \in Paged /\ offset % request.limit = 0
  /\ total \in Nat
  /\ pc = "paged" => Len(received) > 0 \/ total = 0

Init ==
  /\ request \in Requests
  /\ pc = "received"
  /\ columns = <<>>
  /\ where = Null
  /\ offset = 0
  /\ total = 0
  /\ received = <<>>

Check ==
  /\ pc = "received"
  /\ pc' = IF RefusedAtOnce THEN "refused" ELSE "checked"
  /\ UNCHANGED <<request, columns, where, offset, total, received>>

(* The metadata of the columns; a name without a row is simply not there.   *)
LoadColumns ==
  /\ pc = "checked"
  /\ columns' = AllMetadata(request)
  /\ pc' = "loaded"
  /\ UNCHANGED <<request, where, offset, total, received>>

(* Faulty: an Error among the rows is taken for a row that is not there.    *)
FaultyLoadFails ==
  /\ pc = "checked"
  /\ columns' = Map(AllMetadata(request), LAMBDA d : [c \in {} |-> Null])
  /\ pc' = "loaded"
  /\ UNCHANGED <<request, where, offset, total, received>>

(* The catalog cannot be read: the Error is thrown on.                      *)
LoadFails ==
  /\ pc = "checked"
  /\ pc' = "failed"
  /\ UNCHANGED <<request, columns, where, offset, total, received>>

(* treeToSQL(), resolveAggregateParams() and the other resolutions.         *)
Resolve ==
  /\ pc = "loaded"
  /\ IF ArgumentsRefused(request, columns)
       THEN /\ pc' = "refused"
            /\ UNCHANGED where
       ELSE /\ pc' = "resolved"
            /\ where' = FilterOf(request, columns)
  /\ UNCHANGED <<request, columns, offset, total, received>>

(* The page and the count.  Rows that the order leaves equal come as they   *)
(* may, in every statement anew.                                            *)
Page ==
  /\ pc = "resolved" /\ request.kind \in Paged
  /\ LET result == Result(request, columns, where)
     IN /\ \E s \in Orderings(result.rows, result.sort) :
             received' = received \o Shaped(request, columns, PageOf(s, request.limit, offset))
        /\ total' = result.total
        /\ pc' = IF offset + request.limit < result.total THEN "paged" ELSE "done"
  /\ UNCHANGED <<request, columns, where, offset>>

(* Faulty: the next page starts one row late.                               *)
FaultyNextPage ==
  /\ pc = "paged"
  /\ offset' = offset + request.limit + 1
  /\ pc' = "received"
  /\ columns' = <<>>
  /\ where' = Null
  /\ UNCHANGED <<request, total, received>>

(* hasNextPage: the client asks for it.                                     *)
NextPage ==
  /\ pc = "paged"
  /\ offset' = offset + request.limit
  /\ pc' = "received"
  /\ columns' = <<>>
  /\ where' = Null
  /\ UNCHANGED <<request, total, received>>

(* An answer that is not paged.                                             *)
Answer ==
  /\ pc = "resolved" /\ request.kind \in {"options", "tree", "stats"}
  /\ LET answer == UnpagedAnswer(request, columns[1], where)
     IN IF answer = Null
          THEN /\ pc' = "refused"
               /\ UNCHANGED received
          ELSE /\ pc' = "done"
               /\ received' = <<answer>>
  /\ UNCHANGED <<request, columns, where, offset, total>>

(* crossDatabaseSelectOptions(): the first texts that every dataset has; in *)
(* which order texts come is not modelled.                                  *)
AnswerCommon ==
  /\ pc = "resolved" /\ request.kind = "commonOptions"
  /\ LET common == CommonTexts(request.field, Targets(request))
         size == IF Cardinality(common) < request.limit THEN Cardinality(common) ELSE request.limit
     IN \E options \in kSubset(size, common) : received' = <<options>>
  /\ pc' = "done"
  /\ UNCHANGED <<request, columns, where, offset, total>>

Next == Check \/ LoadColumns \/ LoadFails \/ Resolve \/ Page \/ NextPage \/ Answer \/ AnswerCommon

Spec == Init /\ [][Next]_vars

-----------------------------------------------------------------------------
(* Whatever order ties come in, the pages of a client that goes on while    *)
(* there is a next one hold every row of the answer once, in the order it   *)
(* asked for; of aggregates in LONG, every value of every group, none       *)
(* hidden by a column of the format.  Facts without `sort` that are         *)
(* clustered are left out: see DefaultPagesAreDisjoint.                     *)
ResultRows(q, metadata, filter) ==
  LET rows == Result(q, metadata, filter).rows
      fields == ToSet(GroupFields(q))
  IN IF Long(q)
     THEN {[group |-> [f \in fields |-> r[f]], measure |-> a, value |-> r[a]] :
             r \in rows, a \in ToSet(Aliases(ResolvedAggregates(q, metadata[1])))}
     ELSE rows
Identified(q, row) ==
  IF Long(q)
  THEN [group |-> [f \in ToSet(GroupFields(q)) |-> row[f]],
        measure |-> row["measure"], value |-> row["value"]]
  ELSE row

EveryRowOnce ==
  /\ Len(received) = Cardinality(ResultRows(request, columns, where))
  /\ {Identified(request, received[i]) : i \in 1..Len(received)} = ResultRows(request, columns, where)
  /\ ~Long(request) =>
       \A i \in 1..Len(received) - 1 : ~Before(received[i + 1], received[i], request.sort)

Clustered(q) == q.kind = "facts" /\ q.sort = <<>> /\ q.data.clusterBy # <<>>

PagesAreTheResult ==
  pc = "done" /\ request.kind \in Paged /\ ~Clustered(request) => EveryRowOnce

(* "Without `sort`, fact rows come in the physical order (cluster_by, else  *)
(* the primary keys), so pages are disjoint" (docs-site/api/docs/api-guide/ *)
(* queries.md, getFactTable).                                               *)
DefaultPagesAreDisjoint ==
  pc = "done" /\ request.kind = "facts" => EveryRowOnce

(* A comparison sets the same aggregate of both datasets side by side, over *)
(* the facts whose group columns read the same, and it has a row for every  *)
(* such group: the NULL group is one where groups are compared and none     *)
(* where keys are (compareAggregatedFacts(), compareFacts()).               *)
GroupText(q, data, row) ==
  Map(q.groupBy, LAMBDA g : AsText(GroupValue(g, row), data.metadata[g.field].type))
PartOf(q, data, text) == {r \in data.rows : GroupText(q, data, r) = text}
CommonGroups(q) ==
  {c \in {GroupText(q, q.data, r) : r \in q.data.rows} \cap {GroupText(q, q.other, r) : r \in q.other.rows} :
     q.kind = "compareFacts" => Null \notin ToSet(c)}
SideBySide(q, metadata) ==
  {<<text, Map(ResolvedAggregates(q, metadata),
               LAMBDA a : <<AggregateValue(a.aggregation, a.measure, PartOf(q, q.data, text)),
                            AggregateValue(a.aggregation, a.measure, PartOf(q, q.other, text))>>)>> :
     text \in CommonGroups(q)}
Shown(q, metadata, row) ==
  IF q.kind = "compareFacts"
  THEN <<[i \in 1..Len(q.groupBy) |-> row[KeyColumn(i)]], <<<<row["valueA"], row["valueB"]>>>>>>
  ELSE <<Map(q.groupBy, LAMBDA g : AsText(row[g.field], q.data.metadata[g.field].type)),
         Map(ResolvedAggregates(q, metadata), LAMBDA a : <<row[a.alias \o "_a"], row[a.alias \o "_b"]>>)>>
ComparedLikeWithLike ==
  pc = "done" /\ request.kind \in Comparisons =>
    /\ request.groupBy # <<>> =>
         {Shown(request, columns[1], received[i]) : i \in 1..Len(received)} = SideBySide(request, columns[1])
    /\ \A i \in 1..Len(request.aggregates) :
         ResolvedAggregates(request, columns[1])[i].aggregation
         = ResolvedAggregates(request, columns[2])[i].aggregation

=============================================================================
