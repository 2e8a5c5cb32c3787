------------------------------- MODULE Comparison -------------------------------
(***************************************************************************)
(* The comparison of two datasets (compareFacts, compareAggregatedFacts):  *)
(* each side is aggregated by the SELECT of getAggregates over its own     *)
(* facts, and the two results are joined on the text of their group        *)
(* columns (src/loaders/cross-database.ts,                                 *)
(* src/schema/resolvers/cross-database.ts).                                *)
(***************************************************************************)
EXTENDS AggregateQuery

CONSTANTS
  CastText(_, _),   \* CAST(v AS VARCHAR) of a column of a type: the text's place among texts
  JoinedText(_)     \* the texts of several columns, joined by "::", likewise

ComparisonSuffixes == <<"_a", "_b", "_delta", "_delta_pct">>
ComparedColumns(aliases) ==
  [k \in 1..4 * Len(aliases) |->
    aliases[(k - 1) \div 4 + 1] \o ComparisonSuffixes[((k - 1) % 4) + 1]]

AsText(v, type) == IF v = Null THEN Null ELSE CastText(v, type)

-----------------------------------------------------------------------------
(* Resolution of both sides, each against its own metadata                  *)

SideRequest(request) ==
  [groupBy |-> request.groupBy, aggregates |-> request.aggregates, sort |-> <<>>,
   rowCount |-> FALSE, format |-> "OBJECTS"]

SideRefused(request, metadata) ==
  \/ AggregateRefused(SideRequest(request), metadata)
  \/ \E a \in ToSet(ResolvedAggregates(request, metadata)) :
       ~IsNumericAggregate(a.aggregation, metadata[a.measure].type)

(* The label column of a group is there if a side has one.                  *)
BothLabelled(groupsA, groupsB) ==
  [i \in 1..Len(groupsA) |->
    [groupsA[i] EXCEPT !.label = IF @ # Null THEN @ ELSE groupsB[i].label]]

ComparisonColumns(groupsA, groupsB, aggregates) ==
  Map(groupsA, LAMBDA g : g.field) \o LabelColumns(BothLabelled(groupsA, groupsB))
  \o ComparedColumns(Aliases(aggregates))

(* assertSameAggregation(), and the same truncation of each group.          *)
SidesDiffer(groupsA, groupsB, aggregatesA, aggregatesB) ==
  \/ \E i \in 1..Len(aggregatesA) : aggregatesA[i].aggregation # aggregatesB[i].aggregation
  \/ \E i \in 1..Len(groupsA) : groupsA[i].truncation # groupsB[i].truncation

ComparisonRefused(request, metadataA, metadataB) ==
  \/ SideRefused(request, metadataA) \/ SideRefused(request, metadataB)
  \/ LET groupsA == ResolvedGroups(request, metadataA)
         groupsB == ResolvedGroups(request, metadataB)
         aggregatesA == ResolvedAggregates(request, metadataA)
         columns == ComparisonColumns(groupsA, groupsB, aggregatesA)
     IN \/ SidesDiffer(groupsA, groupsB, aggregatesA, ResolvedAggregates(request, metadataB))
        \/ Duplicates(columns)
        \/ \E s \in ToSet(request.sort) : s.field \notin ToSet(columns)

-----------------------------------------------------------------------------
(* The join.  A side is [params, data].                                     *)

Side(request, data) ==
  [params |-> AggregateParams(SideRequest(request), data.metadata), data |-> data]
SideRows(side) == AggregateSelect(side.params, side.data.rows)
TextOf(side, row, field) == AsText(row[field], side.data.metadata[field].type)

(* Faulty: the NULL groups match nothing.                                   *)
FaultyJoined(sideA, sideB, fields, nullSafe) ==
  {p \in SideRows(sideA) \X SideRows(sideB) :
     \A f \in ToSet(fields) : /\ TextOf(sideA, p[1], f) = TextOf(sideB, p[2], f)
                              /\ p[1][f] # Null}

(* joinClause(): IS NOT DISTINCT FROM where NULL groups match each other;   *)
(* the two single rows where there is no group.                             *)
Joined(sideA, sideB, fields, nullSafe) ==
  {p \in SideRows(sideA) \X SideRows(sideB) :
     \A f \in ToSet(fields) : /\ TextOf(sideA, p[1], f) = TextOf(sideB, p[2], f)
                              /\ nullSafe \/ p[1][f] # Null}

(* deltaExpressions(): the percentage is rounded.                           *)
Delta(a, b) == IF a = Null \/ b = Null THEN Null ELSE b - a
DeltaPercent(a, b) ==
  IF a = Null \/ b = Null \/ a = 0 THEN Null
  ELSE IF a > 0 THEN ((b - a) * 100) \div a ELSE ((a - b) * 100) \div (-a)

(* The label of a column, from the side that has one.                       *)
CoalesceLabel(a, b, label) ==
  IF label \in DOMAIN a /\ a[label] # Null THEN a[label]
  ELSE IF label \in DOMAIN b THEN b[label] ELSE Null

(* compareAggregatedFacts(): the group values of side A, the labels of both, *)
(* four columns for each aggregate.                                         *)
ComparedValue(v, w, suffix) ==
  CASE suffix = "_a" -> v
    [] suffix = "_b" -> w
    [] suffix = "_delta" -> Delta(v, w)
    [] suffix = "_delta_pct" -> DeltaPercent(v, w)

ComparedRow(a, b, columns, fields, labels, aliases) ==
  LET Part(c) == CHOOSE p \in ToSet(aliases) \X ToSet(ComparisonSuffixes) : c = p[1] \o p[2]
  IN [c \in ToSet(columns) |->
       IF c \in ToSet(fields) THEN a[c]
       ELSE IF c \in ToSet(labels) THEN CoalesceLabel(a, b, c)
       ELSE ComparedValue(a[Part(c)[1]], b[Part(c)[1]], Part(c)[2])]

CompareAggregatedFacts(request, A, B) ==
  LET sideA == Side(request, A)
      sideB == Side(request, B)
      fields == GroupFields(request)
      groupsA == sideA.params.groups
      groupsB == sideB.params.groups
      columns == ComparisonColumns(groupsA, groupsB, sideA.params.aggregates)
      pairs == Joined(sideA, sideB, fields, TRUE)
  IN [rows  |-> {ComparedRow(p[1], p[2], columns, fields,
                             LabelColumns(BothLabelled(groupsA, groupsB)),
                             Aliases(sideA.params.aggregates)) : p \in pairs},
      sort  |-> ResolvedSort(request.sort, fields),
      total |-> IF fields = <<>> THEN 1 ELSE Cardinality(pairs)]

-----------------------------------------------------------------------------
(* compareFacts(): one measure, one row for each key both sides have; NULL  *)
(* is no key.  The key columns as text break ties.                          *)

MeasureAlias == "_compared_value"

(* NULL is no name.                                                         *)
ASSUME NameAssumption == Null \notin {MeasureAlias, "MONTH"}

MeasureRequest(request) ==
  [SideRequest(request) EXCEPT
     !.aggregates = <<[measure |-> request.aggregates[1].measure,
                       aggregation |-> request.aggregates[1].aggregation, alias |-> MeasureAlias]>>]

ComparisonFields == {"key", "keyLabel", "valueA", "valueB", "delta", "deltaPercent"}

(* Before any access to the database: no key, or a sort on another column.  *)
ComparisonMalformed(request) ==
  \/ request.groupBy = <<>>
  \/ \E s \in ToSet(request.sort) : s.field \notin ComparisonFields

CompareFactsRefused(request, metadataA, metadataB) ==
  LET compared == request.aggregates[1]
  IN \/ \E metadata \in {metadataA, metadataB} :
          \/ UnknownColumns(request, metadata)
          \/ LET column == metadata[compared.measure]
             IN \/ AggregationRefused(compared.aggregation, column)
                \/ ~IsNumericAggregate(EffectiveAggregation(compared.aggregation, column), column.type)
     \/ SidesDiffer(<<>>, <<>>, ResolvedAggregates(request, metadataA),
                    ResolvedAggregates(request, metadataB))

KeyColumn(i) == "_k_" \o ToString(i - 1)

KeyText(sideA, a, fields) ==
  JoinedText(Map(fields, LAMBDA f : TextOf(sideA, a, f)))

ComparisonRow(sideA, a, b, fields) ==
  LET label == IF Len(fields) = 1 THEN CoalesceLabel(a, b, LabelColumnOf(fields[1])) ELSE Null
      v == a[MeasureAlias]
      w == b[MeasureAlias]
      shown == [key |-> KeyText(sideA, a, fields), keyLabel |-> label, valueA |-> v, valueB |-> w,
                delta |-> Delta(v, w), deltaPercent |-> DeltaPercent(v, w)]
      Place(c) == CHOOSE i \in 1..Len(fields) : KeyColumn(i) = c
  IN [c \in ComparisonFields \cup {KeyColumn(i) : i \in 1..Len(fields)} |->
       IF c \in ComparisonFields THEN shown[c] ELSE TextOf(sideA, a, fields[Place(c)])]

CompareFacts(request, A, B) ==
  LET sideA == Side(MeasureRequest(request), A)
      sideB == Side(MeasureRequest(request), B)
      fields == GroupFields(request)
      pairs == Joined(sideA, sideB, fields, FALSE)
      keys == [i \in 1..Len(fields) |-> KeyColumn(i)]
  IN [rows  |-> {ComparisonRow(sideA, p[1], p[2], fields) : p \in pairs},
      sort  |-> request.sort \o Asc(keys),
      total |-> Cardinality(pairs)]

-----------------------------------------------------------------------------
(* crossDatabaseSelectOptions(): the values of a column, as text, that every *)
(* dataset has.                                                             *)
CommonTexts(field, datasets) ==
  LET TextsOf(data) == {AsText(r[field], data.metadata[field].type) : r \in data.rows} \ {Null}
  IN {t \in TextsOf(datasets[1]) : \A i \in 2..Len(datasets) : t \in TextsOf(datasets[i])}

=============================================================================
