----------------------------- MODULE AggregateQuery -----------------------------
(***************************************************************************)
(* Aggregates over groups of facts: how a getAggregates request is resolved *)
(* against the metadata (src/utils/aggregate-query.ts), and what its one    *)
(* statement returns.                                                      *)
(*                                                                         *)
(* A dataset is [rows, metadata]: a set of facts, functions from columns   *)
(* to values, and for each column [type, default, labels].  Messages,      *)
(* formats, units and the description of the columns are left out; the     *)
(* filter is a set of rows already chosen.                                 *)
(***************************************************************************)
EXTENDS RowOrder, SqlTypes

CONSTANTS MaxAggregates, MaxGroupBy   \* API.AGGREGATES

ASSUME AggregateAssumption == MaxAggregates \in Nat /\ MaxGroupBy \in Nat

-----------------------------------------------------------------------------
(* Aggregations and their SQL                                               *)

Aggregations == {"SUM", "AVG", "MAX", "MIN", "COUNT", "MEDIAN", "MODE"}
NumericResult == {"SUM", "AVG", "MEDIAN", "COUNT"}
AllowedAggregations(type) ==
  CASE SqlTypeFamily(type) = "numeric" -> Aggregations
    [] SqlTypeFamily(type) = "date"    -> {"MAX", "MIN", "COUNT", "MODE"}
    [] OTHER -> {"COUNT", "MODE"}

IsNumericAggregate(aggregation, type) ==
  aggregation \in NumericResult \/ SqlTypeFamily(type) = "numeric"

(* The argument, the measure's own, SUM of a number; Null where none can be *)
(* implied.                                                                 *)
EffectiveAggregation(explicit, field) ==
  IF explicit # Null THEN explicit
  ELSE IF field.default \in Aggregations THEN field.default
  ELSE IF SqlTypeFamily(field.type) = "numeric" THEN "SUM"
  ELSE Null

AggregationRefused(explicit, field) ==
  EffectiveAggregation(explicit, field) \notin AllowedAggregations(field.type)

DefaultAlias(measure, aggregation) ==
  measure \o "_" \o [SUM |-> "sum", AVG |-> "avg", MAX |-> "max", MIN |-> "min", COUNT |-> "count",
                     MEDIAN |-> "median", MODE |-> "mode"][aggregation]
LabelColumnOf(field) == field \o "__label"

(* resolveLabelField(), without an argument: the first label column.        *)
LabelField(field) == IF field.labels = <<>> THEN Null ELSE field.labels[1]

(* With one, a label column that is not one of the field's is refused.      *)
LabelRefused(field, requested, metadata) ==
  requested # Null /\ requested \notin ToSet(metadata[field].labels)
ChosenLabel(field, requested, metadata) ==
  IF requested # Null THEN requested ELSE LabelField(metadata[field])

-----------------------------------------------------------------------------
(* Truncation to a grain                                                    *)

DayGrains == {"DAY", "WEEK", "MONTH", "QUARTER", "YEAR"}
TimeGrains == DayGrains \cup {"SECOND", "MINUTE", "HOUR"}

GrainRefused(grain, type) ==
  \/ SqlTypeFamily(type) # "date"
  \/ grain \notin (IF type.name = "DATE" THEN DayGrains ELSE TimeGrains)

Truncation(grain, type) ==
  CASE grain = Null -> Null
    [] grain # Null /\ type.name = "DATE" -> "date"
    [] grain # Null /\ type.name \in TimezoneTypes -> "timestamptz"
    [] OTHER -> "timestamp"

-----------------------------------------------------------------------------
(* A request: [groupBy: [field, grain], aggregates: [measure, aggregation,  *)
(* alias], sort: [field, dir], rowCount, format], Null where not given.      *)

Map(seq, Op(_)) == [i \in 1..Len(seq) |-> Op(seq[i])]
Duplicates(seq) == \E i, j \in 1..Len(seq) : i < j /\ seq[i] = seq[j]

GroupFields(request) == Map(request.groupBy, LAMBDA g : g.field)
Measures(request) == Map(request.aggregates, LAMBDA a : a.measure)

ResolvedGroups(request, metadata) ==
  Map(request.groupBy, LAMBDA g :
    [field |-> g.field, grain |-> g.grain,
     truncation |-> Truncation(g.grain, metadata[g.field].type),
     label |-> IF g.grain # Null THEN Null ELSE LabelField(metadata[g.field])])

ResolvedAggregates(request, metadata) ==
  Map(request.aggregates, LAMBDA a :
    LET effective == EffectiveAggregation(a.aggregation, metadata[a.measure])
    IN [measure |-> a.measure, aggregation |-> effective,
        alias |-> IF a.alias = Null THEN DefaultAlias(a.measure, effective) ELSE a.alias])

LabelColumns(groups) ==
  Map(Keep(groups, {g \in ToSet(groups) : g.label # Null}), LAMBDA g : LabelColumnOf(g.field))

Aliases(aggregates) == Map(aggregates, LAMBDA a : a.alias)

OutputColumns(groups, aggregates, rowCount) ==
  Map(groups, LAMBDA g : g.field) \o LabelColumns(groups) \o Aliases(aggregates)
  \o (IF rowCount THEN <<"row_count">> ELSE <<>>)

(* The client's criteria, the first of a column, then every group column.   *)
ResolvedSort(sort, fields) ==
  LET all == sort \o Asc(fields)
  IN Pick(all, {i \in 1..Len(all) : \A j \in 1..i - 1 : all[j].field # all[i].field})

(* The columns of the LONG format that a group would hide.                  *)
ReservedTaken(groups, aggregates, rowCount) ==
  \E name \in {"measure", "value"} :
    /\ name \in ToSet(OutputColumns(groups, aggregates, rowCount))
    /\ name \notin ToSet(Aliases(aggregates))

(* resolveAggregateParams(): what it refuses, and what it returns.          *)
UnknownColumns(request, metadata) ==
  ~(ToSet(GroupFields(request)) \cup ToSet(Measures(request)) \subseteq DOMAIN metadata)

AggregateRefused(request, metadata) ==
  \/ Len(request.aggregates) \notin 1..MaxAggregates
  \/ Len(request.groupBy) > MaxGroupBy
  \/ UnknownColumns(request, metadata)
  \/ Duplicates(GroupFields(request))
  \/ \E g \in ToSet(request.groupBy) :
       g.grain # Null /\ GrainRefused(g.grain, metadata[g.field].type)
  \/ \E a \in ToSet(request.aggregates) :
       AggregationRefused(a.aggregation, metadata[a.measure])
  \/ LET groups == ResolvedGroups(request, metadata)
         aggregates == ResolvedAggregates(request, metadata)
         columns == OutputColumns(groups, aggregates, request.rowCount)
     IN \/ Duplicates(columns)
        \/ request.format = "LONG" /\ ReservedTaken(groups, aggregates, request.rowCount)
        \/ \E s \in ToSet(request.sort) : s.field \notin ToSet(columns)

AggregateParams(request, metadata) ==
  [groups |-> ResolvedGroups(request, metadata),
   aggregates |-> ResolvedAggregates(request, metadata),
   sort |-> ResolvedSort(request.sort, GroupFields(request)),
   rowCount |-> request.rowCount]

-----------------------------------------------------------------------------
(* What the statements return.  A date counts days, a month is two of them. *)

GroupValue(group, row) ==
  LET v == row[group.field]
  IN IF v # Null /\ group.grain = "MONTH" THEN 2 * (v \div 2) ELSE v

GroupKey(groups, row) == Map(groups, LAMBDA g : GroupValue(g, row))

(* A sum of integers: the units of the positive ones less those of the      *)
(* negative ones.                                                           *)
SumOf(rows, Of(_)) ==
  LET Units(sign) == UNION {{<<r, k>> : k \in 1..sign * Of(r)} : r \in rows}
  IN Cardinality(Units(1)) - Cardinality(Units(-1))

(* DuckDB's aggregates skip NULL; MODE takes the smallest of the most       *)
(* frequent.  AVG and MEDIAN are rounded to an integer.                     *)
AggregateValue(aggregation, measure, rows) ==
  LET known == {r \in rows : r[measure] # Null}
      values == {r[measure] : r \in known}
      sum == SumOf(known, LAMBDA r : r[measure])
      Times(v) == Cardinality({r \in known : r[measure] = v})
      Least(S) == CHOOSE v \in S : \A w \in S : v <= w
      Rank(r) == Cardinality({q \in known : q[measure] < r[measure]})
  IN CASE aggregation = "COUNT" -> Cardinality(known)
       [] aggregation # "COUNT" /\ known = {} -> Null
       [] aggregation = "SUM" /\ known # {} -> sum
       [] aggregation = "AVG" /\ known # {} -> sum \div Cardinality(known)
       [] aggregation = "MIN" /\ known # {} -> Least(values)
       [] aggregation = "MAX" /\ known # {} -> CHOOSE v \in values : \A w \in values : w <= v
       [] aggregation = "MEDIAN" /\ known # {} ->
            LET below == {r \in known : 2 * Rank(r) <= Cardinality(known)}
            IN CHOOSE v \in {r[measure] : r \in below} : \A r \in below : r[measure] <= v
       [] aggregation = "MODE" /\ known # {} ->
            Least({v \in values : \A w \in values : Times(w) <= Times(v)})

(* buildAggregateSelect(): a row for each group, NULL a group like another; *)
(* one row without groups.                                                  *)
AggregateRow(params, rows) ==
  LET some == CHOOSE r \in rows : TRUE
      fields == Map(params.groups, LAMBDA g : g.field)
      Group(c) == CHOOSE g \in ToSet(params.groups) : g.field = c
      Labelled(c) == CHOOSE g \in ToSet(params.groups) : g.label # Null /\ LabelColumnOf(g.field) = c
      Aggregate(c) == CHOOSE a \in ToSet(params.aggregates) : a.alias = c
  IN [c \in ToSet(OutputColumns(params.groups, params.aggregates, params.rowCount)) |->
       IF c \in ToSet(fields) THEN GroupValue(Group(c), some)
       ELSE IF c \in ToSet(LabelColumns(params.groups)) THEN some[Labelled(c).label]
       ELSE IF c \in ToSet(Aliases(params.aggregates))
         THEN AggregateValue(Aggregate(c).aggregation, Aggregate(c).measure, rows)
       ELSE Cardinality(rows)]

Groups(groups, rows) == {{r \in rows : GroupKey(groups, r) = GroupKey(groups, q)} : q \in rows}

AggregateSelect(params, rows) ==
  IF params.groups = <<>> THEN {AggregateRow(params, rows)}
  ELSE {AggregateRow(params, group) : group \in Groups(params.groups, rows)}

(* Faulty: the groups are counted with COUNT(DISTINCT).                     *)
FaultyGroupCount(params, rows) ==
  IF params.groups = <<>> THEN 1
  ELSE Cardinality({k \in {GroupKey(params.groups, r) : r \in rows} : Null \notin ToSet(k)})

(* buildGroupCountQuery(); nothing is counted without groups.               *)
GroupCount(params, rows) ==
  IF params.groups = <<>> THEN 1 ELSE Cardinality(Groups(params.groups, rows))

-----------------------------------------------------------------------------
(* The LONG format: a row for each aggregate, its identifier columns first. *)

MeltRow(row, aliases, alias) ==
  [c \in (DOMAIN row \ ToSet(aliases)) \cup {"measure", "value"} |->
    IF c = "measure" THEN alias ELSE IF c = "value" THEN row[alias] ELSE row[c]]

MeltRows(seq, aliases) ==
  LET width == Len(aliases)
  IN [k \in 1..Len(seq) * width |->
       MeltRow(seq[(k - 1) \div width + 1], aliases, aliases[((k - 1) % width) + 1])]

=============================================================================
