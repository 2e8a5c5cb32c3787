------------------------------ MODULE MCDataQueries ------------------------------
(***************************************************************************)
(* Requests for TLC: every filter over three columns with up to four       *)
(* criteria, every operation on every type, patterns, small facts with     *)
(* ties and NULLs, groups, pairs of datasets, menus.                       *)
(***************************************************************************)
EXTENDS QueryMeaning

CONSTANT null

MCColumns == <<"a", "b">>
Dash == [json |-> "null"]
Num(n) == [json |-> "number", n |-> n]
Numeral(n) == [json |-> "string", as |-> "numeral", n |-> n]
Text(chars) == [json |-> "string", as |-> "text", chars |-> chars]
Date(y, m, d, time, zone) ==
  [json |-> "string", as |-> "date",
   date |-> [year |-> y, month |-> m, day |-> d, time |-> time, offset |-> zone]]
Range2(v, w) == [json |-> "range", min |-> v, max |-> w]
Items(s) == [json |-> "array", items |-> s]

Type(name) == [name |-> name, precision |-> 0, scale |-> 0]
Column(type, default, labels, parent) ==
  [type |-> type, default |-> default, labels |-> labels, parent |-> parent]
Plain(name) == Column(Type(name), Null, <<>>, Null)

Leaf(connector, negate, column, op, value) ==
  [connector |-> connector, negate |-> negate, children |-> Null,
   criterion |-> [variable |-> column, operation |-> op, value |-> value]]
Group(connector, negate, children) ==
  [connector |-> connector, negate |-> negate, children |-> children, criterion |-> Null]

Data(rows, metadata) ==
  [rows |-> rows, metadata |-> metadata, primaryKeys |-> {}, clusterBy |-> <<>>]
Stats(data, tree, field) == [kind |-> "stats", data |-> data, tree |-> tree, field |-> field]

-----------------------------------------------------------------------------
(* Filters: numbers count halves, so that 0 and 2 are integers.             *)

Abc == Data([{"a", "b", "c"} -> {0, 2, Null}],
            [c \in {"a", "b", "c"} |-> Plain("INTEGER")])
Is(connector, negate, column) == Leaf(connector, negate, column, "EQ", Num(2))
Links == FilterConnectors

FlatTrees ==
  {Group(Null, n = 0, <<Is(Null, n = 1, "a"), Is(x, n = 2, "b"), Is(y, n = 3, "c")>>) :
     x, y \in Links, n \in 0..4}
LongTrees ==
  {Group(Null, FALSE, <<Is(Null, FALSE, "a"), Is(x, FALSE, "b"), Is(y, FALSE, "c"), Is(z, FALSE, "a")>>) :
     x, y \in Links, z \in {"OR", "AND_NOT", "XOR"}}
NestedTrees ==
  {Group(Null, FALSE, <<Group(Null, n = 1, <<Is(Null, FALSE, "a"), Is(x, n = 2, "b")>>), Is(y, FALSE, "c")>>) :
     x, y \in Links, n \in 0..2}
  \cup
  {Group(Null, FALSE, <<Is(Null, FALSE, "a"), Group(y, n = 1, <<Is(Null, n = 2, "b"), Is(x, FALSE, "c")>>)>>) :
     x, y \in Links, n \in 0..2}

One(column, op, value) == Group(Null, FALSE, <<Leaf(Null, FALSE, column, op, value)>>)
ListTrees ==
  {One("a", op, v) : op \in FilterOperations,
     v \in {Dash, Num(0), Num(2), Range2(Num(0), Num(1)), Range2(Num(2), Text(<<"a">>)),
            Items(<<>>), Items(<<Num(2), Num(4)>>), Items(<<Num(0), Num(2), Num(4)>>)}}
  \cup
  {Group(Null, FALSE, <<Leaf(Null, FALSE, "a", op, Range2(Num(1), Num(2))), Leaf("OR", FALSE, "b", "IN", Items(<<Num(2), Num(0)>>)),
                        Is("AND", FALSE, "c")>>) : op \in Ranges}

(* Trees that are not ones.                                                 *)
BadTrees ==
  {Is(Null, FALSE, "a"), Group(Null, FALSE, <<>>), One("", "EQ", Num(2)), One("unknown", "EQ", Num(2)),
   One("a", "LIKE", Num(2)), Group(Null, FALSE, <<[Is(Null, FALSE, "a") EXCEPT !.children = <<>>]>>),
   Group(Null, FALSE, <<Is("BUT", FALSE, "a")>>),
   Group(Null, FALSE, <<Is(Null, FALSE, "a"), Is(Null, FALSE, "b"), Is(Null, FALSE, "c"),
                        Is(Null, FALSE, "a"), Is(Null, FALSE, "b")>>)}
  \cup {Group(Null, FALSE, <<Group(Null, FALSE, <<Group(Null, FALSE, <<t>>)>>)>>) :
          t \in {Is(Null, FALSE, "a"), Group(Null, FALSE, <<Is(Null, FALSE, "a")>>)}}

Texts == {<<"a">>, <<"A", "b">>, <<"%", "a">>, <<"_">>, <<"a", "_">>, <<"b", "a">>, <<"\\">>, Null}
Words == Data({[s |-> t, n |-> 2] : t \in Texts},
              [s |-> Plain("VARCHAR"), n |-> Plain("INTEGER")])
WordTrees ==
  {One("s", op, Text(t)) : op \in LikeOperations \cup {"EQ", "NEQ"},
     t \in {<<"a">>, <<"%">>, <<"_">>, <<"a", "_">>, <<"A">>, <<"\\">>, <<>>}}
  \cup {One("s", op, Items(<<Text(<<"a">>), Text(<<"_">>)>>)) : op \in Lists}

(* Every type against values of every kind.                                 *)
TypeNames == {"INTEGER", "UINTEGER", "DOUBLE", "DATE", "TIMESTAMP", "TIMESTAMPTZ", "TIMESTAMP_NS",
              "BOOLEAN", "BLOB"}
Typed == Data({}, [c \in TypeNames |-> Plain(c)] @@
                  [DECIMAL |-> Column([name |-> "DECIMAL", precision |-> 4, scale |-> 2], Null, <<>>, Null),
                   OVERFULL |-> Column([name |-> "DECIMAL", precision |-> 2, scale |-> 4], Null, <<>>, Null)])
JsonValues == {Num(n) : n \in {-2, 1, 2, 2 * MaxSafe + 2}} \cup {Numeral(n) : n \in {-2, 1, 2, 2 * MaxSafe + 2}}
          \cup {[json |-> "boolean", b |-> TRUE], Text(<<"x">>), Dash}
          \cup {Date(y, m, d, t, z) : y \in {50, 1900, 2024, 2300}, m \in {2}, d \in {28, 29, 30},
                                      t \in {<<>>, <<23, 59, 59>>, <<24, 0, 0>>}, z \in {"", "+02"}}
TypedTrees ==
  {One(c, op, v) : c \in DOMAIN Typed.metadata, op \in {"EQ"}, v \in JsonValues}
  \cup {One(c, "BETWEEN", Range2(v, Num(2))) : c \in {"INTEGER", "DATE"}, v \in JsonValues}

Piece(chars, bad) == [chars |-> chars, bad |-> bad]
Pieces == {Piece(<<"a">>, FALSE), Piece(<<"[", "a", "(", "]">>, FALSE), Piece(<<"[", "]", "(", "?", "=", "]">>, FALSE),
           Piece(<<"[", "^", "]", "a", "]">>, FALSE), Piece(<<"\\", "(">>, FALSE), Piece(<<"\\", "\\">>, FALSE),
           Piece(<<"(", "a", ")">>, FALSE), Piece(<<"(", "?", "=", "a", ")">>, TRUE),
           Piece(<<"(", "?", "!", "a", ")">>, TRUE), Piece(<<"\\", "1">>, TRUE)}
Patterns ==
  {[pieces |-> p] @@ Stats(Data({}, Words.metadata),
                           One("s", "MATCHES", Text(FlattenSeq(Map(p, LAMBDA x : x.chars)))), "n") :
     p \in UNION {[1..n -> Pieces] : n \in 1..3}}

FilterRequests ==
  {Stats(Abc, t, "a") : t \in FlatTrees \cup LongTrees \cup NestedTrees \cup ListTrees \cup BadTrees \cup {Null}}
  \cup {Stats(Words, t, "n") : t \in WordTrees} \cup {Stats(Typed, t, "INTEGER") : t \in TypedTrees}
  \cup {Stats(Abc, Null, "unknown")} \cup Patterns

-----------------------------------------------------------------------------
(* Facts, groups                                                            *)

Pair(x, y) == [a |-> x, b |-> y]
Numbers == [c \in {"a", "b"} |-> Plain("INTEGER")]
Facts(rows, keys, cluster) ==
  [rows |-> rows, metadata |-> Numbers, primaryKeys |-> keys, clusterBy |-> cluster]
KeyedRows == {{Pair(x, 1), Pair(y, 2), Pair(z, 3)} : x, y, z \in {1, 2, Null}}
KeylessRows == {{Pair(1, 1), Pair(1, Null), Pair(Null, 1)}, {Pair(Null, Null), Pair(1, 1), Pair(2, 1)}}
FactData == {Facts(R, {"b"}, c) : R \in KeyedRows, c \in {<<>>, <<"a">>, <<"dropped", "a", "b">>}}
            \cup {Facts(R, {}, <<>>) : R \in KeylessRows}
By(field, dir) == <<[field |-> field, dir |-> dir]>>
FactRequests ==
  {[kind |-> "facts", data |-> d, tree |-> t, sort |-> s, limit |-> n, format |-> "OBJECTS"] :
     d \in FactData, t \in {Null, One("a", "EQ", Num(2))},
     s \in {<<>>, By("a", "DESC"), By("unknown", "ASC")}, n \in {0, 1, 2, 5}}

SalesColumns(default) ==
  [g |-> Column(Type("INTEGER"), Null, <<"gl">>, Null), gl |-> Plain("VARCHAR"), d |-> Plain("DATE"),
   measure |-> Plain("INTEGER"), v |-> Column(Type("INTEGER"), default, <<>>, Null)]
Sale(id, g, d, v) == [id |-> id, g |-> g, gl |-> IF g = 2 THEN Null ELSE g, d |-> d, measure |-> g, v |-> v]
Sales == {Data({Sale(1, 1, 0, 3), Sale(2, 1, 1, Null), Sale(3, 2, 1, 5), Sale(4, Null, 2, 3)}, SalesColumns("AVG")),
          Data({Sale(1, Null, Null, 3), Sale(2, 1, 1, 3), Sale(3, 1, 2, 3)}, SalesColumns("SUM")),
          Data({}, SalesColumns("SUM"))}
By1(field, grain) == [field |-> field, grain |-> grain]
Agg(measure, aggregation, alias) == [measure |-> measure, aggregation |-> aggregation, alias |-> alias]
GroupBys == {<<>>, <<By1("g", Null)>>, <<By1("d", "MONTH"), By1("g", Null)>>, <<By1("measure", Null)>>,
             <<By1("d", "HOUR")>>, <<By1("g", Null), By1("g", Null)>>, <<By1("unknown", Null)>>}
Aggs == {<<Agg("v", Null, Null)>>, <<Agg("v", "MAX", Null), Agg("g", "COUNT", "n")>>,
         <<Agg("v", "SUM", "g__label")>>, <<Agg("gl", "SUM", Null)>>, <<Agg("gl", Null, Null)>>, <<>>,
         <<Agg("v", "MEDIAN", Null), Agg("v", "MODE", "value")>>}
AggregateRequests ==
  {[kind |-> "aggregates", data |-> d, tree |-> Null, groupBy |-> g, aggregates |-> a, sort |-> s,
    rowCount |-> c, format |-> f, limit |-> 1] :
     d \in Sales, g \in GroupBys, a \in Aggs, c \in BOOLEAN, f \in {"OBJECTS", "LONG"},
     s \in {<<>>, By("v_max", "DESC"), By("row_count", "ASC")}}

(* The same column typed apart, and the same group absent on a side.        *)
OtherColumns(default, type) ==
  [SalesColumns(default) EXCEPT !.g.type = Type(type), !.g.labels = <<>>, !.d = Plain(IF type = "DOUBLE" THEN "TIMESTAMP" ELSE "DATE")]
Others == {Data({Sale(1, 1, 0, 4), Sale(2, Null, 1, 7), Sale(3, 2, 1, 0)}, OtherColumns(a, t)) :
             a \in {"SUM", "AVG"}, t \in {"INTEGER", "DOUBLE"}}
Compared(kind, groupBys, sorts) ==
  {[kind |-> kind, data |-> d, other |-> o, groupBy |-> g, aggregates |-> a, sort |-> s, rowCount |-> FALSE,
    format |-> "OBJECTS", limit |-> 1] :
     d \in Sales, o \in Others, g \in groupBys, s \in sorts,
     a \in {<<Agg("v", Null, Null)>>, <<Agg("v", "SUM", Null)>>, <<Agg("gl", "MODE", Null)>>}}
PlainGroups == {<<>>, <<By1("g", Null)>>, <<By1("g", Null), By1("d", Null)>>}
CompareRequests ==
  Compared("compareAggregatedFacts", PlainGroups \cup {<<By1("d", "MONTH")>>},
           {<<>>, By("valueA", "DESC"), By("v_sum_delta", "DESC")})
  \cup Compared("compareFacts", PlainGroups, {<<>>, By("valueA", "DESC"), By("key", "DESC"), By("g", "ASC")})

(* Texts in their order: "1" < "1.0" < "2", a date before it at midnight,   *)
(* words last.  CONCAT skips what is NULL.                                  *)
MCCastText(v, type) ==
  CASE type.name = "INTEGER" -> 10 * v
    [] type.name = "DOUBLE" -> 10 * v + 5
    [] type.name = "DATE" -> 100 + 10 * v
    [] type.name = "TIMESTAMP" -> 105 + 10 * v
    [] OTHER -> 200 + v
MCJoinedText(texts) ==
  FoldLeft(LAMBDA joined, t : IF t = Null THEN joined ELSE 1000 * joined + t, 0, texts)

-----------------------------------------------------------------------------
(* Menus                                                                    *)

(* The codes are the numbers 2, 10, 11 and 20, which texts have in another  *)
(* order: "10" < "11" < "2" < "20".  The labels hold wildcards.             *)
Codes == <<4, 20, 22, 40>>
Labels == <<100, Null, 101>>
MCAlphabet == <<"%", "0", "1", "2", "A", "_", "a", "b">>
MCSpelling ==
  4 :> <<"2">> @@ 20 :> <<"1", "0">> @@ 22 :> <<"1", "1">> @@ 40 :> <<"2", "0">>
  @@ 100 :> <<"A", "%">> @@ 101 :> <<"_", "b", "0">>
PlaceColumns(top) ==
  [r |-> Column(Type("INTEGER"), Null, <<>>, top), d |-> Column(Type("INTEGER"), Null, <<"dl">>, "r"),
   dl |-> Plain("VARCHAR"), c |-> Column(Type("INTEGER"), Null, <<>>, "d")]
Place(r, d, c) ==
  LET Code(n) == IF n = Null THEN Null ELSE Codes[n]
  IN [r |-> Code(r), d |-> Code(d), dl |-> IF d = Null THEN Null ELSE Labels[d], c |-> Code(c)]
Places == {Data({Place(1, 1, 1), Place(1, 1, 2), Place(1, 2, Null), Place(2, 3, 3), Place(Null, Null, Null)}, PlaceColumns(Null)),
           Data({Place(1, 1, 4), Place(2, 1, Null), Place(3, Null, Null)}, PlaceColumns("c"))}
PlaceTrees ==
  {Null, Group(Null, FALSE, <<>>), One("r", "EQ", Num(4)),
   Group(Null, FALSE, <<Leaf(Null, FALSE, "r", "EQ", Num(4)), Leaf("OR", FALSE, "d", "IS_NULL", Dash)>>)}
MenuRequests ==
  {[kind |-> "options", data |-> p, tree |-> t, field |-> f, limit |-> n, term |-> w, label |-> l] :
     p \in Places, t \in PlaceTrees, f \in {"r", "d", "c", "unknown"}, n \in {1, 2, 4},
     w \in {<<>>, <<"a">>, <<"%">>, <<"B">>, <<"_">>, <<"1">>}, l \in {Null, "dl"}}
  \cup
  {[kind |-> "tree", data |-> p, tree |-> t, field |-> f, maxDepth |-> m, term |-> w, maxNodes |-> n] :
     p \in Places, t \in PlaceTrees, f \in {"d", "c", "unknown"}, m \in {Null, 0, 1, 2}, n \in 1..7,
     w \in {<<>>, <<"a">>, <<"%">>, <<"1">>}}
  \cup
  {[kind |-> "commonOptions", data |-> d, other |-> o, field |-> f, limit |-> n] :
     d \in Sales, o \in Others, f \in {"g", "unknown"}, n \in {1, 2}}

MCRequests == FilterRequests \cup FactRequests \cup AggregateRequests \cup CompareRequests \cup MenuRequests

=============================================================================
