------------------------------ MODULE QueryMeaning ------------------------------
(***************************************************************************)
(* What the answers of DataQueries have to do with the filter, read from   *)
(* its tree: the compiled text says the same, a request is refused for a   *)
(* reason, and a menu is complete.                                         *)
(***************************************************************************)
EXTENDS DataQueries, SelectOptions

(* WHERE <filter>: a row passes where the predicate is true, not unknown.   *)
PassesWhere(filter, row) == Truth(BuildWhere(filter), filter.params, row) = TRUE

-----------------------------------------------------------------------------
(* What a filter means, read from the tree and not from the text            *)

(* Where a text stands in another, without wildcards.                       *)
Stands(part, text, place) ==
  \E i \in 0..Len(text) - Len(part) :
    /\ SubSeq(text, i + 1, i + Len(part)) = part
    /\ place = "starts" => i = 0
    /\ place = "ends" => i = Len(text) - Len(part)
    /\ place = "exact" => Len(part) = Len(text)

CriterionMeans(c, row) ==
  LET v == row[c.variable]
      folded == c.operation \in {"ICONTAINS", "ISTARTS", "IENDS", "IEQ"}
      negated == c.operation \in {"NOT_CONTAINS", "NOT_STARTS", "NOT_ENDS"}
      Fold(chars) == IF folded THEN LowerCase(chars) ELSE chars
  IN IF c.operation \in LikeOperations
     THEN IF v = Null THEN Null
          ELSE negated # Stands(Fold(c.value.chars), Fold(v), LikePattern(c.operation))
     ELSE Holds(IF c.operation \in DOMAIN ComparisonSql THEN ComparisonSql[c.operation]
                ELSE c.operation,
                IF c.operation \in Valueless THEN <<>> ELSE Operands(c.operation, c.value), v)

(* From left to right: AND binds tighter than OR, and XOR, XNOR, NAND and   *)
(* NOR take everything before them.                                         *)
RECURSIVE Means(_, _)
Means(node, row) ==
  LET Child(i) == Means(node.children[i], row)
      Whole(acc) == Or3(acc.or, acc.and)
      Step(acc, i) ==
        LET x == Child(i)
            c == ConnectorOf(node.children[i])
            same == Equal3(Whole(acc), x)
        IN CASE c = "AND"     -> [acc EXCEPT !.and = And3(@, x)]
             [] c = "AND_NOT" -> [acc EXCEPT !.and = And3(@, Not3(x))]
             [] c = "OR"      -> [or |-> Whole(acc), and |-> x]
             [] c = "OR_NOT"  -> [or |-> Whole(acc), and |-> Not3(x)]
             [] c = "XOR"     -> [or |-> FALSE, and |-> Not3(same)]
             [] c = "XNOR"    -> [or |-> FALSE, and |-> same]
             [] c = "NAND"    -> [or |-> FALSE, and |-> Not3(And3(Whole(acc), x))]
             [] c = "NOR"     -> [or |-> FALSE, and |-> Not3(Or3(Whole(acc), x))]
      value == IF IsGroup(node)
               THEN Whole(FoldLeft(Step, [or |-> FALSE, and |-> Child(1)],
                                   [i \in 1..Len(node.children) - 1 |-> i + 1]))
               ELSE CriterionMeans(node.criterion, row)
  IN IF node.negate THEN Not3(value) ELSE value

Meant ==
  {r \in request.data.rows : Tree(request) = Null \/ Means(Tree(request), r) = TRUE}

-----------------------------------------------------------------------------
(* Properties *)

(* The text sent to DuckDB, read by its precedences with the n-th           *)
(* placeholder bound to the n-th value, says what the tree says: no         *)
(* connector takes less or more than its part, no value reaches another     *)
(* criterion, and a wildcard in a searched text is a character like any     *)
(* other (treeToSQL(), CONNECTOR_COMBINERS, escapeLike()).                  *)
FilterMeansTree ==
  pc = "resolved" /\ where # Null =>
    \A r \in request.data.rows : Truth(BuildWhere(where), where.params, r) = Means(Tree(request), r)

(* The rows a menu is made of, and the nodes of a tree.                     *)
Searched(label) ==
  {r \in Meant : \E c \in {request.field, label} \ {Null} :
     /\ r[request.field] # Null /\ r[c] # Null
     /\ Stands(LowerCase(request.term), LowerCase(Spelling[r[c]]), "contains")}
TreePaths(metadata) ==
  LET chain == ColumnChain(request.field, request.maxDepth, metadata)
      rows == IF request.term = <<>> THEN Meant ELSE Searched(LabelField(metadata[request.field]))
  IN UNION {PathsOf(r, chain) : r \in {q \in rows : q[chain[1]] # Null}}

(* A request is refused for what is wrong in it and never because the       *)
(* catalog could not be read; and none passes that DuckDB would have to     *)
(* change or to fail on: an integer with a fraction or beyond 2^53, a date  *)
(* that is in no calendar, an offset on a column without one, a pattern     *)
(* RE2 does not have, more work than the bounds (compileFilterTree(),       *)
(* coerceValue(), assertRe2Compatible()).                                   *)
RefusedForAReason ==
  /\ pc = "refused" =>
       \/ RefusedAtOnce
       \/ ArgumentsRefused(request, AllMetadata(request))
       \/ request.kind = "tree" /\ Cardinality(TreePaths(AllMetadata(request)[1])) > request.maxNodes
  /\ where # Null =>
       /\ Len(Criteria(Tree(request))) <= MaxCriteria
       /\ Len(where.params) <= MaxCriteria * MaxInValues
       /\ "pieces" \in DOMAIN request => \A i \in 1..Len(request.pieces) : ~request.pieces[i].bad
       /\ \A i \in 1..Len(Criteria(Tree(request))) :
            LET c == Criteria(Tree(request))[i]
                type == columns[1][c.variable].type
                operands == IF c.operation \in Valueless THEN <<>> ELSE Operands(c.operation, c.value)
            IN \A j \in 1..Len(operands) :
                 /\ type.name \in IntegerTypes =>
                      /\ operands[j].n % 2 = 0
                      /\ operands[j].json = "number" => operands[j].n \div 2 \in -MaxSafe..MaxSafe
                      /\ type.name \in UnsignedTypes => operands[j].n >= 0
                 /\ type.name \in DateTypes =>
                      /\ operands[j].date.day <= DaysIn(operands[j].date.year, operands[j].date.month)
                      /\ operands[j].date.offset \notin {"", "Z"} => type.name \in TimezoneTypes

(* A menu holds as many of the values left by the filter and the search as  *)
(* the limit lets it, none of which comes after one that is left out: in    *)
(* the order of the column, or in that of the texts where the column has    *)
(* labels (loadSelectOptions(), loadLabelledSelectOptions(): "ordered by    *)
(* code as VARCHAR"); or it holds the whole tree of them, each node once    *)
(* under its parent, never a part of it: "rejected with BAD_USER_INPUT -    *)
(* never truncated" (loadSelectOptionsTree()).                              *)
MenuIsComplete ==
  /\ (pc = "done" /\ request.kind = "options") =>
       LET label == ChosenLabel(request.field, request.label, columns[1])
           values == {r[request.field] : r \in Searched(label)}
           kept == {v \in values : \E o \in received[1] : o.value = Spelling[v]}
       IN /\ Cardinality(kept) = Cardinality(received[1])
          /\ \/ Cardinality(kept) = request.limit
             \/ Cardinality(kept) < request.limit /\ kept = values
          /\ \A v \in kept, w \in values \ kept :
               IF label = Null THEN v < w ELSE TextBefore(Spelling[v], Spelling[w])
  /\ (pc = "done" /\ request.kind = "tree") =>
       /\ DOMAIN received[1] = TreePaths(columns[1])
       /\ Cardinality(DOMAIN received[1]) <= request.maxNodes

=============================================================================
