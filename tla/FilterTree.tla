------------------------------- MODULE FilterTree -------------------------------
(***************************************************************************)
(* The compiler of structured filters (src/utils/filter-tree.ts): a tree   *)
(* of criteria and groups from the client becomes one SQL predicate with   *)
(* `?` placeholders and the list of their values.                          *)
(*                                                                         *)
(* Quoting, names that are not columns and messages are left out.          *)
(***************************************************************************)
EXTENDS SqlText, SqlTypes

CONSTANTS
  MaxDepth,           \* SECURITY.FILTER_TREE.MAX_DEPTH
  MaxCriteria,        \* SECURITY.FILTER_TREE.MAX_CRITERIA
  MaxInValues,        \* SECURITY.FILTER_TREE.MAX_IN_VALUES
  MaxPatternLength,   \* SECURITY.FILTER_TREE.MAX_PATTERN_LENGTH
  MaxSafe             \* stands for 2^53 - 1

ASSUME FilterAssumption ==
  {MaxDepth, MaxCriteria, MaxInValues, MaxPatternLength, MaxSafe} \subseteq Nat

-----------------------------------------------------------------------------
(* Operations *)

Presence == {"IS_NULL", "IS_NOT_NULL"}
Valueless == Presence \cup {"IS_TRUE", "IS_FALSE", "IS_NOT_TRUE", "IS_NOT_FALSE"}
Lists == {"IN", "NOT_IN"}
Ranges == {"BETWEEN", "NOT_BETWEEN"}

(* The LIKE family: the negated, the case-insensitive, and where the value  *)
(* stands in the pattern.                                                   *)
LikeOperations ==
  {"CONTAINS", "NOT_CONTAINS", "ICONTAINS", "STARTS", "NOT_STARTS", "ISTARTS",
   "ENDS", "NOT_ENDS", "IENDS", "IEQ"}
LikePattern(op) ==
  IF op \in {"CONTAINS", "NOT_CONTAINS", "ICONTAINS"} THEN "contains"
  ELSE IF op \in {"STARTS", "NOT_STARTS", "ISTARTS"} THEN "starts"
  ELSE IF op \in {"ENDS", "NOT_ENDS", "IENDS"} THEN "ends"
  ELSE "exact"

AllowedOperations == [
  numeric |-> {"EQ", "NEQ", "GT", "GTE", "LT", "LTE"} \cup Ranges \cup Lists \cup Presence,
  date    |-> {"EQ", "NEQ", "BEFORE", "AFTER", "ON_OR_BEFORE", "ON_OR_AFTER"}
              \cup Ranges \cup Lists \cup Presence,
  text    |-> {"EQ", "NEQ", "MATCHES"} \cup LikeOperations \cup Lists \cup Presence,
  boolean |-> {"EQ", "NEQ"} \cup Valueless,
  other   |-> Presence]

FilterOperations == UNION {AllowedOperations[f] : f \in DOMAIN AllowedOperations}

ComparisonSql == [
  EQ |-> "=", NEQ |-> "<>", GT |-> ">", GTE |-> ">=", LT |-> "<", LTE |-> "<=",
  BEFORE |-> "<", AFTER |-> ">", ON_OR_BEFORE |-> "<=", ON_OR_AFTER |-> ">="]

FilterConnectors == {"AND", "OR", "AND_NOT", "OR_NOT", "XOR", "XNOR", "NAND", "NOR"}

-----------------------------------------------------------------------------
(* Values: what JSON carries, as records tagged by `json`.  A number counts *)
(* halves, so that an odd one has a fraction; a string is a numeral, a date *)
(* or a sequence of characters.                                             *)

IsScalar(v) == v.json \in {"number", "string", "boolean"}
IsText(v) == v.json = "string" /\ v.as = "text"

(* Date.UTC carries a day the month does not have into the next month, and  *)
(* takes the years 0 to 99 for 1900 to 1999.                                *)
Leap(y) == y % 4 = 0 /\ (y % 100 # 0 \/ y % 400 = 0)
DaysIn(y, m) == CASE m = 2 -> IF Leap(y) THEN 29 ELSE 28
                  [] m \in {4, 6, 9, 11} -> 30
                  [] OTHER -> 31
IsValidCalendarDate(date) ==
  /\ date.year \notin 0..99
  /\ date.month \in 1..12 /\ date.day \in 1..DaysIn(date.year, date.month)
  /\ date.time # <<>> => date.time[1] <= 23 /\ date.time[2] <= 59 /\ date.time[3] <= 59

(* TIMESTAMP_NS holds 64 bits of nanoseconds; fraction and offset are not   *)
(* looked at.                                                               *)
NotAfter(s, t) == s = t \/ \E i \in 1..Len(s) : s[i] < t[i] /\ \A j \in 1..i - 1 : s[j] = t[j]
InNanosecondRange(date) ==
  LET instant == <<date.year, date.month, date.day>>
                 \o (IF date.time = <<>> THEN <<0, 0, 0>> ELSE date.time)
  IN /\ NotAfter(<<1677, 9, 21, 0, 12, 44>>, instant)
     /\ NotAfter(instant, <<2262, 4, 11, 23, 47, 16>>)

(* A string carries what a JS number cannot.                                *)
NumericAccepted(v, type) ==
  /\ \/ v.json = "number" /\ (type.name \in IntegerTypes =>
                                v.n % 2 = 0 /\ v.n \div 2 \in -MaxSafe..MaxSafe)
     \/ v.json = "string" /\ v.as = "numeral" /\ (type.name \in IntegerTypes => v.n % 2 = 0)
  /\ type.name \in UnsignedTypes => v.n >= 0

DateAccepted(v, type) ==
  /\ v.json = "string" /\ v.as = "date"
  /\ type.name = "DATE" => v.date.time = <<>>
  /\ IsValidCalendarDate(v.date)
  /\ type.name = "TIMESTAMP_NS" => InNanosecondRange(v.date)
  /\ v.date.offset \notin {"", "Z"} => type.name \in TimezoneTypes

(* coerceValue(): the value is bound as it is or refused.                   *)
ValueAccepted(v, type) ==
  CASE SqlTypeFamily(type) = "numeric" -> NumericAccepted(v, type)
    [] SqlTypeFamily(type) = "date"    -> DateAccepted(v, type)
    [] SqlTypeFamily(type) = "text"    -> v.json = "string"
    [] SqlTypeFamily(type) = "boolean" -> v.json = "boolean"
    [] OTHER -> FALSE

-----------------------------------------------------------------------------
(* Structure.  A node is [connector, negate, criterion, children], with     *)
(* Null for the field that is not set; a criterion is [variable, operation, *)
(* value].                                                                  *)

IsGroup(node) == node.children # Null

RECURSIVE Criteria(_)
Criteria(node) ==
  IF ~IsGroup(node) THEN <<node.criterion>>
  ELSE FlattenSeq([i \in 1..Len(node.children) |-> Criteria(node.children[i])])

RECURSIVE MalformedNode(_, _)
MalformedNode(node, depth) ==
  \/ (node.criterion = Null) = (node.children = Null)
  \/ node.connector \notin FilterConnectors \cup {Null}
  \/ depth = 0 /\ ~IsGroup(node)
  \/ IsGroup(node) /\ \/ node.children = <<>>
                      \/ depth > MaxDepth
                      \/ \E i \in 1..Len(node.children) :
                           MalformedNode(node.children[i], depth + 1)
  \/ ~IsGroup(node) /\ \/ node.criterion.operation \notin FilterOperations
                       \/ node.criterion.variable = ""

(* collectFilterVariables(): what it refuses, and the columns it returns.   *)
Malformed(root) == MalformedNode(root, 0) \/ Len(Criteria(root)) > MaxCriteria
FilterVariables(root) == {Criteria(root)[i].variable : i \in 1..Len(Criteria(root))}

-----------------------------------------------------------------------------
(* Regular expressions (RE2), as sequences of characters.                   *)

(* Where the scan goes on after a bracket that opens a class: a "]" right   *)
(* after "[" or "[^" is a character of it.                                  *)
AfterBracket(p, i) ==
  LET j == IF At(p, i + 1) = "^" THEN i + 1 ELSE i
  IN IF At(p, j + 1) = "]" THEN j + 2 ELSE j + 1

RECURSIVE Unsupported(_, _, _)
Unsupported(p, i, inClass) ==
  CASE i > Len(p) -> FALSE
    [] p[i] = "\\" -> \/ At(p, i + 1) = "1"
                      \/ At(p, i + 1) = "k" /\ At(p, i + 2) = "<"
                      \/ Unsupported(p, i + 2, inClass)
    [] p[i] # "\\" /\ inClass -> Unsupported(p, i + 1, p[i] # "]")
    [] p[i] = "[" /\ ~inClass -> Unsupported(p, AfterBracket(p, i), TRUE)
    [] p[i] \notin {"\\", "["} /\ ~inClass ->
         \/ p[i] = "(" /\ At(p, i + 1) = "?" /\ At(p, i + 2) \in {"=", "!", "<", ">"}
         \/ Unsupported(p, i + 1, FALSE)

(* assertRe2Compatible()                                                    *)
Re2Compatible(pattern) == ~Unsupported(pattern, 1, FALSE)

-----------------------------------------------------------------------------
(* A criterion on a column of a type: refused, or a predicate and the       *)
(* values of its placeholders.                                              *)

EscapeLike(chars) ==
  FlattenSeq([i \in 1..Len(chars) |->
    IF chars[i] \in {"\\", "%", "_"} THEN <<"\\", chars[i]>> ELSE <<chars[i]>>])

Pattern(op, chars) ==
  CASE LikePattern(op) = "contains" -> <<"%">> \o EscapeLike(chars) \o <<"%">>
    [] LikePattern(op) = "starts"   -> EscapeLike(chars) \o <<"%">>
    [] LikePattern(op) = "ends"     -> <<"%">> \o EscapeLike(chars)
    [] OTHER -> EscapeLike(chars)

(* Values the operation binds through coerceValue().                        *)
Operands(op, value) ==
  IF op \in Ranges THEN <<value.min, value.max>>
  ELSE IF op \in Lists THEN value.items
  ELSE <<value>>

CriterionRefused(c, type) ==
  LET op == c.operation
      v == c.value
      coerced == ~\E i \in 1..Len(Operands(op, v)) : ~ValueAccepted(Operands(op, v)[i], type)
  IN \/ op \notin AllowedOperations[SqlTypeFamily(type)]
     \/ op \in Valueless /\ v.json # "null"
     \/ op \in LikeOperations /\ ~(IsText(v) /\ v.chars # <<>>)
     \/ op = "MATCHES" /\ ~(/\ IsText(v)
                            /\ Len(v.chars) \in 1..MaxPatternLength
                            /\ Re2Compatible(v.chars))
     \/ op \in Ranges /\ ~(v.json = "range" /\ IsScalar(v.min) /\ IsScalar(v.max) /\ coerced)
     \/ op \in Lists /\ ~(/\ v.json = "array"
                          /\ Len(v.items) \in 1..MaxInValues
                          /\ \A i \in 1..Len(v.items) : IsScalar(v.items[i])
                          /\ coerced)
     \/ op \in DOMAIN ComparisonSql /\ ~(IsScalar(v) /\ coerced)

Params(c) ==
  CASE c.operation \in Valueless -> <<>>
    [] c.operation \in LikeOperations ->
         <<[c.value EXCEPT !.chars = Pattern(c.operation, c.value.chars)]>>
    [] OTHER -> Operands(c.operation, c.value)

(* compileCriterion(), of an accepted one.                                  *)
Predicate(c, type) ==
  [tok |-> "predicate", column |-> c.variable,
   sql |-> IF c.operation \in DOMAIN ComparisonSql THEN ComparisonSql[c.operation] ELSE c.operation,
   placeholders |-> Len(Params(c)),
   cast |-> IF SqlTypeFamily(type) \in {"numeric", "date"} THEN CastTypeOf(type) ELSE Null]

-----------------------------------------------------------------------------
(* A tree *)

(* Faulty: the left side of a derived connector is left bare.               *)
FaultyCombine(connector, left, right) ==
  CASE connector = "AND"     -> left \o Word("AND") \o right
    [] connector = "OR"      -> left \o Word("OR") \o right
    [] connector = "AND_NOT" -> left \o Word("AND") \o Not(right)
    [] connector = "OR_NOT"  -> left \o Word("OR") \o Not(right)
    [] connector = "XOR"     -> left \o Word("<>") \o Paren(right)
    [] connector = "XNOR"    -> left \o Word("=") \o Paren(right)
    [] connector = "NAND"    -> Not(Paren(left) \o Word("AND") \o Paren(right))
    [] connector = "NOR"     -> Not(Paren(left) \o Word("OR") \o Paren(right))

(* CONNECTOR_COMBINERS                                                      *)
Combine(connector, left, right) ==
  CASE connector = "AND"     -> left \o Word("AND") \o right
    [] connector = "OR"      -> left \o Word("OR") \o right
    [] connector = "AND_NOT" -> left \o Word("AND") \o Not(right)
    [] connector = "OR_NOT"  -> left \o Word("OR") \o Not(right)
    [] connector = "XOR"     -> Paren(left) \o Word("<>") \o Paren(right)
    [] connector = "XNOR"    -> Paren(left) \o Word("=") \o Paren(right)
    [] connector = "NAND"    -> Not(Paren(left) \o Word("AND") \o Paren(right))
    [] connector = "NOR"     -> Not(Paren(left) \o Word("OR") \o Paren(right))

ConnectorOf(node) == IF node.connector = Null THEN "AND" ELSE node.connector

RECURSIVE CompileNode(_, _, _)
CompileNode(node, isRoot, metadata) ==
  IF ~IsGroup(node)
    THEN LET predicate == <<Predicate(node.criterion, metadata[node.criterion.variable])>>
         IN IF node.negate THEN Not(predicate) ELSE predicate
    ELSE LET sql[i \in 1..Len(node.children)] ==
               LET fragment == CompileNode(node.children[i], FALSE, metadata)
               IN IF i = 1 THEN fragment
                  ELSE Combine(ConnectorOf(node.children[i]), sql[i - 1], fragment)
             whole == sql[Len(node.children)]
         IN IF node.negate THEN Not(whole) ELSE IF isRoot THEN whole ELSE Paren(whole)

(* treeToSQL(); a column without metadata is unknown.                       *)
TreeRefused(root, metadata) ==
  \/ Malformed(root)
  \/ \E i \in 1..Len(Criteria(root)) :
       LET c == Criteria(root)[i]
       IN c.variable \notin DOMAIN metadata \/ CriterionRefused(c, metadata[c.variable])

TreeToSQL(root, metadata) ==
  [sql    |-> CompileNode(root, TRUE, metadata),
   params |-> FlattenSeq([i \in 1..Len(Criteria(root)) |-> Params(Criteria(root)[i])])]

(* buildWhere() takes the text as it is; buildFilterPredicate() appends it  *)
(* to a condition.                                                          *)
BuildWhere(compiled) == compiled.sql
FilterPredicate(compiled) == Word("AND") \o Paren(compiled.sql)

=============================================================================
