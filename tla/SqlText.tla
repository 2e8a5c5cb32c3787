--------------------------------- MODULE SqlText ---------------------------------
(***************************************************************************)
(* The text of a condition, as the builders of src/utils write it and as   *)
(* DuckDB reads it.                                                        *)
(*                                                                         *)
(* A text is a sequence of tokens.  A parenthesized part is one token that *)
(* holds a sequence, because the builders only write balanced pairs;       *)
(* everything else is flat, so what an operator binds to is decided when   *)
(* the text is read (Truth), by SQL's precedence.                          *)
(***************************************************************************)
EXTENDS RowOrder

Word(w) == <<[tok |-> w]>>
Paren(s) == <<[tok |-> "()", inner |-> s]>>
Not(s) == Word("NOT") \o Paren(s)

At(chars, i) == IF i \in 1..Len(chars) THEN chars[i] ELSE ""

-----------------------------------------------------------------------------
(* How DuckDB reads the text on a row: three-valued logic, OR binds looser  *)
(* than AND, AND than NOT, NOT than a comparison.                           *)

Not3(x) == IF x = Null THEN Null ELSE ~x
And3(x, y) == IF x = FALSE \/ y = FALSE THEN FALSE
              ELSE IF x = Null \/ y = Null THEN Null ELSE TRUE
Or3(x, y) == Not3(And3(Not3(x), Not3(y)))
Equal3(x, y) == IF x = Null \/ y = Null THEN Null ELSE x = y

LowerCase(chars) == [i \in 1..Len(chars) |-> IF chars[i] = "A" THEN "a" ELSE chars[i]]

RECURSIVE LikeMatches(_, _)
LikeMatches(text, pattern) ==
  CASE pattern = <<>> -> text = <<>>
    [] At(pattern, 1) = "\\" -> /\ text # <<>> /\ text[1] = At(pattern, 2)
                                /\ LikeMatches(Tail(text), SubSeq(pattern, 3, Len(pattern)))
    [] At(pattern, 1) = "%" -> \E i \in 0..Len(text) :
                                 LikeMatches(SubSeq(text, i + 1, Len(text)), Tail(pattern))
    [] OTHER -> /\ text # <<>> /\ pattern[1] \in {"_", text[1]}
                /\ LikeMatches(Tail(text), Tail(pattern))

Content(v) == IF v.json = "number" THEN v.n
              ELSE IF v.json = "boolean" THEN v.b
              ELSE IF v.as = "numeral" THEN v.n ELSE v.chars

(* The predicate on value v of the row, its placeholders bound to `args`.   *)
Holds(sql, args, v) ==
  LET a == [i \in 1..Len(args) |-> Content(args[i])]
      like == LikeMatches(v, a[1])
      ilike == LikeMatches(LowerCase(v), LowerCase(a[1]))
  IN CASE sql = "IS_NULL" -> v = Null
       [] sql = "IS_NOT_NULL" -> v # Null
       [] sql = "IS_TRUE" -> v = TRUE
       [] sql = "IS_FALSE" -> v = FALSE
       [] sql = "IS_NOT_TRUE" -> v # TRUE
       [] sql = "IS_NOT_FALSE" -> v # FALSE
       [] v = Null /\ sql \notin {"IS_NULL", "IS_NOT_NULL", "IS_TRUE", "IS_FALSE",
                                 "IS_NOT_TRUE", "IS_NOT_FALSE"} -> Null
       [] sql = "=" -> v = a[1]
       [] sql = "<>" -> v # a[1]
       [] sql = "<" -> v < a[1]
       [] sql = "<=" -> v <= a[1]
       [] sql = ">" -> v > a[1]
       [] sql = ">=" -> v >= a[1]
       [] sql = "BETWEEN" -> a[1] <= v /\ v <= a[2]
       [] sql = "NOT_BETWEEN" -> ~(a[1] <= v /\ v <= a[2])
       [] sql = "IN" -> \E i \in 1..Len(a) : v = a[i]
       [] sql = "NOT_IN" -> \A i \in 1..Len(a) : v # a[i]
       [] sql \in {"CONTAINS", "STARTS", "ENDS"} -> like
       [] sql \in {"NOT_CONTAINS", "NOT_STARTS", "NOT_ENDS"} -> ~like
       [] sql \in {"ICONTAINS", "ISTARTS", "IENDS", "IEQ"} -> ilike

RECURSIVE Placeholders(_)
Placeholders(s) ==
  FoldLeft(LAMBDA n, t : n + (IF t.tok = "predicate" THEN t.placeholders
                              ELSE IF t.tok = "()" THEN Placeholders(t.inner) ELSE 0), 0, s)

(* The n-th placeholder takes the n-th value.                               *)
RECURSIVE Truth(_, _, _)
Truth(s, params, row) ==
  LET Where(w) == {i \in 1..Len(s) : s[i].tok = w}
      Rightmost(w) == CHOOSE i \in Where(w) : \A j \in Where(w) : j <= i
      Left(i) == SubSeq(s, 1, i - 1)
      Right(i) == SubSeq(s, i + 1, Len(s))
      LeftTruth(i) == Truth(Left(i), SubSeq(params, 1, Placeholders(Left(i))), row)
      RightTruth(i) ==
        Truth(Right(i), SubSeq(params, Placeholders(Left(i)) + 1, Len(params)), row)
  IN IF Where("OR") # {} THEN Or3(LeftTruth(Rightmost("OR")), RightTruth(Rightmost("OR")))
     ELSE IF Where("AND") # {} THEN And3(LeftTruth(Rightmost("AND")), RightTruth(Rightmost("AND")))
     ELSE IF s[1].tok = "NOT" THEN Not3(Truth(Tail(s), params, row))
     ELSE IF Where("<>") # {}
       THEN Not3(Equal3(LeftTruth(Rightmost("<>")), RightTruth(Rightmost("<>"))))
     ELSE IF Where("=") # {} THEN Equal3(LeftTruth(Rightmost("=")), RightTruth(Rightmost("=")))
     ELSE IF s[1].tok = "()" THEN Truth(s[1].inner, params, row)
     ELSE Holds(s[1].sql, params, row[s[1].column])

=============================================================================
