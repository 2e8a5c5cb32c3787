------------------------------ MODULE KeysetPaging ------------------------------
(***************************************************************************)
(* An export longer than one response, fetched page by page with `limit`   *)
(* and `after`: the total order of the rows (resolveEffectiveSort,         *)
(* completeTotalOrder), the cursor read by a query of its own before the   *)
(* rows (probeExport), the predicate that resumes after it                 *)
(* (buildAfterPredicate), and a client that asks for the next page until   *)
(* no cursor comes back.  The data may be updated between two requests,    *)
(* and between two statements of one where the backend shows an attached   *)
(* catalog later commits.                                                  *)
(*                                                                         *)
(* A row is a function from columns to values; `rows` stands for those     *)
(* that match the filters.  Projection, formats and the text of key values *)
(* (DuckDB's CAST to VARCHAR and back) are left out.                       *)
(***************************************************************************)
EXTENDS DefaultSort

CONSTANTS
  Datasets,     \* what a schema can hold: records [rows, primaryKeys, clusterBy]
  Sorts,        \* the `sort` parameters
  Limits,       \* the `limit` parameters
  MaxUpdates,   \* bound on the updates
  MaxSent       \* bound on the rows remembered as sent

ASSUME PagingAssumption ==
  /\ Limits \subseteq Nat \ {0}
  /\ MaxUpdates \in Nat
  /\ Sorts \subseteq Seq([field : ColumnSet, dir : {"ASC", "DESC"}])
  /\ MaxSent \in Nat \ {0}
  /\ \A d \in Datasets : IsFactTable(d) /\ Cardinality(d.rows) < MaxSent

VARIABLES
  dataset,    \* the data served now
  updates,    \* how often it was updated
  live,       \* the backend shows an attached catalog later commits
  sort, limit,   \* the parameters of the export, the same for every page
  step,       \* where the request of the page stands
  order,      \* its total order
  after,      \* its `after` parameter
  seen,       \* the rows its connection sees
  next,       \* X-Next-After of its response
  sent        \* the rows of the pages received so far, the last MaxSent of them

pagingVars == <<dataset, updates, live, sort, limit, step, order, after, seen, next, sent>>

NoToken == [order |-> <<>>, values |-> <<>>]

-----------------------------------------------------------------------------
(* The total order: completeTotalOrder().                                   *)
TotalOrder(items, d) ==
  LET explicit == Keep(items, Range(items) \ {AllColumns})
  IN explicit \o Tiebreakers(explicit, d)

(* Faulty: a comparison with NULL is not true, so no row follows with one.  *)
FaultyIsAfter(r, token) ==
  \E i \in 1..Len(token.order) :
    /\ token.values[i] # Null
    /\ \A j \in 1..i - 1 : r[token.order[j].field] = token.values[j]
    /\ r[token.order[i].field] # Null
    /\ IF token.order[i].dir = "DESC" THEN r[token.order[i].field] < token.values[i]
       ELSE r[token.order[i].field] > token.values[i]

(* Faulty: the cursor's own row follows too.                                *)
FaultyInclusiveAfter(r, token) ==
  \E i \in 1..Len(token.order) :
    /\ token.values[i] # Null
    /\ \A j \in 1..i - 1 : r[token.order[j].field] = token.values[j]
    /\ \/ r[token.order[i].field] = Null
       \/ IF token.order[i].dir = "DESC" THEN r[token.order[i].field] <= token.values[i]
          ELSE r[token.order[i].field] >= token.values[i]

(* buildAfterPredicate(): (= and ... and (c > v or c IS NULL)) or ...; the  *)
(* term of a NULL in the key is left out.                                   *)
IsAfter(r, token) ==
  \E i \in 1..Len(token.order) :
    /\ token.values[i] # Null
    /\ \A j \in 1..i - 1 : r[token.order[j].field] = token.values[j]
    /\ \/ r[token.order[i].field] = Null
       \/ IF token.order[i].dir = "DESC" THEN r[token.order[i].field] < token.values[i]
          ELSE r[token.order[i].field] > token.values[i]

(* The rows the page is taken from, and its first rows.                     *)
Remaining(rows) == {r \in rows : after = NoToken \/ IsAfter(r, after)}
PageRows(rows) == LET s == Sorted(Remaining(rows), order)
                  IN SubSeq(s, 1, IF Len(s) < limit THEN Len(s) ELSE limit)

Token(r) == [order |-> order, values |-> [i \in 1..Len(order) |-> r[order[i].field]]]

(* What is remembered of the rows: a client that never comes to an end      *)
(* receives more than any schema holds, over and over.                      *)
Remembered(rows) ==
  IF Len(rows) <= MaxSent THEN rows ELSE SubSeq(rows, Len(rows) - MaxSent + 1, Len(rows))

(* What a statement of the request sees.                                    *)
Visible == IF live THEN dataset.rows ELSE seen

-----------------------------------------------------------------------------
PagingTypeOK ==
  /\ dataset \in Datasets
  /\ updates \in 0..MaxUpdates
  /\ live \in BOOLEAN
  /\ sort \in Sorts /\ limit \in Limits
  /\ step \in {"ready", "built", "counted", "probed", "done", "refused", "failed"}
  /\ Fields(order) \subseteq ColumnSet
  /\ next # NoToken => next.order = order
  /\ (step = "counted" => next = NoToken) /\ (step = "done" => next = NoToken)
  /\ Len(sent) <= MaxSent
  /\ \A i \in 1..Len(sent) : DOMAIN sent[i] = ColumnSet

PagingInit ==
  /\ dataset \in Datasets
  /\ updates = 0
  /\ live \in BOOLEAN
  /\ sort \in Sorts /\ limit \in Limits
  /\ step = "ready"
  /\ order = <<>>
  /\ after = NoToken
  /\ seen = {}
  /\ next = NoToken
  /\ sent = <<>>

(* An update, with the reload that shows it; the primary key of a schema    *)
(* stays what it is.                                                        *)
Update(d) ==
  /\ updates < MaxUpdates
  /\ d.primaryKeys = dataset.primaryKeys
  /\ step \notin {"done", "refused", "failed"}
  /\ updates' = updates + 1
  /\ dataset' = d
  /\ UNCHANGED <<live, sort, limit, step, order, after, seen, next, sent>>

(* buildExportQuery(): the order of this request; a cursor issued for       *)
(* another one is refused.                                                  *)
Build ==
  /\ step = "ready"
  /\ \E items \in {EffectiveSort(sort, dataset)} : order' = TotalOrder(items, dataset)
  /\ step' = IF after # NoToken /\ after.order # order' THEN "refused" ELSE "built"
  /\ UNCHANGED <<dataset, updates, live, sort, limit, after, seen, next, sent>>

(* A connection of the live instance, and the count.                        *)
Count ==
  /\ step = "built"
  /\ seen' = dataset.rows
  /\ step' = IF Cardinality(Remaining(dataset.rows)) <= limit THEN "probed" ELSE "counted"
  /\ UNCHANGED <<dataset, updates, live, sort, limit, order, after, next, sent>>

BoundaryOffset == limit - 1

(* The key of the last row of a truncated page; it may have gone since the  *)
(* count.                                                                   *)
Boundary ==
  /\ step = "counted"
  /\ LET s == Sorted(Remaining(Visible), order)
     IN IF BoundaryOffset + 1 \in 1..Len(s)
          THEN /\ next' = Token(s[BoundaryOffset + 1])
               /\ step' = "probed"
          ELSE /\ step' = "failed"
               /\ UNCHANGED next
  /\ UNCHANGED <<dataset, updates, live, sort, limit, order, after, seen, sent>>

(* The rows; the client passes the cursor back unchanged, until there is    *)
(* none.                                                                    *)
Send ==
  /\ step = "probed"
  /\ sent' = Remembered(sent \o PageRows(Visible))
  /\ after' = next
  /\ next' = NoToken
  /\ step' = IF next = NoToken THEN "done" ELSE "ready"
  /\ seen' = {}
  /\ UNCHANGED <<dataset, updates, live, sort, limit, order>>

PagingNext == (\E d \in Datasets : Update(d)) \/ Build \/ Count \/ Boundary \/ Send

PagingSpec == PagingInit /\ [][PagingNext]_pagingVars

(* A client that keeps asking, and statements that end.                     *)
Advance == Build \/ Count \/ Boundary \/ Send
FairSpec == PagingSpec /\ WF_pagingVars(Advance)

-----------------------------------------------------------------------------
(* Properties *)

(* Without an update, the pages concatenate to the full export in its       *)
(* order, whatever ties and NULLs the sort column has.                      *)
PagesAreTheExport ==
  (step = "done" /\ updates = 0) => sent = Sorted(dataset.rows, order)

(* "a page never repeats ... a row": the rows received are strictly         *)
(* ascending, updated or not between two pages, where an instance shows one *)
(* state; an update that changes the order ends the export instead.         *)
PagesAscend ==
  ~live /\ step # "refused" =>
    \A i \in 1..Len(sent) - 1 : Before(sent[i], sent[i + 1], order)

(* Both: no row is missing from an export, and none comes twice.            *)
ExportIsWhole == PagesAreTheExport /\ PagesAscend

(* A client that follows the cursors comes to the end of the export.        *)
ExportEnds == <>(step \in {"done", "refused", "failed"})

=============================================================================
