-------------------------------- MODULE MCQueries --------------------------------
(***************************************************************************)
(* Both ways to read rows page by page, in one run: a behaviour is either  *)
(* that of a GraphQL query (DataQueries) or that of a resumed export       *)
(* (KeysetPaging), chosen by the initial state; the other one stays ended. *)
(***************************************************************************)
EXTENDS MCDataQueries, KeysetPaging

(* Two columns, NULLs and ties, with and without a primary key, clustered   *)
(* or not, with a column in cluster_by that was dropped.                    *)
Sets(tables, keys, clusters) ==
  [rows : tables, primaryKeys : {keys}, clusterBy : clusters]
ExportedKeyed == {R \in KeyedRows : Pair(1, 3) \in R /\ \E r, q \in R : r # q /\ r.a = q.a}
ExportedKeyless == {R \in SUBSET {Pair(x, y) : x, y \in {1, Null}} : Cardinality(R) = 3}
ExportedData == Sets(ExportedKeyed, {"b"}, {<<>>, <<"dropped", "a">>})
                \cup Sets(ExportedKeyless, {}, {<<>>, <<"a">>})
ExportedSorts == {<<>>, By("a", "DESC")}

NoExport ==
  /\ dataset = CHOOSE d \in ExportedData : d.primaryKeys = {}
  /\ updates = 0 /\ live = FALSE /\ sort = <<>> /\ limit = 1 /\ step = "refused"
  /\ order = <<>> /\ after = NoToken /\ seen = {} /\ next = NoToken /\ sent = <<>>
NoQuery ==
  /\ request = Stats(Abc, Null, "a") /\ pc = "failed" /\ columns = <<>>
  /\ where = Null /\ offset = 0 /\ total = 0 /\ received = <<>>

MCInit == \/ Init /\ NoExport
          \/ PagingInit /\ NoQuery
MCNext == \/ Next /\ UNCHANGED pagingVars
          \/ PagingNext /\ UNCHANGED vars
MCSpec == /\ MCInit /\ [][MCNext]_<<vars, pagingVars>>
          /\ WF_pagingVars(Advance /\ UNCHANGED vars)

-----------------------------------------------------------------------------
(* What both modules say of their variables.                                *)
StatesAreTyped == TypeOK /\ PagingTypeOK

=============================================================================
