-------------------------------- MODULE MCDocuments --------------------------------
(***************************************************************************)
(* Documents and requests for Admission: selections of every root field    *)
(* that is priced in a way of its own, with their limits omitted, null,    *)
(* literal, in a variable or above the maximum, and statistics under every *)
(* list of columns, directly or through fragments.                         *)
(***************************************************************************)
EXTENDS Integers, Sequences, TLC

CONSTANTS Null, Absent

(* Documents *)

One(v) == [one |-> v]
List(v) == [list |-> v]
Var(x) == [var |-> x]
F(name, args, sub) == [kind |-> "field", name |-> name, key |-> name, args |-> args, sub |-> sub]
Leaf(name) == F(name, <<>>, <<>>)
Inline(sub) == [kind |-> "inline", sub |-> sub]
Spread(name) == [kind |-> "spread", name |-> name]
Named(f, k) == [f EXCEPT !.key = k]
Again(s) == IF s.kind = "field" THEN Named(s, "again") ELSE s

Stats == F("stats", <<>>, <<Leaf("min")>>)
TwoStats == <<Stats, Named(Stats, "more")>>
Fragments == [
  stats |-> <<Stats>>,
  roots |-> <<Named(F("getFactTable", <<>>, <<Leaf("total")>>), "fragment"), Spread("other")>>,
  other |-> <<F("getSelectOptions", "limit" :> Null, <<Leaf("value")>>)>>]

Table(args) == F("getFactTable", args, <<Leaf("total")>>)
Page(args) == F("getFactTableWithMetadata", args, <<F("fields", <<>>, <<Spread("stats")>>)>>)
Schema(args, sub) == F("getCatalogSchema", args, sub)
Groups(args) == F("getAggregates", args, <<F("groupBy", <<>>, <<F("field", <<>>, <<Stats>>)>>),
                                           F("aggregates", <<>>, <<F("field", <<>>, <<Leaf("name")>>)>>)>>)
RECURSIVE Types(_)
Types(n) == F("ofType", <<>>, IF n = 0 THEN <<Leaf("name")>> ELSE <<Types(n - 1)>>)

Selections == {
  Table(<<>>), Table("limit" :> One(60)), Table("limit" :> Var("n")), Table("limit" :> One(150)),
  Table(("limit" :> One(0)) @@ ("where" :> One("w")) @@ ("sort" :> One("s"))),
  F("getSelectOptions", <<>>, <<Leaf("value")>>),
  F("getSelectOptions", "limit" :> Var("n"), <<Leaf("value")>>),
  Schema(<<>>, <<Stats>>), Schema(<<>>, TwoStats), Schema("target" :> One("other"), <<Spread("stats")>>),
  Schema("target" :> One("refused"), <<Stats>>),
  Schema("target" :> Var("t"), <<Inline(<<Spread("stats"), Spread("stats")>>)>>),
  Page(<<>>), Page("fields" :> One("x")), Page("fields" :> List(<<"x", "y">>)),
  F("getCatalogs", <<>>, <<F("schemas", <<>>, <<F("fields", <<>>, <<Stats>>)>>)>>),
  F("getCatalogs", <<>>, <<F("schemas", <<>>, <<Leaf("name")>>)>>),
  Groups("groupBy" :> List(<<"x", "y">>)),
  Groups(("groupBy" :> One("x")) @@ ("limit" :> Var("n")) @@ ("aggregates" :> List(<<"SUM", "MEDIAN">>))),
  F("getMetaData", <<>>, <<Stats>>), Leaf("__typename"), F("__schema", <<>>, <<Types(6)>>),
  F("__type", <<>>, <<Leaf("name")>>), Inline(<<Table(<<>>), Schema(<<>>, <<Leaf("name")>>)>>),
  Spread("roots")}

Document(root, operation, defaults) ==
  [root |-> root, fragments |-> Fragments, operation |-> operation, defaults |-> defaults]
MCVars == {("n" :> n) @@ ("t" :> t) : n \in {Absent, Null, One(60)}, t \in {Absent, One("other")}}
MCDefaults == {<<>>, "n" :> One(30)}
Documents ==
  UNION {{Document(<<s>>, "query", d), Document(<<s, s>>, "query", d)} : s \in Selections, d \in MCDefaults}
  \cup {Document(<<s, Again(t)>>, "query", d) : s \in Selections, t \in Selections, d \in MCDefaults}

-----------------------------------------------------------------------------
(* Requests *)

Simple == Document(<<Table("limit" :> One(60))>>, "query", <<>>)
Kind(route, method, body, key, sender, hops, document, given) ==
  [route |-> route, method |-> method, body |-> body, key |-> key, sender |-> sender,
   hops |-> hops, document |-> document, vars |-> given]
Plain(route, method, body, key, sender, hops) ==
  Kind(route, method, body, key, sender, hops, Simple, CHOOSE g \in MCVars : TRUE)
Get(route, key, sender, hops) == Plain(route, "GET", "fits", key, sender, hops)

(* "desk" reaches the pod directly, through the ingress, or through a proxy *)
(* of its own that writes an address before it; "ops" is listed.            *)
Direct == <<"desk">>
Ingress == <<"desk", "ingress">>
Longer == <<"lan", "desk", "ingress">>
ManyKinds == {
  Get("/api/cache", "wrong", "desk", Direct), Get("/api/catalog", "wrong", "desk", Longer),
  Get("/api/cache", "right", "desk", Ingress), Get("/metrics", "wrong", "desk", Longer),
  Get("/metrics", "none", "ops", <<"ops">>), Get("/ready", "none", "desk", Direct),
  Get("/api/export", "none", "desk", Longer), Plain("/graphql", "OPTIONS", "fits", "none", "desk", Direct),
  Plain("/graphql", "POST", "fits", "none", "desk", Ingress),
  Plain("/graphql", "POST", "too large", "none", "desk", Direct),
  [Plain("/graphql", "POST", "fits", "none", "ops", <<"ops">>) EXCEPT !.document.operation = "mutation"]}
DocumentKinds ==
  {Kind("/graphql", "POST", "fits", "none", "ops", <<"ops">>, d, g) : d \in Documents, g \in MCVars}

MCPrice == [row |-> 1, stats |-> 50, object |-> 10, factor |-> 2, introspection |-> 10000,
            other |-> 50, aggregate |-> 20, holistic |-> 50, group |-> 30]
MCScores == [getCatalogs |-> 10, getCatalogSchema |-> 20, getMetaData |-> 20, getSelectOptions |-> 30,
             getFactTable |-> 50, getAggregates |-> 100]
MCSdlLimits == [getFactTable |-> 100, getFactTableWithMetadata |-> 100, getAggregates |-> 100,
                getSelectOptions |-> 50]
MCColumns == [main |-> 3, other |-> 2, refused |-> 4]

=============================================================================
