--------------------------------- MODULE MCSettings ---------------------------------
(***************************************************************************)
(* What Configuration may be started with: two catalogs, the schemas of    *)
(* one restricted in each way settings allow, and what is wrong in each    *)
(* way they may be wrong.                                                  *)
(***************************************************************************)
EXTENDS Sequences, TLC

CONSTANT missing

Text(t) == [text |-> t]
Number(n) == [number |-> n]
List(texts) == [list |-> [i \in DOMAIN texts |-> Text(texts[i])]]
Section(keys) == [section |-> keys]
Variable(name, default) == [variable |-> name, default |-> default]
Null == [null |-> TRUE]

(* Texts, JSON without its quotes.                                          *)
MCCoerced == ("4000" :> Number(4000)) @@ ("5" :> Number(5)) @@ ("2024" :> Number(2024)) @@ ("true" :> [bool |-> TRUE])
MCParsed == ("[]" :> List(<<>>)) @@ ("[main]" :> List(<<"main">>)) @@ ("[s, main]" :> List(<<"s", "main">>))
            @@ ("[a]" :> List(<<"a">>)) @@ ("[b, a, b]" :> List(<<"b", "a", "b">>)) @@ ("[z]" :> List(<<"z">>))
            @@ ("[1]" :> [list |-> <<Number(1)>>]) @@ ("{}" :> Section(<<>>)) @@ ("2024" :> Number(2024))
MCBlank == {"", " "}
MCOrder == <<"main", "s">>

-----------------------------------------------------------------------------
(* A way to restrict the schemas of "a": its section, that of a later file, *)
(* a variable, the list meant in each environment, and the environments     *)
(* that have no list to give (the branch of another one alone).             *)
Way(section, later, variable, development, production) ==
  [section |-> section, later |-> later, variable |-> variable, refused |-> {},
   lists |-> [development |-> development, production |-> production]]
Wrong(section, variable) ==
  [Way(section, <<>>, variable, <<>>, <<>>) EXCEPT !.refused = {"development", "production"}]

Paths == ("PATH" :> Text("p")) @@ ("DATA_PATH" :> Text("d"))
With(schemas) == Paths @@ ("SCHEMAS" :> schemas)
FromVariable == With(Variable("A_SCHEMAS", ""))
Set(t) == "A_SCHEMAS" :> t
Both == <<"s", "main">>
Plain == Way(FromVariable, <<>>, <<>>, <<>>, <<>>)

Ways == {
  Plain, Way(Paths, <<>>, <<>>, <<>>, <<>>),
  Way(FromVariable, <<>>, Set(" "), <<>>, <<>>), Way(FromVariable, <<>>, Set("[]"), <<>>, <<>>),
  Way(FromVariable, <<>>, Set("[s, main]"), Both, Both),
  Way(With(Null), <<>>, <<>>, <<>>, <<>>), Way(With(List(Both \o Both)), <<>>, <<>>, Both, Both),
  Way(With(Section(("development" :> List(Both)) @@ ("production" :> Variable("A_SCHEMAS", "[main]")))),
      <<>>, <<>>, Both, <<"main">>),
  Way(With(Section("development" :> List(Both))), <<>>, <<>>, Both, Both),
  [Way(With(Section("production" :> List(Both))), <<>>, <<>>, <<>>, Both) EXCEPT !.refused = {"development"}],
  Way(("common" :> Section(With(List(<<"s">>)))) @@ ("production" :> Section("SCHEMAS" :> List(<<"main">>))),
      <<>>, <<>>, <<"s">>, Both),
  Way(With(List(<<"s">>)), "SCHEMAS" :> List(Both), <<>>, Both, Both),
  Way(FromVariable, "SCHEMAS" :> Variable("A_SCHEMAS", "[main]"), Set("[]"), <<>>, <<>>),
  Wrong(FromVariable, Set("main,s")), Wrong(FromVariable, Set("2024")), Wrong(FromVariable, Set("[1]")),
  Wrong(FromVariable, Set("{}")), Wrong(With(Section(("development" :> Text("")) @@ ("production" :> Text("")))), <<>>),
  Wrong(With(List(<<"main", "2024">>)), <<>>)}

(* What is set besides, the value meant, and whether it is refused.         *)
Value(variable, means, refused) == [variable |-> variable, means |-> means, refused |-> refused]
Alloweds == {
  Value(<<>>, {"a", "b"}, {}), Value("ALLOWED" :> "", {"a", "b"}, {}), Value("ALLOWED" :> "[a]", {"a"}, {}),
  Value("ALLOWED" :> "[b, a, b]", {"a", "b"}, {}), Value("ALLOWED" :> "[z]", {"z"}, {}),
  Value("ALLOWED" :> "a", {}, {"list"})}
Defaults == {
  Value(<<>>, "a", {}), Value("DEFAULT" :> "b", "b", {}), Value("DEFAULT" :> "", "a", {"required"}),
  Value("DEFAULT" :> "z", "a", {"default"}), Value("DEFAULT" :> "2024", "a", {"default"})}
Nodes == {
  Value(<<>>, "development", {}), Value("NODE_ENV" :> "production", "production", {}),
  Value("NODE_ENV" :> "", "development", {"environment"}),
  Value("NODE_ENV" :> "staging", "development", {"environment"})}
Others == {
  Value(<<>>, {}, {}), Value("PORT" :> "", {}, {"required"}), Value("B_TYPE" :> "postgres", {}, {"entry"}),
  Value(("B_TYPE" :> "postgres") @@ ("B_HOST" :> "h"), {}, {})}
NoOther == Value(<<>>, {}, {})

Postgres == Section(("HOST" :> Variable("B_HOST", "")) @@ ("DATABASE" :> Text("db")))
Database(a) == Section(
  ("CATALOGS" :> Section(("a" :> Section(a))
      @@ ("b" :> Section(("TYPE" :> Variable("B_TYPE", "file")) @@ ("POSTGRES" :> Postgres) @@ Paths))))
  @@ ("CATALOG_ROUTING" :> Section(("DEFAULT_CATALOG" :> Variable("DEFAULT", "a"))
      @@ ("ALLOWED_CATALOGS" :> Variable("ALLOWED", ""))))
  @@ ("DATABASE" :> Section("POOL" :> Section("MAX_CONNECTIONS" :>
        Section(("development" :> Text("5")) @@ ("production" :> Number(9)))))))
Main == Section("ENVIRONMENT" :> Variable("NODE_ENV", "development"))
Rest(later) == Section(
  ("API" :> Section("PORT" :> Variable("PORT", "4000")))
  @@ ("SECURITY" :> Section("RATE_LIMIT" :> Section("MAX_REQUESTS" :> Number(100))))
  @@ (IF later = <<>> THEN <<>> ELSE "CATALOGS" :> Section("a" :> Section(later))))

Start(way, all, default, node, other, before) ==
  [files |-> before \o <<Main, Database(way.section), Rest(way.later)>>,
   environment |-> way.variable @@ all.variable @@ default.variable @@ node.variable @@ other.variable,
   meant |-> [refused |-> (IF node.means \in way.refused THEN {"list"} ELSE {}) \cup all.refused \cup default.refused \cup node.refused \cup other.refused
                          \cup (IF before = <<>> THEN {} ELSE {"required", "catalogs"}),
              allowed |-> all.means, default |-> default.means,
              policy |-> [c \in {"a", "b"} |-> IF c = "a" THEN way.lists[node.means] ELSE <<>>]]]

(* A section that an earlier file leaves empty (`CATALOGS:` alone).         *)
Emptied == <<Section("CATALOGS" :> Null)>>
Unset == CHOOSE v \in Alloweds : v.variable = <<>>
NoDefault == CHOOSE v \in Defaults : v.variable = <<>>
NoFile == Start(Plain, Unset, NoDefault, Value(<<>>, "development", {"environment"}), NoOther, <<>>)
MCStarts ==
  {[NoFile EXCEPT !.files = <<>>]}
  \cup {Start(way, Unset, NoDefault, node, NoOther, <<>>) : way \in Ways, node \in Nodes}
  \cup {Start(Plain, all, default, node, other, before) :
          all \in Alloweds, default \in Defaults, node \in Nodes, other \in Others, before \in {<<>>, Emptied}}

=============================================================================
