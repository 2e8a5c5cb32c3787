------------------------------- MODULE Configuration -------------------------------
(***************************************************************************)
(* From the settings files to the catalogs a pod serves: the files are     *)
(* merged, completed from the environment, reduced to one environment,     *)
(* coerced, normalised and validated (ConfigLoader.loadConfig); the        *)
(* manager is built from the result (DatabaseManager); the schemas of each *)
(* catalog are discovered; requests are routed (contextScope).             *)
(*                                                                         *)
(* A setting is a record of one field that says what it is.  Of a text     *)
(* only what it reads as is kept; a text that holds a placeholder is that  *)
(* placeholder alone.                                                      *)
(***************************************************************************)
EXTENDS Naturals, Sequences, SequencesExt, Functions, TLC

CONSTANTS
  Coerced,      \* texts that read as a number or a boolean, and that setting
  Parsed,       \* texts that are JSON, and the setting they encode
  BlankTexts,   \* the empty text and those of blanks
  Starts,       \* what a process may be started with: [files, environment, meant]
  CatalogNames, Order,   \* names requests may give; those of schemas, `main` first
  Missing       \* an argument left out; where a refused request is routed

VARIABLES
  files, environment,   \* the settings files, and the variables that are set
  meant,        \* history: what the operator means by them
  stage,        \* "loading", "building", "discovering", "serving" or "refused"
  reason,       \* why it is refused
  config,       \* what loadConfig returned
  attached, allowed, defaultCatalog, policy,   \* the manager, from the configuration
  schemas, refused    \* the lists it serves, and what its version guard refuses

managerVars == <<attached, allowed, defaultCatalog, policy>>
servedVars == <<schemas, refused>>
startVars == <<files, environment, meant>>
vars == <<startVars, stage, reason, config, managerVars, servedVars>>

-----------------------------------------------------------------------------
(* Settings *)

Text(t) == [text |-> t]
Bool(b) == [bool |-> b]
List(items) == [list |-> items]
Section(keys) == [section |-> keys]
Null == [null |-> TRUE]
Is(kind, v) == kind \in DOMAIN v

(* Whether JavaScript takes it for true.                                    *)
Truthy(v) ==
  CASE Is("text", v) -> v.text # ""
    [] Is("number", v) -> v.number # 0
    [] Is("bool", v) -> v.bool
    [] Is("null", v) -> FALSE
    [] OTHER -> TRUE

(* The setting at a path of keys, Null when there is none.                  *)
RECURSIVE At(_, _)
At(v, path) ==
  IF path = <<>> THEN v
  ELSE IF Is("section", v) /\ Head(path) \in DOMAIN v.section THEN At(v.section[Head(path)], Tail(path))
  ELSE Null
Get(v, path, default) == IF Is("null", At(v, path)) THEN default ELSE At(v, path)

(* What is not a section is spread in one: its items, whose keys nothing    *)
(* reads, are left out.                                                     *)
RECURSIVE MergeDeep(_, _)
MergeDeep(target, source) ==
  IF ~Is("section", target) THEN Section(<<>>)
  ELSE IF ~Is("section", source) THEN target
  ELSE Section([k \in DOMAIN target.section |->
                  IF k \notin DOMAIN source.section THEN target.section[k]
                  ELSE IF Is("section", source.section[k])
                    THEN MergeDeep(target.section[k], source.section[k])
                  ELSE source.section[k]]
               @@ source.section)

(* Every setting of a tree is replaced by `Leaf` of it, if it is neither a  *)
(* section nor a list.                                                      *)
RECURSIVE Mapped(_, _)
Mapped(Leaf(_), v) ==
  IF Is("section", v) THEN Section([k \in DOMAIN v.section |-> Mapped(Leaf, v.section[k])])
  ELSE IF Is("list", v) THEN List([i \in DOMAIN v.list |-> Mapped(Leaf, v.list[i])])
  ELSE Leaf(v)

(* ${NAME:-default}: a variable set to the empty text is set.               *)
ResolveEnvVariables(v) ==
  Mapped(LAMBDA s : IF ~Is("variable", s) THEN s
                    ELSE IF s.variable \in DOMAIN environment THEN Text(environment[s.variable])
                    ELSE Text(s.default), v)

ConvertNumericValues(v) ==
  Mapped(LAMBDA s : IF Is("text", s) /\ s.text \in DOMAIN Coerced THEN Coerced[s.text] ELSE s, v)

(* A section with a branch for an environment is replaced by the branch of  *)
(* this one, over what is common to all; the lists of both are joined.      *)
Branched(v) == \E e \in {"development", "production"} : Truthy(At(v, <<e>>))
Branch(v, env) == Get(v, <<env>>, Get(v, <<"development">>, Section(<<>>)))
Keys(v) == IF Is("section", v) THEN v.section ELSE <<>>
OverCommon(common, branch) ==
  Section([k \in DOMAIN Keys(branch) |->
             LET both == k \in DOMAIN Keys(common) /\ Is("list", Keys(common)[k]) /\ Is("list", Keys(branch)[k])
             IN IF both THEN List(Keys(common)[k].list \o Keys(branch)[k].list) ELSE Keys(branch)[k]]
          @@ Keys(common))
RECURSIVE ApplyEnv(_, _)
ApplyEnv(v, env) ==
  IF ~Is("section", v) THEN v
  ELSE IF ~Branched(v) THEN Section([k \in DOMAIN v.section |-> ApplyEnv(v.section[k], env)])
  ELSE IF Truthy(At(v, <<"common">>)) THEN OverCommon(At(v, <<"common">>), Branch(v, env))
  ELSE Branch(v, env)
ApplyEnvironmentSpecific(v) ==
  LET env == At(v, <<"ENVIRONMENT">>)
  IN ApplyEnv(v, IF Truthy(env) THEN env.text ELSE "development")

-----------------------------------------------------------------------------
(* Lists *)

FaultyIsBlank(v) == Is("null", v)   \* `SCHEMAS: ${A_SCHEMAS:-}` would be a list, and no JSON
IsBlank(v) == Is("null", v) \/ (Is("text", v) /\ v.text \in BlankTexts)
Decoded(v) == IF Is("text", v) /\ v.text \in DOMAIN Parsed THEN Parsed[v.text] ELSE v
IsStringList(v) ==
  Is("list", v) /\ \A i \in DOMAIN v.list : Is("text", v.list[i]) /\ v.list[i].text # ""
Malformed(raw) == ~IsBlank(raw) /\ ~IsStringList(Decoded(raw))
Texts(v) == [i \in DOMAIN v.list |-> v.list[i].text]

(* parseStringList(): the list, without what is repeated; empty when there  *)
(* is none.                                                                 *)
ParseStringList(raw) ==
  IF IsBlank(raw) THEN <<>>
  ELSE LET all == Texts(Decoded(raw))
       IN SelectSeq([i \in DOMAIN all |-> IF \E j \in 1..i - 1 : all[j] = all[i] THEN "" ELSE all[i]],
                    LAMBDA t : t # "")

NormalizeCatalogSchemas(v) ==
  LET Normal(c) ==
        IF ~Is("section", c) \/ "SCHEMAS" \notin DOMAIN c.section THEN c
        ELSE LET list == ParseStringList(c.section["SCHEMAS"])
                 rest == Restrict(c.section, DOMAIN c.section \ {"SCHEMAS"})
             IN Section(IF list = <<>> THEN rest
                        ELSE ("SCHEMAS" :> List([i \in DOMAIN list |-> Text(list[i])])) @@ rest)
      catalogs == At(v, <<"CATALOGS">>)
  IN IF ~Is("section", catalogs) THEN v
     ELSE [v EXCEPT !.section["CATALOGS"] = Section([c \in DOMAIN catalogs.section |-> Normal(catalogs.section[c])])]

CatalogIds(v) == IF Is("section", At(v, <<"CATALOGS">>)) THEN DOMAIN At(v, <<"CATALOGS">>).section ELSE {}

(* ALLOWED_CATALOGS: what it lists, all the catalogs when it lists none.    *)
ResolveAllowedCatalogs(v) ==
  LET listed == ToSet(ParseStringList(At(v, <<"CATALOG_ROUTING", "ALLOWED_CATALOGS">>)))
  IN IF ~Is("section", At(v, <<"CATALOG_ROUTING">>)) THEN {}
     ELSE IF listed = {} THEN CatalogIds(v) ELSE listed

(* validateRequiredFields()                                                 *)
Required == {<<"API", "PORT">>, <<"CATALOG_ROUTING", "DEFAULT_CATALOG">>,
             <<"DATABASE", "POOL", "MAX_CONNECTIONS">>, <<"SECURITY", "RATE_LIMIT", "MAX_REQUESTS">>}
Absent(v) == Is("null", v) \/ v = Text("")

Fails(why) == stage' = "refused" /\ reason' = why /\ UNCHANGED config

(* ConfigLoader.loadConfig()                                                *)
LoadConfig ==
  /\ stage = "loading"
  /\ LET merged == FoldLeft(MergeDeep, Section(<<>>), files)
         settings == ConvertNumericValues(ApplyEnvironmentSpecific(ResolveEnvVariables(merged)))
         normal == NormalizeCatalogSchemas(settings)
     IN CASE \/ \E c \in CatalogIds(settings) : Malformed(At(settings, <<"CATALOGS", c, "SCHEMAS">>))
             \/ Malformed(At(settings, <<"CATALOG_ROUTING", "ALLOWED_CATALOGS">>)) -> Fails("list")
          [] ~\E e \in {"development", "production"} : At(settings, <<"ENVIRONMENT">>) = Text(e) -> Fails("environment")
          [] \/ \E path \in Required : Absent(At(settings, path))
             \/ /\ ResolveAllowedCatalogs(normal) = {}
                /\ Absent(At(settings, <<"CATALOG_ROUTING", "ALLOWED_CATALOGS">>)) -> Fails("required")
          [] CatalogIds(normal) = {} -> Fails("catalogs")
          [] OTHER -> stage' = "building" /\ config' = normal /\ UNCHANGED reason
  /\ UNCHANGED <<startVars, managerVars, servedVars>>

-----------------------------------------------------------------------------
(* The manager *)

(* What initializeDatabases() needs of a catalog.                           *)
Attachable(c) ==
  LET Has(key) == Truthy(At(c, key))
  IN /\ ~Is("null", At(c, <<"DATA_PATH">>))
     /\ IF At(c, <<"TYPE">>) = Text("postgres")
          THEN Has(<<"POSTGRES", "HOST">>) /\ Has(<<"POSTGRES", "DATABASE">>)
          ELSE Has(<<"PATH">>)

(* new DatabaseManager(): nothing is attached yet, the catalogs are known.  *)
BuildManager ==
  /\ stage = "building"
  /\ LET Catalog(c) == At(config, <<"CATALOGS", c>>)
         default == At(config, <<"CATALOG_ROUTING", "DEFAULT_CATALOG">>)
     IN IF \E c \in CatalogIds(config) : ~Attachable(Catalog(c))
          THEN Fails("entry") /\ UNCHANGED <<managerVars, servedVars>>
        ELSE IF ~\E c \in CatalogIds(config) : default = Text(c)
          THEN Fails("default") /\ UNCHANGED <<managerVars, servedVars>>
        ELSE
          /\ attached' = CatalogIds(config) /\ defaultCatalog' = default.text
          /\ allowed' = ResolveAllowedCatalogs(config)
          /\ policy' = [c \in CatalogIds(config) |-> ParseStringList(At(Catalog(c), <<"SCHEMAS">>))]
          /\ schemas' = [c \in CatalogIds(config) |-> IF policy'[c] = <<>> THEN <<"main">> ELSE policy'[c]]
          /\ stage' = "discovering" /\ UNCHANGED <<reason, config, refused>>
  /\ UNCHANGED startVars

(* reconcileSchemaList(): a list of the configuration is never widened, and *)
(* kept whole when nothing of it is found.                                  *)
Reconcile(c, found) ==
  LET list == IF policy[c] = <<>> THEN Order ELSE policy[c]
      kept == SelectSeq(list, LAMBDA s : s \in found)
  IN IF kept # <<>> THEN kept ELSE IF policy[c] = <<>> THEN <<"main">> ELSE policy[c]

(* initSchemas(): each catalog holds some schemas, some of them unreadable. *)
Discover ==
  /\ stage = "discovering"
  /\ \E found \in [attached -> SUBSET ToSet(Order)], old \in SUBSET (attached \X ToSet(Order)) :
       /\ schemas' = [c \in attached |-> Reconcile(c, found[c])]
       /\ refused' = {p \in attached \X ToSet(Order) :
                       p[2] \in ToSet(schemas'[p[1]]) /\ (p[2] \in found[p[1]] => p \in old)}
  /\ stage' = "serving"
  /\ UNCHANGED <<startVars, reason, config, managerVars>>

(* The first schema of the catalog that passes the version guard; of the    *)
(* default catalog, if the catalog is not attached.                         *)
DefaultSchema(c) ==
  LET owner == IF c \in attached THEN c ELSE defaultCatalog
      readable == SelectSeq(schemas[owner], LAMBDA s : <<owner, s>> \notin refused)
  IN Head(readable \o schemas[owner])

(* contextScope(): an argument wins, or the default applies.                *)
ContextScope(c, s) ==
  LET catalog == IF c = Missing THEN defaultCatalog ELSE c
      known == catalog \in attached /\ s \in ToSet(schemas[catalog])
  IN IF catalog \notin allowed \/ (s # Missing /\ ~known) THEN Missing
     ELSE [catalog |-> catalog, schema |-> IF s = Missing THEN DefaultSchema(catalog) ELSE s]

-----------------------------------------------------------------------------
Init ==
  /\ \E s \in Starts : files = s.files /\ environment = s.environment /\ meant = s.meant
  /\ stage = "loading" /\ reason = "none" /\ config = Section(<<>>)
  /\ attached = {} /\ allowed = {} /\ defaultCatalog = Missing /\ policy = <<>>
  /\ schemas = <<>> /\ refused = {}

Next == LoadConfig \/ BuildManager \/ Discover

Spec == Init /\ [][Next]_vars

-----------------------------------------------------------------------------
TypeOK ==
  /\ stage \in {"loading", "building", "discovering", "serving", "refused"}
  /\ reason \in {"none", "list", "environment", "required", "catalogs", "entry", "default"}
  /\ Is("section", config) /\ DOMAIN policy = attached /\ DOMAIN schemas = attached
  /\ \A c \in attached : ToSet(policy[c]) \cup ToSet(schemas[c]) \subseteq ToSet(Order)
  /\ refused \subseteq attached \X ToSet(Order)

(* However it is written (in a later file, in a branch, in a variable, as   *)
(* a list or as JSON), a setting has the value it was given: the process    *)
(* serves the catalogs and restricts their schemas as it is asked to, or    *)
(* says why not (parseStringList, applyEnvironmentSpecific).                *)
ServedAsConfigured ==
  /\ stage = "refused" => reason \in meant.refused
  /\ stage \in {"discovering", "serving"} =>
       /\ meant.refused = {}
       /\ allowed = meant.allowed /\ defaultCatalog = meant.default /\ policy = meant.policy

(* A request is routed to a catalog that is allowed, and to a schema of its *)
(* list, within the allow-list of the configuration; one that names no      *)
(* schema, to one the API can read if there is any (getDefaultSchema).      *)
(* Where ALLOWED_CATALOGS names a catalog that is not configured, requests  *)
(* to it are routed too, and fail later.                                    *)
ScopesAreServed ==
  stage = "serving" =>
    \A c \in CatalogNames \cup {Missing}, s \in ToSet(Order) \cup {Missing} :
      LET scope == ContextScope(c, s)
      IN scope # Missing =>
           /\ scope.catalog \in allowed
           /\ scope.catalog \in attached =>
                /\ scope.schema \in ToSet(schemas[scope.catalog])
                /\ policy[scope.catalog] # <<>> => scope.schema \in ToSet(policy[scope.catalog])
                /\ s = Missing /\ (\E r \in ToSet(schemas[scope.catalog]) : <<scope.catalog, r>> \notin refused)
                     => <<scope.catalog, scope.schema>> \notin refused

=============================================================================
