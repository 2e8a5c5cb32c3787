---------------------------- MODULE FreshnessMonitor ----------------------------
(***************************************************************************)
(* Which schemas a pod serves, of several catalogs.  A probe lists the     *)
(* schemas of every catalog and reads the marker of those that are served, *)
(* on an instance of its own (DuckLakeProbeReader); the monitor compares   *)
(* what it read with what is served and rebuilds the pool's instance if    *)
(* something changed (CatalogFreshnessMonitor.runProbe); the lists, the    *)
(* verdicts of the version guard and the data versions are then read again *)
(* on the new instance and replaced together (DatabaseManager.initSchemas).*)
(*                                                                         *)
(* CatalogRefresh has the swap, the drain, the reattachment and the cache; *)
(* here a reload is the new instance and the publication that follows.     *)
(***************************************************************************)
EXTENDS Naturals, Sequences, SequencesExt, Functions

CONSTANTS
  Catalogs,     \* the catalogs, in the order of the configuration (a sequence)
  Order,        \* schema names, `main` first, the others alphabetically
  Explicit,     \* the catalogs with SCHEMAS in their configuration
  Configured,   \* the schemas it names, a sequence for each catalog
  Lakes,        \* what may be in the catalogs at the start
  Updated,      \* the schemas (catalog and name) that are written
  MaxCommits, MaxFaults,   \* bounds on the updates and on the failures
  Unread        \* a list or a marker that could not be read

(* A schema as its writer left it: its data version and its format.         *)
NoVersion == 0
Bare == [date |-> NoVersion, format |-> "none"]       \* no dataset_metadata
Undated == [date |-> NoVersion, format |-> "known"]   \* updated_at is NULL
Written(d) == {[date |-> d, format |-> f] : f \in {"known", "unknown"}}

VARIABLES
  lake,        \* the schemas of each catalog, as last committed
  live,        \* those the instance of the pool has attached
  schemas, verdicts, versions,   \* what the manager serves
  phase, forced, wanted,         \* the running probe; an administrator waits for one
  todo,        \* the catalogs the probe has still to read
  left,        \* the markers it has still to read in the first of them
  found,       \* the list it read, and the markers
  changed,     \* whether some catalog read so far differs from what is served
  commits, faults,
  clean        \* everything was read when it was published, and nothing written since

served == <<schemas, verdicts, versions>>
probe == <<phase, forced, todo, left, found, changed>>
vars == <<lake, live, served, probe, wanted, commits, faults, clean>>

Names == ToSet(Order)
Ids == ToSet(Catalogs)
ASSUME CatalogsAssumption == Catalogs \in Seq(Ids)
Listed == {p \in Ids \X Names : p[2] \in ToSet(schemas[p[1]])}
NothingFound == [list |-> Unread, marks |-> <<>>]

(* The lists, verdicts and versions are of the same schemas: no request     *)
(* sees a schema of a new list before its verdict.                          *)
TypeOK ==
  /\ \A c \in Ids : schemas[c] # <<>> /\ ToSet(schemas[c]) \subseteq Names
  /\ DOMAIN verdicts = Listed /\ DOMAIN versions = Listed
  /\ phase \in {"idle", "listing", "marking", "relisting", "deciding", "building",
                "discovering", "publishing"}
  /\ forced \in BOOLEAN /\ wanted \in BOOLEAN /\ changed \in BOOLEAN /\ clean \in BOOLEAN
  /\ \A p \in DOMAIN found.marks : found.marks[p] \in {Unread} \cup 0..MaxCommits + 1
  /\ left \subseteq Names /\ commits \in 0..MaxCommits /\ faults \in 0..MaxFaults

-----------------------------------------------------------------------------
(* reconcileSchemaList(): the configuration is an allow-list, kept whole    *)
(* when nothing of it is found; without one, what is found, or `main`.      *)
Reconcile(c, list) ==
  LET kept == SelectSeq(Configured[c], LAMBDA s : s \in list)
      all == SelectSeq(Order, LAMBDA s : s \in list)
  IN IF c \in Explicit
       THEN IF kept = <<>> THEN Configured[c] ELSE kept
       ELSE IF all = <<>> THEN <<"main">> ELSE all

(* A marker is read: it fails without a schema or without dataset_metadata. *)
Readable(data, s) == s \in DOMAIN data /\ data[s].format # "none"
Marker(data, s) == IF Readable(data, s) THEN data[s].date ELSE Unread

(* probeSchemaVersions(), where reading `failed` does not succeed: such a   *)
(* schema is refused, and served without a version.                         *)
Verdicts(lists, failed) ==
  [p \in {q \in Ids \X Names : q[2] \in ToSet(lists[q[1]])} |->
     p \notin failed /\ Readable(live[p[1]], p[2]) /\ live[p[1]][p[2]].format = "known"]
VersionsRead(lists, failed) ==
  [p \in {q \in Ids \X Names : q[2] \in ToSet(lists[q[1]])} |->
     IF p \in failed \/ ~Readable(live[p[1]], p[2]) THEN NoVersion ELSE live[p[1]][p[2]].date]

Lists == [c \in Ids |-> Reconcile(c, DOMAIN live[c])]

Init ==
  /\ lake \in Lakes /\ live = lake
  /\ schemas = Lists
  /\ verdicts = Verdicts(Lists, {}) /\ versions = VersionsRead(Lists, {})
  /\ phase = "idle" /\ forced = FALSE /\ wanted = FALSE
  /\ todo = <<>> /\ left = {} /\ found = NothingFound /\ changed = FALSE
  /\ commits = 0 /\ faults = 0 /\ clean = TRUE

-----------------------------------------------------------------------------
(* A map with one entry set.                                                *)
Put(f, s, v) == [r \in DOMAIN f \cup {s} |-> IF r = s THEN v ELSE f[r]]

(* The writer creates, updates or drops a schema.  A schema may exist       *)
(* before its dataset_metadata.                                             *)
Commit(c, s) ==
  /\ commits < MaxCommits
  /\ commits' = commits + 1
  /\ \/ \E d \in Written(commits + 2) : lake' = [lake EXCEPT ![c] = Put(@, s, d)]
     \/ /\ s \in DOMAIN lake[c]
        /\ lake' = [lake EXCEPT ![c] = Restrict(@, DOMAIN @ \ {s})]
     \/ /\ s \notin DOMAIN lake[c]
        /\ \E d \in {Bare, Undated} : lake' = [lake EXCEPT ![c] = Put(@, s, d)]
  /\ clean' = FALSE
  /\ UNCHANGED <<live, served, probe, wanted, faults>>

(* A read or an ATTACH fails.                                               *)
Fault == faults < MaxFaults /\ faults' = faults + 1

(* POST /api/catalog/reload: a forced probe, behind the one that runs.      *)
ForceReload ==
  /\ ~wanted
  /\ wanted' = TRUE
  /\ UNCHANGED <<lake, live, served, probe, commits, faults, clean>>

Begin(force) ==
  /\ phase = "idle"
  /\ phase' = "listing" /\ forced' = force
  /\ todo' = Catalogs /\ left' = {} /\ found' = NothingFound /\ changed' = FALSE
  /\ UNCHANGED <<lake, live, served, commits, faults, clean>>

(* The periodic tick (skipped while a probe runs), and the queued request.  *)
Tick == Begin(FALSE) /\ UNCHANGED wanted
BeginForced == wanted /\ Begin(TRUE) /\ wanted' = FALSE

-----------------------------------------------------------------------------
(* One catalog of the probe: ATTACH, list, markers, and the list once more  *)
(* if a marker could not be read.                                           *)

Catalog == Head(todo)
Steps(next) == phase' = next /\ UNCHANGED <<lake, live, served, forced, wanted, commits, clean>>

(* The probe has read nothing of this catalog, and goes on with the next.   *)
CatalogFails ==
  /\ phase = "listing" /\ todo # <<>>
  /\ Fault
  /\ todo' = Tail(todo)
  /\ Steps("listing") /\ UNCHANGED <<left, found, changed>>

ListSchemas ==
  /\ phase = "listing" /\ todo # <<>>
  /\ \/ /\ found' = [list |-> DOMAIN lake[Catalog], marks |-> <<>>]
        /\ left' = ToSet(schemas[Catalog]) \cap DOMAIN lake[Catalog]
        /\ UNCHANGED faults
     \/ /\ Fault
        /\ found' = NothingFound
        /\ left' = ToSet(schemas[Catalog])
  /\ Steps("marking") /\ UNCHANGED <<todo, changed>>

ReadMarker(s) ==
  /\ phase = "marking" /\ s \in left
  /\ left' = left \ {s}
  /\ \/ found' = [found EXCEPT !.marks = Put(@, s, Marker(lake[Catalog], s))] /\ UNCHANGED faults
     \/ found' = [found EXCEPT !.marks = Put(@, s, Unread)] /\ Fault
  /\ Steps("marking") /\ UNCHANGED <<todo, changed>>

(* A schema dropped between the list and its marker was removed, and is not *)
(* an unreadable marker.                                                    *)
ListAgain ==
  /\ phase = "marking" /\ left = {}
  /\ found.list # Unread /\ Unread \in Range(found.marks)
  /\ \/ /\ found' = [list |-> DOMAIN lake[Catalog],
                     marks |-> Restrict(found.marks, DOMAIN found.marks \cap DOMAIN lake[Catalog])]
        /\ UNCHANGED faults
     \/ Fault /\ UNCHANGED found
  /\ Steps("relisting") /\ UNCHANGED <<todo, left, changed>>

(* Faulty: the list as it was found is compared with the one that is served.*)
FaultyDiffers(c) ==
  \/ found.list # Unread /\ found.list # ToSet(schemas[c])
  \/ \E s \in DOMAIN found.marks :
       found.marks[s] # Unread /\ found.marks[s] # versions[<<c, s>>]

(* Faulty: only the markers are compared.                                   *)
FaultyMarkersDiffer(c) ==
  \E s \in DOMAIN found.marks : found.marks[s] # Unread /\ found.marks[s] # versions[<<c, s>>]

(* recordResult(): the list differs once reconciled as it would be served,  *)
(* or a marker that was read does.                                          *)
Differs(c) ==
  \/ found.list # Unread /\ ToSet(Reconcile(c, found.list)) # ToSet(schemas[c])
  \/ \E s \in DOMAIN found.marks :
       found.marks[s] # Unread /\ found.marks[s] # versions[<<c, s>>]

NextCatalog ==
  /\ phase \in {"marking", "relisting"} /\ left = {}
  /\ phase = "relisting" \/ found.list = Unread \/ Unread \notin Range(found.marks)
  /\ changed' = (changed \/ Differs(Catalog))
  /\ todo' = Tail(todo)
  /\ found' = NothingFound
  /\ Steps("listing") /\ UNCHANGED <<left, faults>>

(* Every catalog has been read, or the probe had no instance to read on.    *)
Decide ==
  /\ phase = "listing" /\ todo = <<>>
  /\ Steps(IF changed \/ forced THEN "building" ELSE "idle")
  /\ UNCHANGED <<todo, left, found, changed, faults>>

-----------------------------------------------------------------------------
(* reloadCatalogs().                                                        *)

(* The rebuild fails, if only one catalog cannot be attached; the drain     *)
(* times out the reload, the list cannot be read on the new instance, or no *)
(* connection can be had to read the versions.  The next probe tries again. *)
ReloadFails ==
  /\ phase \in {"building", "discovering", "publishing"}
  /\ Fault
  /\ Steps("idle") /\ UNCHANGED <<todo, left, found, changed>>

Build ==
  /\ phase = "building"
  /\ live' = lake
  /\ phase' = "discovering"
  /\ UNCHANGED <<lake, served, forced, todo, left, found, changed, wanted, commits, faults, clean>>

(* Faulty: the lists are served as soon as they are known.                  *)
FaultyDiscover ==
  /\ phase = "discovering"
  /\ schemas' = Lists
  /\ phase' = "publishing"
  /\ UNCHANGED <<lake, live, verdicts, versions, forced, todo, left, found, changed, wanted,
                 commits, faults, clean>>

Discover ==
  /\ phase = "discovering"
  /\ Steps("publishing") /\ UNCHANGED <<todo, left, found, changed, faults>>

(* The markers are read on the new instance, some perhaps in vain, and all  *)
(* three are replaced.                                                      *)
Publish ==
  /\ phase = "publishing"
  /\ \E failed \in {{}} \cup {{p} : p \in {q \in Ids \X Names : q[2] \in ToSet(Lists[q[1]])}} :
       /\ IF failed = {} THEN UNCHANGED faults ELSE Fault
       /\ schemas' = Lists
       /\ verdicts' = Verdicts(Lists, failed) /\ versions' = VersionsRead(Lists, failed)
       /\ clean' = (failed = {} /\ live = lake)
  /\ phase' = "idle"
  /\ UNCHANGED <<lake, live, forced, todo, left, found, changed, wanted, commits>>

-----------------------------------------------------------------------------
Probing ==
  \/ CatalogFails \/ ListSchemas \/ (\E s \in Names : ReadMarker(s)) \/ ListAgain \/ NextCatalog
  \/ Decide \/ Build \/ Discover \/ Publish \/ ReloadFails

Next == (\E u \in Updated : Commit(u[1], u[2])) \/ ForceReload \/ Tick \/ BeginForced \/ Probing

Spec == Init /\ [][Next]_vars

(* The interval passes, and every call of a probe or a reload returns.      *)
FairSpec == Spec /\ WF_vars(Tick) /\ WF_vars(Probing)

-----------------------------------------------------------------------------
(* Properties *)

(* A pod whose catalogs nobody wrote to since they were published never     *)
(* rebuilds its instance by itself, whatever its probes fail to read:       *)
(* neither a catalog that has no schema, nor a configured list of which     *)
(* nothing exists, nor a schema without dataset_metadata looks changed.     *)
UnchangedIsLeftAlone ==
  [][clean /\ phase = "listing" /\ phase' = "building" => forced]_vars

(* Once the writers and the failures stop, the pod comes to serve the       *)
(* schemas there are, each dated one with its version and under the right   *)
(* verdict: also those dropped, or dropped and created again, in the middle *)
(* of a probe, or not readable when they were published.                    *)
ListsConverge ==
  <>[](\A c \in Ids :
         /\ schemas[c] = Reconcile(c, DOMAIN lake[c])
         /\ \A s \in ToSet(schemas[c]) \cap DOMAIN lake[c] : Readable(lake[c], s) =>
              /\ versions[<<c, s>>] = lake[c][s].date
              /\ lake[c][s].date # NoVersion =>
                   (verdicts[<<c, s>>] <=> lake[c][s].format = "known"))

=============================================================================
