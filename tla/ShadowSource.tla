---------------------------- MODULE ShadowSource ----------------------------
(***************************************************************************)
(* What the weekly shadow report is made from: one selected generation is  *)
(* read, checked against its own name and the frozen contract surface, and *)
(* projected into the package and the prompt an analyst is handed          *)
(* (observability/weekly_shadow_01_source_adapter.py and                   *)
(* weekly_shadow_01_package_builder.py).                                   *)
(*                                                                         *)
(* The files of a generation are edited while they are read, and a         *)
(* directory may have been made by hand, with anything wrong in it that is *)
(* then hashed like the rest.  Hashes are ideal: a hash is what it is of.  *)
(* The two readings of one file and the look at its state around them are  *)
(* one step.                                                               *)
(***************************************************************************)
EXTENDS Integers, FiniteSetsExt, SequencesExt

CONSTANTS
  Evidences,  \* what evidence packets say
  Damages,    \* what may be wrong with a directory from the start
  Offered,    \* bound: of these, the ones a later edit writes
  MaxEdits    \* bound: changes while it is read, one if damaged already

EditsAssumption == MaxEdits \in Nat \ {0} /\ Offered \subseteq Evidences

VARIABLES
  repo,    \* the contract module, the schemas and the template on disk
  dir,     \* the four files of the selected generation
  stamp,   \* for each of them, the edit that wrote it
  entries, \* the last change of the directory's entries, and a stray one
  edits,   \* how many changes there have been
  gid,     \* the name of the directory
  damage,  \* what is wrong with it
  stood,   \* (for the properties) the contents that stood together
  at,      \* the next step of the command
  got,     \* what it read of each file
  marks,   \* and the edits that had written them
  listed,  \* the directory's entries when it was listed
  package  \* what it made

disk == <<repo, dir, stamp, entries, edits, gid, damage, stood>>
vars == <<disk, at, got, marks, listed, package>>

Files == <<"manifest", "evidence", "prompt", "binding">>
Nothing == {}

(***************************************************************************)
(* A generation, as it is rendered.                                        *)
(***************************************************************************)
IdsOf(anchors) == {anchors[i].id : i \in DOMAIN anchors}
ByRank(a, b) == a.id < b.id
Distinct(anchors) == Cardinality(IdsOf(anchors)) = Len(anchors)

DiagnosticsOf(e) ==
  {d \in {"EMPTY", "MARKET", "EVENTS"} :
     CASE d = "EMPTY"  -> e.anchors = <<>>
       [] d = "MARKET" -> ~e.market
       [] d = "EVENTS" -> ~e.events}

PromptOf(e) == [template |-> "frozen", day |-> e.day, market |-> e.market, events |-> e.events,
                anchors |-> SortSeq(e.anchors, ByRank)]

ManifestOf(e) == [day |-> e.day, settings |-> e.settings, evidence |-> e, registry |-> e.anchors,
                  prompt |-> PromptOf(e), diagnostics |-> DiagnosticsOf(e)]

\* The name leaves out the diagnostics, and dates that follow from the day.
Identity(m) == [f \in DOMAIN m \ {"diagnostics"} |-> m[f]]

BindingOf(id, m, e, p) == [of |-> id, manifest |-> m, evidence |-> e, prompt |-> p]

Directory(m, e, p) ==
  [manifest |-> m, evidence |-> e, prompt |-> p, binding |-> BindingOf(Identity(m), m, e, p)]
Rendered(e) == Directory(ManifestOf(e), e, PromptOf(e))

\* A directory made by hand around one wrong thing, and hashed after it.
Damaged(e, other, what) ==
  LET m == ManifestOf(e) IN
  CASE what = "none"        -> Rendered(e)
    [] what = "settings"    -> Directory([m EXCEPT !.settings = other.settings], e, PromptOf(e))
    [] what = "day"         -> Directory([m EXCEPT !.day = other.day], e, PromptOf(e))
    [] what = "registry"    -> Directory([m EXCEPT !.registry = other.anchors], e, PromptOf(e))
    [] what = "evidence"    -> Directory(m, other, PromptOf(e))
    [] what = "prompt"      -> Directory([m EXCEPT !.prompt = PromptOf(other)], e, PromptOf(other))
    [] what = "shown"       -> Directory(m, e, PromptOf(other))
    [] what = "diagnostics" -> Directory([m EXCEPT !.diagnostics = DiagnosticsOf(other)], e, PromptOf(e))
    [] what = "notes"       -> Directory([m EXCEPT !.diagnostics = @ \cup {"NO_APPROVALS"}], e, PromptOf(e))

(***************************************************************************)
(* The contract surface: what the module's source defines, and the         *)
(* schemas; a literal of the code names the whole of it.                   *)
(***************************************************************************)
Frozen == [domains |-> "frozen", schemas |-> "frozen", semantics |-> "frozen",
           profiles |-> "frozen", template |-> "frozen", catalog |-> "frozen"]

\* The source is evaluated, not run; what the evaluator does not know is a
\* failure.
Evaluable == {"constant", "name", "tuple", "list", "set", "dict", "sum", "sign", "subscript",
              "comprehension", "call"}
Exports(module) == IF module.forms \subseteq Evaluable THEN {module.values} ELSE {}

ModuleStands(r) == r.module.values = Frozen /\ r.module.forms \subseteq Evaluable
SchemasStand(x, r) == r.schemas.parsed = "frozen" /\ x.schemas = r.schemas.parsed
SemanticsStand(x) == x.semantics = Frozen.semantics
ProfilesStand(x) == x.profiles = Frozen.profiles /\ x.template = Frozen.template
CatalogStands(x) == x.catalog = Frozen.catalog /\ x.domains = Frozen.domains
\* The seal also covers the schemas' raw bytes.
SealStands(x, r) == x = Frozen /\ r.schemas.raw = "frozen"

SurfaceStands(r) ==
  /\ ModuleStands(r)
  /\ \E x \in Exports(r.module) :
       SchemasStand(x, r) /\ SemanticsStand(x) /\ ProfilesStand(x) /\ CatalogStands(x) /\ SealStands(x, r)

FrozenModule == [values |-> Frozen, forms |-> Evaluable]
FrozenSchemas == [parsed |-> "frozen", raw |-> "frozen", stray |-> FALSE]

Init ==
  /\ repo = [module |-> FrozenModule, schemas |-> FrozenSchemas, template |-> "frozen"]
  /\ damage \in Damages
  /\ \E e, other \in Evidences :
       /\ Distinct(e.anchors) /\ e # other
       /\ dir = Damaged(e, other, damage)
       /\ damage = "none" => other = CHOOSE o \in Evidences : o # e
       /\ damage # "none" => dir # Rendered(e)
  /\ gid = Identity(dir.manifest)
  /\ stamp = [f \in DOMAIN dir |-> 0]
  /\ entries = [changed |-> 0, stray |-> FALSE]
  /\ edits = 0
  /\ stood = {dir}
  /\ at = <<"module">>
  /\ got = Nothing
  /\ marks = Nothing
  /\ listed = Nothing
  /\ package = Nothing

(***************************************************************************)
(* Whoever edits: one file of the generation, its entries, or the surface. *)
(***************************************************************************)
Rewrite(f, content) ==
  /\ content # dir[f]
  /\ dir' = [dir EXCEPT ![f] = content]
  /\ stamp' = [stamp EXCEPT ![f] = edits + 1]
  /\ stood' = stood \cup {dir'}
  /\ UNCHANGED <<repo, entries>>

\* A binding is written again over what is there.
Rebind == Rewrite("binding", BindingOf(gid, dir.manifest, dir.evidence, dir.prompt))

AddOrRemoveEntry ==
  /\ entries' = [changed |-> edits + 1, stray |-> ~entries.stray]
  /\ UNCHANGED <<repo, dir, stamp, stood>>

ChangeSurface ==
  /\ \/ \E f \in DOMAIN Frozen : repo' = [repo EXCEPT !.module.values[f] = "other"]
     \/ repo' = [repo EXCEPT !.module.forms = @ \cup {"lambda"}]
     \/ \E f \in {"parsed", "raw"} : repo' = [repo EXCEPT !.schemas[f] = "other"]
     \/ repo' = [repo EXCEPT !.schemas.stray = ~@]
     \/ repo' = [repo EXCEPT !.template = "other"]
  /\ UNCHANGED <<dir, stamp, entries, stood>>

Edit ==
  /\ edits < (IF damage = "none" THEN MaxEdits ELSE 1)
  /\ at # <<"done">> /\ at # <<"refused">>
  /\ edits' = edits + 1
  /\ \/ \E e \in Offered : \/ Rewrite("manifest", ManifestOf(e))
                           \/ Rewrite("evidence", e)
                           \/ Rewrite("prompt", PromptOf(e))
     \/ Rewrite("manifest", [dir.manifest EXCEPT !.diagnostics = @ \cup {"NO_APPROVALS"}])
     \/ Rebind
     \/ AddOrRemoveEntry
     \/ at[1] \in {"module", "schemas", "template"} /\ ChangeSurface
  /\ UNCHANGED <<gid, damage, at, got, marks, listed, package>>

(***************************************************************************)
(* The command.  Each step either stands or refuses the generation.        *)
(***************************************************************************)
Go(here, next, stands) ==
  /\ at = here
  /\ at' = IF stands THEN next ELSE <<"refused">>
  /\ UNCHANGED disk

ReadModule ==
  /\ Go(<<"module">>, <<"schemas">>, ModuleStands(repo))
  /\ UNCHANGED <<got, marks, listed, package>>

ReadSchemas ==
  /\ Go(<<"schemas">>, <<"template">>, ~repo.schemas.stray /\ SurfaceStands([repo EXCEPT !.module = FrozenModule]))
  /\ UNCHANGED <<got, marks, listed, package>>

ReadTemplate ==
  /\ Go(<<"template">>, <<"list">>, repo.template = "frozen")
  /\ UNCHANGED <<got, marks, listed, package>>

List ==
  /\ Go(<<"list">>, <<"read", 1>>, ~entries.stray)
  /\ listed' = {entries}
  /\ UNCHANGED <<got, marks, package>>

ReadFile(i) ==
  /\ Go(<<"read", i>>, IF i < Len(Files) THEN <<"read", i + 1>> ELSE <<"look", 1>>, TRUE)
  /\ got' = got \cup {<<Files[i], dir[Files[i]]>>}
  /\ marks' = marks \cup {<<Files[i], stamp[Files[i]]>>}
  /\ UNCHANGED <<listed, package>>

\* The directory is looked at after each pass over its files, and at the end.
LookAgain(n) ==
  /\ Go(<<"look", n>>, <<<<"read again", 1>>, <<"check">>, <<"build">>>>[n], listed = {entries})
  /\ UNCHANGED <<got, marks, listed, package>>

SameAsRead(i) == <<Files[i], dir[Files[i]]>> \in got /\ <<Files[i], stamp[Files[i]]>> \in marks

ReadFileAgain(i) ==
  /\ Go(<<"read again", i>>, IF i < Len(Files) THEN <<"read again", i + 1>> ELSE <<"look", 2>>, SameAsRead(i))
  /\ UNCHANGED <<got, marks, listed, package>>

Read(f) == (CHOOSE r \in got : r[1] = f)[2]

(***************************************************************************)
(* The four files against each other and the name.                         *)
(***************************************************************************)
ManifestFits(m) == m.diagnostics \subseteq {"EMPTY", "MARKET", "EVENTS", "NO_APPROVALS"}

EvidenceFits(e, m) ==
  /\ e.day = m.day /\ e.settings = m.settings
  /\ ("MARKET" \in m.diagnostics) = ~e.market /\ ("EVENTS" \in m.diagnostics) = ~e.events
  /\ Distinct(e.anchors)
  /\ m.registry = e.anchors /\ m.evidence = e

Projection(e, day) == [PromptOf(e) EXCEPT !.day = day]
PromptFits(p, e, m) == p = Projection(e, m.day) /\ m.prompt = p

\* Mutant: the name of the directory is taken for what it holds.
NameUnchecked(m) == gid = gid

NameFits(m) == Identity(m) = gid
BindingFits(b, m, e, p) == b = BindingOf(gid, m, e, p)

Check ==
  LET m == Read("manifest")  e == Read("evidence")  p == Read("prompt") IN
  /\ Go(<<"check">>, <<"look", 3>>,
        /\ ManifestFits(m) /\ EvidenceFits(e, m)
        /\ PromptFits(p, e, m) /\ NameFits(m)
        /\ BindingFits(Read("binding"), m, e, p))
  /\ UNCHANGED <<got, marks, listed, package>>

(***************************************************************************)
(* The snapshot, the package of its evidence records, and the prompt.      *)
(***************************************************************************)
Artifact(f) == [generation |-> gid, file |-> f, content |-> Read(f)]

\* Of an anchor, what an analyst may be shown; by identifier.
ProjectedAnchors(e) == SortSeq([i \in DOMAIN e.anchors |-> [id |-> e.anchors[i].id, says |-> e.anchors[i].says]], ByRank)
ProjectedAvailability(e) == <<<<"market", e.market>>, <<"events", e.events>>>>

Snapshot ==
  LET e == Read("evidence") IN
  [generation |-> gid, day |-> e.day, artifacts |-> [i \in DOMAIN Files |-> Artifact(Files[i])],
   anchors |-> ProjectedAnchors(e), available |-> ProjectedAvailability(e),
   empty |-> "EMPTY" \in Read("manifest").diagnostics]

SnapshotFits(s) == s.empty = (s.anchors = <<>>) /\ Distinct(s.anchors)

\* A record is named after where its value stands, and not after the value.
RecordId(kind, where, f) == [kind |-> kind, where |-> where, of |-> Artifact(f)]
Record(kind, where, f, value) == [id |-> RecordId(kind, where, f), kind |-> kind, value |-> value]

RecordsOf(s) ==
  [i \in DOMAIN s.anchors |-> Record("anchor", s.anchors[i].id, "evidence", s.anchors[i].says)]
  \o [i \in DOMAIN s.available |-> Record("available", s.available[i][1], "evidence", s.available[i][2])]
  \o IF s.empty THEN <<Record("diagnostic", "EMPTY", "manifest", Nothing)>> ELSE <<>>

IdsOfKinds(records, kinds) ==
  LET those == SelectSeq(records, LAMBDA r : r.kind \in kinds)
  IN [i \in DOMAIN those |-> those[i].id]

PackageOf(s) ==
  [generation |-> s.generation, day |-> s.day, artifacts |-> s.artifacts, records |-> RecordsOf(s),
   availability |-> IdsOfKinds(RecordsOf(s), {"available", "diagnostic"}),
   freshness |-> IdsOfKinds(RecordsOf(s), {"anchor"})]

Rank == [anchor |-> 0, available |-> 1, diagnostic |-> 2]

RecordsFit(records) ==
  /\ IsInjective([i \in DOMAIN records |-> records[i].id])
  /\ \A i, j \in DOMAIN records : i < j => Rank[records[i].kind] <= Rank[records[j].kind]

ReferencesFit(p) ==
  /\ ToSet(p.availability) \cap ToSet(p.freshness) = {}
  /\ ToSet(p.availability) \cup ToSet(p.freshness) = {p.records[i].id : i \in DOMAIN p.records}

Build ==
  /\ Go(<<"build">>, <<"done">>, SnapshotFits(Snapshot) /\ RecordsFit(RecordsOf(Snapshot)) /\ ReferencesFit(PackageOf(Snapshot)))
  /\ package' = IF at' = <<"done">> THEN {PackageOf(Snapshot)} ELSE Nothing
  /\ UNCHANGED <<got, marks, listed>>

Ended == at \in {<<"done">>, <<"refused">>} /\ UNCHANGED vars

Next ==
  \/ Edit
  \/ ReadModule \/ ReadSchemas \/ ReadTemplate
  \/ List \/ \E n \in 1..3 : LookAgain(n)
  \/ \E i \in 1..Len(Files) : ReadFile(i) \/ ReadFileAgain(i)
  \/ Check \/ Build
  \/ Ended

Spec == Init /\ [][Next]_vars

-----------------------------------------------------------------------------
TypeOK ==
  /\ edits \in 0..MaxEdits
  /\ damage \in Damages
  /\ stood # {} /\ dir \in stood
  /\ Cardinality(package) <= 1 /\ (package # Nothing => at = <<"done">>)

Kind(p, kind) == {i \in DOMAIN p.records : p.records[i].kind = kind}

\* What an analyst is handed: exactly the anchors and the availability of the
\* evidence the selected name was computed from, and the four files it is
\* bound to stood together in the directory while the command ran.
PackageIsOfGeneration ==
  \A p \in package :
    LET e == gid.evidence
        anchors == SelectSeq(p.records, LAMBDA r : r.kind = "anchor")
    IN /\ p.generation = gid /\ p.day = e.day
       /\ [i \in DOMAIN anchors |-> [id |-> anchors[i].id.where, says |-> anchors[i].value]] = SortSeq(e.anchors, ByRank)
       /\ {<<p.records[i].id.where, p.records[i].value>> : i \in Kind(p, "available")}
            = {<<"market", e.market>>, <<"events", e.events>>}
       /\ (Kind(p, "diagnostic") # {}) = (e.anchors = <<>>)
       /\ \E d \in stood : \A i \in DOMAIN p.artifacts : p.artifacts[i].content = d[p.artifacts[i].file]

\* A generation that is as it was rendered is not refused, unless something
\* changed meanwhile: the reader accepts what the renderer writes.
RenderedIsAccepted == at = <<"refused">> => edits > 0 \/ damage \notin {"none", "notes"}

SourceIsSound == PackageIsOfGeneration /\ RenderedIsAccepted
=============================================================================
