--------------------------- MODULE UpgradeAnalysis --------------------------
(* upgrade_analysis: what has changed in the models between two versions.   *)
(* On a database of each version a wizard loads all modules again and       *)
(* records, per module, the attributes of the fields that it adds or        *)
(* changes; the analysis fetches the records of the old version, matches    *)
(* them with the new ones and reports the differences.                      *)
EXTENDS Naturals, Sequences, FiniteSets, SequencesExt, Functions

CONSTANTS
    Cases,      \* the module lists, fields and known renamings to analyse
    Shapes,     \* the attributes a field may have, "" standing for none
    None        \* a field that does not exist, a module that leaves it alone

(* A case: the modules of both versions in the order they are loaded, the   *)
(* <<model, field>> pairs, and apriori.py: the renamed and merged modules,  *)
(* the renamed models and the merged ones.                                  *)
Assumption ==
    \A c \in Cases :
        DOMAIN c = {"old", "new", "keys", "modules", "renamed", "merged"}

Attributes == {"type", "stored", "required", "isfunction"}

VARIABLES
    uaCase,     \* the case
    uaCode,     \* for each version, what each module loaded so far declares
    uaLogged,   \* thread._upgrade_registry: the attributes seen so far
    uaRecords,  \* the upgrade.record rows of each version's database
    uaPhase,    \* "old", "new": that version is loaded; "stopped"; "done"
    uaReport,   \* the lines of the analysis
    uaStops     \* how often loading was interrupted

uaVars == <<uaCase, uaCode, uaLogged, uaRecords, uaPhase, uaReport, uaStops>>

ImageOf(f, x) == IF x \in DOMAIN f THEN f[x] ELSE x
ModuleMap(m) == ImageOf(uaCase.modules, m)
ModelRenameMap(m) == ImageOf(uaCase.renamed, m)
ModelMap(m) == IF m \in DOMAIN uaCase.renamed THEN uaCase.renamed[m]
               ELSE ImageOf(uaCase.merged, m)
InvModelMap(m) == IF \E k \in DOMAIN uaCase.renamed : uaCase.renamed[k] = m
                  THEN CHOOSE k \in DOMAIN uaCase.renamed : uaCase.renamed[k] = m
                  ELSE m

-----------------------------------------------------------------------------
(* The records of one version                                               *)

(* The fields after the modules of a sequence of declarations.              *)
Registry(code) ==
    [k \in uaCase.keys |->
        LET given == {i \in DOMAIN code : code[i][k] # None}
        IN  IF given = {} THEN None
            ELSE code[CHOOSE i \in given : \A j \in given : j <= i][k]]

(* log_model: only the attributes that hold something.                      *)
LogModel(shape) ==
    IF shape = None THEN <<>>
    ELSE Restrict(shape, {a \in Attributes : shape[a] # ""})

Differing(attributes, seen) ==
    {a \in DOMAIN attributes : a \notin DOMAIN seen \/ seen[a] # attributes[a]}

(* compare_registries: a row for each field of which an attribute differs   *)
(* from those logged so far.                                                *)
CompareRegistries(module, now) ==
    LET local(k) == LogModel(now[k])
        changed == {k \in uaCase.keys : Differing(local(k), uaLogged[k]) # {}}
        row(k) == [module |-> module, model |-> k[1], field |-> k[2],
                   mode |-> IF uaLogged[k] = <<>> THEN "create" ELSE "modify",
                   attrs |-> Restrict(local(k), Differing(local(k), uaLogged[k]))]
    IN  [i \in DOMAIN SetToSeq(changed) |-> row(SetToSeq(changed)[i])]

(* RegistryPatch.init_models, called for each module in the order of the    *)
(* graph; Odoo commits after each.                                          *)
LoadModule(declared) ==
    /\ uaPhase \in {"old", "new"}
    /\ LET code == Append(uaCode[uaPhase], declared)
           modules == uaCase[uaPhase]
           now == Registry(code)
       IN  /\ Len(code) <= Len(modules)
           /\ uaCode' = [uaCode EXCEPT ![uaPhase] = code]
           /\ uaRecords' = [uaRecords EXCEPT ![uaPhase] =
                               @ \o CompareRegistries(modules[Len(code)], now)]
           /\ uaLogged' = [k \in uaCase.keys |-> LogModel(now[k]) @@ uaLogged[k]]
    /\ UNCHANGED <<uaCase, uaPhase, uaReport, uaStops>>

Loaded == uaPhase \in {"old", "new"} /\ Len(uaCode[uaPhase]) = Len(uaCase[uaPhase])
NothingLogged == [k \in uaCase.keys |-> <<>>]

(* The wizard is done with the old version, on the old server; then it is   *)
(* started on the new one.                                                  *)
NextVersion ==
    /\ uaPhase = "old" /\ Loaded
    /\ uaPhase' = "new"
    /\ uaLogged' = NothingLogged
    /\ UNCHANGED <<uaCase, uaCode, uaRecords, uaReport, uaStops>>

(* Loading fails or the server dies: the rows of the modules loaded so far  *)
(* are committed.                                                           *)
Interrupt ==
    /\ uaPhase = "new" /\ ~Loaded /\ uaCode.new # <<>> /\ uaStops = 0
    /\ uaPhase' = "stopped"
    /\ uaStops' = 1
    /\ UNCHANGED <<uaCase, uaCode, uaLogged, uaRecords, uaReport>>

(* GenerateWizard.generate: the rows are truncated, whatever left them, and *)
(* all modules are loaded again, perhaps other code by now.  Those that had *)
(* not been loaded have been installed before: after a failure Odoo has     *)
(* them uninstalled, and after a crash generate() refuses to start.         *)
GenerateAgain ==
    /\ uaPhase = "stopped"
    /\ uaRecords' = [uaRecords EXCEPT !.new = <<>>]
    /\ uaCode' = [uaCode EXCEPT !.new = <<>>]
    /\ uaLogged' = NothingLogged
    /\ uaPhase' = "new"
    /\ UNCHANGED <<uaCase, uaReport, uaStops>>

-----------------------------------------------------------------------------
(* The comparison of the fields                                             *)

(* field_dump: an attribute the row does not have is False, here "".        *)
Get(r, a) == IF a \in {"module", "model", "field", "mode"} THEN r[a]
             ELSE IF a \in DOMAIN r.attrs THEN r.attrs[a] ELSE ""

(* compare_records *)
Agree(o, n, f) ==
    CASE f = "module" -> ModuleMap(o.module) = n.module
      [] f = "model"  -> ModelRenameMap(o.model) = n.model
      [] OTHER        -> Get(o, f) = Get(n, f)

Matching(o, n, fields) == \A f \in fields : Agree(o, n, f)

Line(at, r, text) ==
    [at |-> ModuleMap(at), model |-> r.model, field |-> r.field, text |-> text]

(* report_generic and fieldprint: what the matched pair tells.              *)
ReportGeneric(o, n, attrs) ==
    LET changed == {a \in attrs : Get(o, a) # Get(n, a)}
        shown == {a \in changed : a = "required" => Get(n, a) # ""}
    IN  {Line(o.module, o, a) : a \in shown}
        \cup (IF "module" \in shown THEN {Line(n.module, o, "module")} ELSE {})

(* One call of match: each old record that is left, in order, takes the     *)
(* first new one that agrees on the fields.                                 *)
Match(st, fields, attrs) ==
    LET take(s, o) ==
          LET found == {i \in DOMAIN s.new : Matching(o, s.new[i], fields)}
              i == CHOOSE j \in found : \A k \in found : j <= k
          IN  IF found = {} THEN [s EXCEPT !.old = Append(@, o)]
              ELSE [s EXCEPT !.new = RemoveAt(@, i),
                             !.lines = @ \cup ReportGeneric(o, s.new[i], attrs)]
    IN  FoldLeft(take, [st EXCEPT !.old = <<>>], st.old)

IgnoreFields == {"create_date", "create_uid", "id", "write_date", "write_uid"}
CleanRecords(rows) == SelectSeq(rows, LAMBDA r : r.field \notin IgnoreFields)

ModelsOf(rows) == {rows[i].model : i \in DOMAIN rows}
ObsoleteModels(old, new) ==
    {m \in ModelsOf(old) : m \notin ModelsOf(new) /\ ModelMap(m) \notin ModelsOf(new)}

(* The fields that two records of different modules must share; the third   *)
(* pass has those of the first.                                             *)
OtherModule_AnyType == {"mode", "model", "field"}
OtherModule == {"mode", "model", "field", "type"}
SameModule == {"module", "mode", "model", "field"}

(* "We do not care about" removed or new functions that are not stored.     *)
Silent(r) == Get(r, "stored") = "" /\ Get(r, "isfunction") # ""

CompareSets ==
    LET old == CleanRecords(uaRecords.old)
        new == CleanRecords(uaRecords.new)
        gone == ObsoleteModels(old, new)
        first == Match([old |-> SelectSeq(old, LAMBDA r : r.model \notin gone),
                        new |-> new, lines |-> {}], SameModule, Attributes)
        second == Match(first, OtherModule, (Attributes \ {"type"}) \cup {"module"})
        third == Match(second, SameModule, Attributes)
        left == third.old \o SelectSeq(old, LAMBDA r : r.model \in gone)
    IN  third.lines
        \cup {Line(r.module, r, "DEL") : r \in {x \in Range(left) : ~Silent(x)}}
        \cup {Line(r.module, r, "NEW") : r \in {x \in Range(third.new) : ~Silent(x)}}

-----------------------------------------------------------------------------
(* The comparison of the models                                             *)

(* The "model" rows: each model with the first module that defines it.      *)
ModelRows(side) ==
    LET first(m) == {i \in DOMAIN uaCode[side] :
                        \E k \in uaCase.keys : k[1] = m /\ uaCode[side][i][k] # None}
        models == {m \in {k[1] : k \in uaCase.keys} : first(m) # {}}
    IN  [m \in models |-> uaCase[side][CHOOSE i \in first(m) : \A j \in first(m) : i <= j]]

ModelLine(at, m, text) == [at |-> at, model |-> m, field |-> None, text |-> text]

CompareModelSets ==
    LET old == ModelRows("old")
        new == ModelRows("new")
        oldText(m) == IF m \in DOMAIN new THEN "moved to"
                      ELSE IF ModelMap(m) \in DOMAIN new THEN "renamed to" ELSE "obsolete"
        newText(m) == IF m \in DOMAIN old THEN "moved from"
                      ELSE IF InvModelMap(m) \in DOMAIN old THEN "renamed from" ELSE "new"
    IN  {ModelLine(ModuleMap(old[m]), m, oldText(m)) :
            m \in {x \in DOMAIN old : x \in DOMAIN new => ModuleMap(old[x]) # new[x]}}
        \cup {ModelLine(new[m], m, newText(m)) :
            m \in {x \in DOMAIN new : x \in DOMAIN old => new[x] # ModuleMap(old[x])}}

(* The modules that have a row in either version.                           *)
AffectedModules ==
    {r.module : r \in Range(uaRecords.old) \cup Range(uaRecords.new)}
        \cup Range(ModelRows("old")) \cup Range(ModelRows("new"))

(* A line reaches the file of its module if that has rows, or the log if it *)
(* is not installed; models that come and go are in the log anyway.         *)
Output(lines) ==
    {l \in lines :
        \/ l.text \in {"obsolete", "renamed to", "new", "renamed from"}
        \/ l.at \in AffectedModules /\ (ModuleMap(l.at) \in Range(uaCase.new)
                                         => l.at \in Range(uaCase.new))}

(* analyze *)
Analyze ==
    /\ uaPhase = "new" /\ Loaded
    /\ uaReport' = Output(CompareSets \cup CompareModelSets)
    /\ uaPhase' = "done"
    /\ UNCHANGED <<uaCase, uaCode, uaLogged, uaRecords, uaStops>>

Init ==
    /\ uaCase \in Cases
    /\ uaCode = [old |-> <<>>, new |-> <<>>]
    /\ uaLogged = NothingLogged
    /\ uaRecords = [old |-> <<>>, new |-> <<>>]
    /\ uaPhase = "old"
    /\ uaReport = {}
    /\ uaStops = 0

Next ==
    \/ \E declared \in [uaCase.keys -> Shapes \cup {None}] : LoadModule(declared)
    \/ NextVersion
    \/ Interrupt
    \/ GenerateAgain
    \/ Analyze

Spec == Init /\ [][Next]_uaVars

-----------------------------------------------------------------------------
(* Properties                                                               *)

Told(m, f, texts) ==
    \E l \in uaReport : l.model = m /\ l.field = f /\ l.text \in texts

(* What the records of a version cannot show: an attribute that a later     *)
(* module takes away (only those that hold something are compared), and a   *)
(* stored field that a later module makes a function (its record has no     *)
(* "stored", and passes for one that is not).                               *)
Blind(code, k) ==
    \E i, j \in DOMAIN code :
        /\ i < j /\ code[i][k] # None /\ code[j][k] # None
        /\ \/ \E a \in Attributes : code[i][k][a] # "" /\ code[j][k][a] = ""
           \/ code[i][k]["isfunction"] = "" /\ code[j][k]["isfunction"] # ""

Silenced(shape) == shape["stored"] = "" /\ shape["isfunction"] # ""

(* The attributes whose difference a migration has to act upon: not those   *)
(* of a field that is not required anymore.                                 *)
Matters(before, after) ==
    {a \in Attributes : before[a] # after[a] /\ (a = "required" => after[a] # "")}

FieldsTold ==
    LET before == Registry(uaCode.old)
        after == Registry(uaCode.new)
        target(k) == <<ModelRenameMap(k[1]), k[2]>>
        now(k) == IF target(k) \in uaCase.keys THEN after[target(k)] ELSE None
        compared == {k \in uaCase.keys :
                        /\ k[2] \notin IgnoreFields /\ before[k] # None
                        /\ ~Blind(uaCode.old, k)
                        /\ target(k) \in uaCase.keys => ~Blind(uaCode.new, target(k))
                        /\ \A j \in uaCase.keys \ {k} :
                              before[j] # None => target(j) # target(k)}
    IN  \A k \in compared :
            IF now(k) = None
            THEN Silenced(before[k]) \/ Told(k[1], k[2], {"DEL"})
            ELSE \A a \in Matters(before[k], now(k)) :
                    \/ Told(k[1], k[2], {a, "DEL"})
                    \/ Told(target(k)[1], k[2], {"NEW"})

NewFieldsTold ==
    LET before == Registry(uaCode.old)
        after == Registry(uaCode.new)
        added == {k \in uaCase.keys :
                     /\ k[2] \notin IgnoreFields /\ after[k] # None
                     /\ ~Blind(uaCode.new, k) /\ ~Silenced(after[k])
                     /\ \A j \in uaCase.keys : <<ModelRenameMap(j[1]), j[2]>> = k
                                               => before[j] = None}
    IN  \A k \in added : Told(k[1], k[2], {"NEW"})

ModelsTold ==
    LET old == DOMAIN ModelRows("old")
        new == DOMAIN ModelRows("new")
    IN  \A m \in (old \ new) \cup (new \ old) :
            Told(m, None, {"obsolete", "renamed to", "new", "renamed from"})

(* Unchanged code gives an empty report.                                    *)
NothingInvented ==
    uaCode.old = uaCode.new /\ uaCase.old = uaCase.new /\ uaCase.renamed = <<>>
        /\ uaCase.modules = <<>> => uaReport = {}

(* Whatever moved between modules, was renamed or declared again, and       *)
(* whatever an interrupted generation left: each difference that a          *)
(* migration must act upon is in the report, and unchanged code has none;   *)
(* but of a module the new name of which has no row at all nothing is kept. *)
(* upgrade_analysis/compare.py:187-352, upgrade_log.py:46-82.               *)
ChangesReported ==
    uaPhase = "done" => /\ Range(uaCase.modules) \subseteq AffectedModules => FieldsTold
                        /\ NewFieldsTold
                        /\ ModelsTold
                        /\ NothingInvented

=============================================================================
