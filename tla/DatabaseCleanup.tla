-------------------------- MODULE DatabaseCleanup --------------------------
(***************************************************************************)
(* database_cleanup: wizards that look for what no loaded model uses any   *)
(* more and, later and upon confirmation, drop the lines they found.       *)
(* Here: modules, models, fields, columns, tables, data entries and menus; *)
(* properties have a module of their own (PropertyPurge), indexes are not  *)
(* modelled.  Each model is that of one module, named like it.  Odoo's     *)
(* registry, its schema updates and the unlink() of its own ir.* rows are  *)
(* external.                                                               *)
(***************************************************************************)
EXTENDS FiniteSets

CONSTANTS Models,
          Needs,       \* model -> those whose modules its module depends on, directly or not
          Table,       \* model -> its _table
          AutoModels,  \* models with _auto: Odoo manages the table
          Stored,      \* <<model, field>> for the stored fields, which have a column
          Unstored,    \* <<model, field>> for the fields that are only computed
          Retired,     \* fields that a new version of the code may leave out
          Relations,   \* model -> tables of its many2many fields
          References,  \* foreign keys <<from table, to table>>
          Magic,       \* MAGIC_COLUMNS and the blacklist of columns
          KeptTables   \* the blacklist of tables

Assumption == AutoModels \subseteq Models /\ DOMAIN Table = Models
              /\ \A m \in Models : m \notin Needs[m] /\ Needs[m] \subseteq Models

\* What Odoo does not demand of the models that share a table, and InUseKept needs: a table
\* is managed by Odoo for all of them or for none, no other one stores a field that one of
\* them retires, and no many2many table is the table of a model.
TablesFit ==
  /\ \A m, n \in Models : Table[m] = Table[n] => (m \in AutoModels <=> n \in AutoModels)
  /\ \A mf \in Retired, n \in Models :
       mf = <<mf[1], mf[2]>> /\ mf[1] # n /\ Table[mf[1]] = Table[n] => <<n, mf[2]>> \notin Stored
  /\ \A m, n \in Models : Table[m] \notin Relations[n]

VARIABLES env,       \* models of the registry
          onDisk,    \* modules whose directory is there
          irModules, \* rows of ir_module_module
          installed, \* those that are installed
          irModel,   \* rows of ir_model
          irFields,  \* rows of ir_model_fields, <<model, field>>
          tables, columns,  \* of the database; columns are <<table, name>>
          entries,   \* models that have rows in ir_model_data or a menu
          retired,   \* fields that were left out
          lines,     \* lines of the open wizard, one at a time: <<kind, what>>
          stale      \* history: a model was installed while a wizard was open

database == <<irModules, installed, irModel, irFields, tables, columns, entries>>
vars == <<env, onDisk, retired, database, lines, stale>>

Columns(m) == {f \in {s[2] : s \in Stored} : <<m, f>> \in Stored \ retired}
Fields(m) == Columns(m) \cup {u[2] : u \in {v \in Unstored : v[1] = m}}

----------------------------------------------------------------------------
(* Odoo *)

\* The module of a model is installed or updated: _auto_init and the reflection of the model.
Install(m) ==
  /\ m \notin env /\ Needs[m] \subseteq env
  /\ env' = env \cup {m} /\ onDisk' = onDisk \cup {m}
  /\ irModules' = irModules \cup {m} /\ installed' = installed \cup {m}
  /\ irModel' = irModel \cup {m}
  /\ irFields' = irFields \cup {<<m, f>> : f \in Fields(m)}
  /\ tables' = tables \cup {Table[m]} \cup Relations[m]
  /\ columns' = columns \cup {<<Table[m], f>> : f \in Columns(m) \cup Magic}
  /\ entries' = entries \cup {m}
  /\ stale' = (stale \/ lines # {})
  /\ UNCHANGED <<retired, lines>>

\* Its code is gone, and those that depend on it are not loaded any more: nothing of the
\* database changes.
Remove(m) ==
  /\ m \in onDisk
  /\ onDisk' = onDisk \ {m}
  /\ env' = {n \in env : m \notin {n} \cup Needs[n]}
  /\ UNCHANGED <<retired, database, lines, stale>>

Retire(mf) ==
  /\ mf \notin retired
  /\ retired' = retired \cup {mf}
  /\ UNCHANGED <<env, onDisk, database, lines, stale>>

----------------------------------------------------------------------------
(* find() of the wizards *)

\* A mutant: each model is looked at by itself.
Sharing_Alone(m) == {m}

\* get_orphaned_columns is called with the models of one table together.
Sharing(m) == {n \in env \cap irModel \cap AutoModels : Table[n] = Table[m]}

\* get_module_path() finds no directory, installed or not.
OrphanedModules == irModules \ onDisk

OrphanedModels == irModel \ env

\* model = self.env[...] raises for an orphaned model: those have to be purged before.
OrphanedFields ==
  {mf \in irFields : mf[1] \in env /\ mf[2] \notin Fields(mf[1]) \cup Magic}

OrphanedColumns ==
  {tc \in columns : \E m \in env \cap irModel \cap AutoModels :
     tc[1] = Table[m] /\ tc[2] \notin Magic \cup UNION {Columns(n) : n \in Sharing(m)}}

OrphanedTables ==
  tables \ (KeptTables \cup UNION {{Table[m]} \cup Relations[m] : m \in env \cap irModel})

OrphanedEntries == entries \ env

Find(kind) ==
  LET found == CASE kind = "module" -> OrphanedModules
                 [] kind = "model" -> OrphanedModels
                 [] kind = "field" -> OrphanedFields
                 [] kind = "column" -> OrphanedColumns
                 [] kind = "table" -> OrphanedTables
                 [] kind = "entry" -> OrphanedEntries
  IN /\ lines = {}
     /\ kind = "field" => \A mf \in irFields : mf[1] \in env
     /\ found # {}
     /\ lines' = {<<kind, x>> : x \in found}
     /\ UNCHANGED <<env, onDisk, retired, database, stale>>

CloseWizard ==
  /\ lines # {} /\ lines' = {}
  /\ UNCHANGED <<env, onDisk, retired, database, stale>>

Lines(kind) == {l[2] : l \in {k \in lines : k[1] = kind}}
Purged(kind, xs) == lines' = lines \ {<<kind, x>> : x \in xs}

----------------------------------------------------------------------------
(* purge(): nothing is looked at again but whether it still exists *)

\* The modules and those that depend on them: the rows of their models, fields and data;
\* a module that is not installed has none, and loses its own row like the others.
\* The tables of models that are not loaded stay, their many2many tables go.
Uninstalled(ms) == ms \cup {n \in installed : Needs[n] \cap ms # {}}

PurgeModules(ms) ==
  LET out == Uninstalled(ms)
  IN /\ ms # {} /\ ms \subseteq Lines("module")
     /\ irModules' = irModules \ ms /\ installed' = installed \ out
     /\ irModel' = irModel \ out
     /\ irFields' = {mf \in irFields : mf[1] \notin out}
     /\ entries' = entries \ out
     /\ env' = env \ out
     /\ tables' = tables \ ({Table[m] : m \in out \cap env}
                            \cup ((UNION {Relations[m] : m \in out})
                                  \ (UNION {Relations[m] : m \in env'})))
     /\ columns' = {tc \in columns : tc[1] \in tables'}
     /\ Purged("module", ms)
     /\ UNCHANGED <<onDisk, retired, stale>>

\* The row, the fields that point to it or are its own, and its many2many tables; the
\* table of the model stays, as _drop_table leaves undefined models out.
PurgeModels(ms) ==
  /\ ms # {} /\ ms \subseteq Lines("model")
  /\ irModel' = irModel \ ms
  /\ irFields' = {mf \in irFields : mf[1] \notin ms}
  /\ tables' = tables \ ((UNION {Relations[m] : m \in ms}) \ (UNION {Relations[m] : m \in env}))
  /\ columns' = {tc \in columns : tc[1] \in tables'}
  /\ Purged("model", ms)
  /\ UNCHANGED <<env, onDisk, irModules, installed, retired, entries, stale>>

\* Each column is dropped and committed by itself; the others of the wizard may fail.
PurgeColumn(tc) ==
  /\ tc \in Lines("column")
  /\ columns' = columns \ {tc}
  /\ Purged("column", {tc})
  /\ UNCHANGED <<env, onDisk, irModules, installed, retired, irModel, irFields, tables,
                 entries, stale>>

\* unlink() drops the column of a stored field, and _drop_column that of the others.
PurgeField(mf) ==
  /\ mf \in Lines("field") /\ mf[1] \in env
  /\ irFields' = irFields \ {mf}
  /\ columns' = columns \ {<<Table[mf[1]], mf[2]>>}
  /\ Purged("field", {mf})
  /\ UNCHANGED <<env, onDisk, irModules, installed, retired, irModel, tables,
                 entries, stale>>

\* Foreign keys from tables that go too are dropped first; another one refuses the DROP
\* and rolls everything back.
PurgeTables(ts) ==
  /\ ts # {} /\ ts \subseteq Lines("table")
  /\ \A r \in References : r[2] \in ts /\ r[1] \in tables => r[1] \in ts
  /\ tables' = tables \ ts
  /\ columns' = {tc \in columns : tc[1] \notin ts}
  /\ Purged("table", ts)
  /\ UNCHANGED <<env, onDisk, irModules, installed, retired, irModel, irFields, entries, stale>>

PurgeEntries(ms) ==
  /\ ms # {} /\ ms \subseteq Lines("entry")
  /\ entries' = entries \ ms
  /\ Purged("entry", ms)
  /\ UNCHANGED <<env, onDisk, irModules, installed, retired, irModel, irFields, tables,
                 columns, stale>>

Init ==
  /\ irModules \in SUBSET Models   \* of which there was a directory once
  /\ env = {} /\ onDisk = {} /\ installed = {} /\ irModel = {} /\ irFields = {}
  /\ tables = KeptTables /\ columns = {} /\ entries = {}
  /\ retired = {} /\ lines = {} /\ stale = FALSE

Next ==
  \/ \E m \in Models : Install(m) \/ Remove(m)
  \/ \E mf \in Retired : Retire(mf)
  \/ \E kind \in {"module", "model", "field", "column", "table", "entry"} : Find(kind)
  \/ CloseWizard
  \/ \E ms \in SUBSET Models : PurgeModules(ms) \/ PurgeModels(ms) \/ PurgeEntries(ms)
  \/ \E x \in Lines("column") : PurgeColumn(x)
  \/ \E x \in Lines("field") : PurgeField(x)
  \/ \E ts \in SUBSET Lines("table") : PurgeTables(ts)

Spec == Init /\ [][Next]_vars

----------------------------------------------------------------------------
\* What the loaded models use is there, whatever was purged in whatever order - unless a
\* module was installed while a wizard showed lines it had found before.
\* purge_models.py:48-107, purge_columns.py:21-132, purge_tables.py:28-141.
InUseKept ==
  stale \/ \A m \in env :
    /\ m \in installed /\ m \in irModel /\ \A f \in Fields(m) : <<m, f>> \in irFields
    /\ {Table[m]} \cup Relations[m] \subseteq tables
    /\ \A f \in Columns(m) : <<Table[m], f>> \in columns
    /\ m \in entries

============================================================================
