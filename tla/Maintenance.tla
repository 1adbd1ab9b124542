---------------------------- MODULE Maintenance ----------------------------
(* The independent components Mailbox, AutoBackup, DatabaseCleanup,           *)
(* PropertyPurge, ImportOdoo, TrackingManager, UpgradeAnalysis, UpgradeData,  *)
(* ExcelTemplate and AttachmentExport in one specification.  They share       *)
(* nothing in the code: a behaviour is one of a single component, the         *)
(* variables of the others being None.                                        *)
EXTENDS Naturals, Sequences, FiniteSets

CONSTANTS
  None,                                            \* a value that is missing
  NMails, Fetchers, Objects, Address, Sent, Settings, MaxMailFaults,     \* Mailbox
  Configs, Local, Keep, MaxDays,                                         \* AutoBackup
  Models, Needs, Table, AutoModels, Stored, Unstored, Retired, Relations,      \* DatabaseCleanup
  References, Magic, KeptTables,
  Companies, General, OneRecord, Nothing, Unknown, Properties, NProperties, \* PropertyPurge
  Order, Remote, Link, Mapped, Own, Policies, Chunk, MaxRuns,            \* ImportOdoo
  Items, Owners, Values, ItemFields, Custom, Private, NoLine, MaxSteps,  \* TrackingManager
  Cases, Shapes,                                                         \* UpgradeAnalysis
  Upgrades, Views, UserValue, NoText,                                    \* UpgradeData
  Templates, Tables, LineValues, Number, Blank, Heading, MaxLines,       \* ExcelTemplate
  Exports, Jobs, Buttons, MaxExportFaults                                \* AttachmentExport

VARIABLES part,
          conf, inbox, moved, age, attached, session, astray, mailFaults,
          day, files, run, had,
          env, onDisk, irModules, installed, irModel, irFields, tables, columns, entries, retired,
          lines, stale,
          duplicates, db, saved, mem, todo, runs, broken,
          tmConfig, tmLines, tmLog, tmBefore, tmData, tmHooks, tmSaved, tmCommitted,
          tmOpen, tmBase, tmOps, tmSteps,
          uaCase, uaCode, uaLogged, uaRecords, uaPhase, uaReport, uaStops,
          udCase, udOld, udNew, udPhase, udDb, udEdited, udReport, udDiff,
          xlTemplate, xlRows, xlDocument, xlState, xlShown, xlSheet, xlWizard, xlEdits,
          ppWas, ppRows, ppLines, ppPartly,
          xpState, xpByHand, xpRemote, xpTx, xpFaults

mailbox == <<conf, inbox, moved, age, attached, session, astray, mailFaults>>
backup == <<day, files, run, had>>
cleanup == <<env, onDisk, irModules, installed, irModel, irFields, tables, columns, entries, retired,
             lines, stale>>
import == <<duplicates, db, saved, mem, todo, runs, broken>>
tracking == <<tmConfig, tmLines, tmLog, tmBefore, tmData, tmHooks, tmSaved, tmCommitted,
              tmOpen, tmBase, tmOps, tmSteps>>
analysis == <<uaCase, uaCode, uaLogged, uaRecords, uaPhase, uaReport, uaStops>>
data == <<udCase, udOld, udNew, udPhase, udDb, udEdited, udReport, udDiff>>
excel == <<xlTemplate, xlRows, xlDocument, xlState, xlShown, xlSheet, xlWizard, xlEdits>>
properties == <<ppWas, ppRows, ppLines, ppPartly>>
export == <<xpState, xpByHand, xpRemote, xpTx, xpFaults>>

MB == INSTANCE Mailbox
AB == INSTANCE AutoBackup
DC == INSTANCE DatabaseCleanup
IO == INSTANCE ImportOdoo
TM == INSTANCE TrackingManager WITH Lines <- Items, Fields <- ItemFields
UA == INSTANCE UpgradeAnalysis
UD == INSTANCE UpgradeData
XL == INSTANCE ExcelTemplate
PP == INSTANCE PropertyPurge
XP == INSTANCE AttachmentExport

ASSUME MaintenanceAssumption ==
  /\ AB!Assumption /\ DC!Assumption /\ IO!Assumption
  /\ TM!Assumption /\ UA!Assumption /\ UD!Assumption /\ XL!Assumption
  /\ PP!Assumption /\ XP!Assumption

NoMailbox == /\ conf = None /\ inbox = None /\ moved = None /\ age = None
             /\ attached = None /\ session = None /\ astray = None /\ mailFaults = None
NoBackup == day = None /\ files = None /\ run = None /\ had = None
NoCleanup == /\ env = None /\ onDisk = None /\ irModules = None /\ installed = None
             /\ irModel = None /\ irFields = None /\ tables = None /\ columns = None
             /\ entries = None /\ retired = None /\ lines = None /\ stale = None
NoImport == /\ duplicates = None /\ db = None /\ saved = None /\ mem = None
            /\ todo = None /\ runs = None /\ broken = None
NoTracking == /\ tmConfig = None /\ tmLines = None /\ tmLog = None /\ tmBefore = None
              /\ tmData = None /\ tmHooks = None /\ tmSaved = None
              /\ tmCommitted = None /\ tmOpen = None /\ tmBase = None
              /\ tmOps = None /\ tmSteps = None

NoAnalysis == /\ uaCase = None /\ uaCode = None /\ uaLogged = None /\ uaRecords = None
              /\ uaPhase = None /\ uaReport = None /\ uaStops = None
NoData == /\ udCase = None /\ udOld = None /\ udNew = None /\ udPhase = None
          /\ udDb = None /\ udEdited = None /\ udReport = None /\ udDiff = None
NoExcel == /\ xlTemplate = None /\ xlRows = None /\ xlDocument = None /\ xlState = None
           /\ xlShown = None /\ xlSheet = None /\ xlWizard = None /\ xlEdits = None
NoProperties == ppWas = None /\ ppRows = None /\ ppLines = None /\ ppPartly = None
NoExport == /\ xpState = None /\ xpByHand = None /\ xpRemote = None /\ xpTx = None
            /\ xpFaults = None

Parts == {"mailbox", "backup", "cleanup", "properties", "import", "tracking", "analysis",
          "data", "excel", "export"}

MaintenanceInit ==
  /\ part \in Parts
  /\ IF part = "mailbox" THEN MB!Init ELSE NoMailbox
  /\ IF part = "backup" THEN AB!Init ELSE NoBackup
  /\ IF part = "cleanup" THEN DC!Init ELSE NoCleanup
  /\ IF part = "properties" THEN PP!Init ELSE NoProperties
  /\ IF part = "import" THEN IO!Init ELSE NoImport
  /\ IF part = "tracking" THEN TM!Init ELSE NoTracking
  /\ IF part = "analysis" THEN UA!Init ELSE NoAnalysis
  /\ IF part = "data" THEN UD!Init ELSE NoData
  /\ IF part = "excel" THEN XL!Init ELSE NoExcel
  /\ IF part = "export" THEN XP!Init ELSE NoExport

Step(p) == part = p /\ UNCHANGED part
MaintenanceNext ==
  \/ /\ Step("mailbox") /\ MB!Next
     /\ UNCHANGED <<backup, cleanup, properties, import, tracking, analysis, data,
                 excel, export>>
  \/ /\ Step("backup") /\ AB!Next
     /\ UNCHANGED <<mailbox, cleanup, properties, import, tracking,
                 analysis, data, excel, export>>
  \/ /\ Step("cleanup") /\ DC!Next
     /\ UNCHANGED <<mailbox, backup, properties, import, tracking, analysis,
                 data, excel, export>>
  \/ /\ Step("properties") /\ PP!Next
     /\ UNCHANGED <<mailbox, backup, cleanup, import, tracking, analysis,
                 data, excel, export>>
  \/ /\ Step("import") /\ IO!Next
     /\ UNCHANGED <<mailbox, backup, cleanup, properties, tracking,
                 analysis, data, excel, export>>
  \/ /\ Step("tracking") /\ TM!Next
     /\ UNCHANGED <<mailbox, backup, cleanup, properties, import, analysis,
                 data, excel, export>>
  \/ /\ Step("analysis") /\ UA!Next
     /\ UNCHANGED <<mailbox, backup, cleanup, properties, import, tracking,
                 data, excel, export>>
  \/ /\ Step("data") /\ UD!Next
     /\ UNCHANGED <<mailbox, backup, cleanup, properties, import, tracking,
                 analysis, excel, export>>
  \/ /\ Step("excel") /\ XL!Next
     /\ UNCHANGED <<mailbox, backup, cleanup, properties, import, tracking,
                 analysis, data, export>>
  \/ /\ Step("export") /\ XP!Next
     /\ UNCHANGED <<mailbox, backup, cleanup, properties, import, tracking,
                 analysis, data, excel>>

all == <<part, mailbox, backup, cleanup, properties, import, tracking, analysis, data, excel, export>>
MaintenanceSpec == MaintenanceInit /\ [][MaintenanceNext]_all

(* No mail is lost between the folder, Odoo and the archive, but for those    *)
(* that Mailbox calls astray.  fetchmail_server_folder.py:160-189, 214-285.   *)
NoMailLost == part = "mailbox" => MB!NoMailLost

(* What was backed up once stays backed up.  db_backup.py:144-251.            *)
BackupKept == part = "backup" => AB!BackupKept

(* No wizard purges what the loaded models use.  purge_tables.py:28-141.      *)
InUseKept == part = "cleanup" => DC!InUseKept

(* No record is imported twice.  import_odoo_database.py:225-305.             *)
RecordsImportedOnce == part = "import" => IO!ImportedOnce

(* Each change that a migration must act upon is reported.  compare.py:187-352. *)
ChangesReported == part = "analysis" => UA!ChangesReported

(* The XML ids that come, go or change their flag are reported.  compare.py:355-465. *)
XmlidsTold == part = "data" => UD!XmlidsTold

(* The noupdate file brings the records up to date.                           *)
(* upgrade_analysis/models/upgrade_analysis.py:258-426.                       *)
NoupdateUpgraded == part = "data" => UD!NoupdateUpgraded

(* A sheet has all lines, but for tables of one line that extend, and gives   *)
(* them back.  xlsx_export.py:200-249, xlsx_import.py:77-202.                 *)
SheetFaithful == part = "excel" => XL!SheetFaithful

(* Purging properties changes no value that a company sees.  purge_properties.py:43-148. *)
EffectiveKept == part = "properties" => PP!EffectiveKept

(* A done attachment has its whole file on the server.                        *)
(* attachment_synchronize/models/attachment_queue.py:27-52.                   *)
DoneIsExported == part = "export" => XP!DoneIsExported

(* Each flush posts exactly the net changes.  tracking_manager/models/models.py:121-155. *)
NetChangesTold ==
  [][(part = "tracking" /\ (TM!OpenSavepoint \/ TM!ReleaseSavepoint \/ TM!Commit))
       => TM!PostsNetChanges]_tracking

============================================================================
