-------------------------- MODULE AttachmentImport --------------------------
(***************************************************************************)
(* attachment_synchronize, import side: tasks list the files of a remote   *)
(* directory and turn each of them into an attachment.queue row.  The rows *)
(* live in PostgreSQL, the files on a server that knows no transactions:   *)
(* every file has a cursor of its own, which is committed after the file   *)
(* has been renamed, moved or deleted on the server.                       *)
(*                                                                         *)
(* A pass is one call of run_task_import_scheduler (all tasks, by the cron)*)
(* or run (one task, by the button); passes overlap freely.  The main      *)
(* cursor of a pass takes its snapshot when the pass begins and keeps it,  *)
(* so the duplicate filter does not see what the pass itself has imported. *)
(***************************************************************************)
EXTENDS Naturals, Sequences, FiniteSets, SequencesExt

CONSTANTS Tasks,          \* import tasks, each with a remote directory of its own
          Files,          \* the files partners deposit: <<task, name>>
          Passes,         \* importer processes
          CronPasses,     \* those that run the scheduler, the others press the button
          ButtonTasks,    \* tasks that are also started by hand
          AfterImport,    \* task -> after_import: "none", "rename", "move" or "delete"
          AvoidDuplicates,\* tasks with avoid_duplicated_files
          Unreachable,    \* tasks whose server is down
          MaxDeposits,    \* file -> bound on the versions of it put on the server
          MaxImportFaults, \* bound on crashes and failing commits
          MaxCopies       \* the button is left alone once a file has that many rows

ASSUME ImportAssumption == /\ CronPasses \subseteq Passes /\ Unreachable \subseteq Tasks
                           /\ ButtonTasks \subseteq Tasks /\ AvoidDuplicates \subseteq Tasks
                           /\ \A f \in Files : f = <<f[1], f[2]>> /\ f[1] \in Tasks
                           /\ IsFiniteSet(Tasks)
                           /\ AfterImport \in [Tasks -> {"none", "rename", "move", "delete"}]
                           /\ MaxDeposits \in [Files -> Nat \ {0}]
                           /\ MaxImportFaults \in Nat /\ MaxCopies \in Nat

VARIABLES remote,    \* <<task, name>> -> version of the file in the directory, 0 if none
          arrived,   \* <<task, name>> -> versions deposited so far
          archived,  \* files the import moved or renamed: <<task, name, version>>
          rows,      \* <<task, name, version>> -> committed attachment.queue rows
          pass,      \* process -> the pass it is executing
          importFaults \* crashes and failing commits so far

importVars == <<remote, arrived, archived, rows, pass, importFaults>>

Names == {f[2] : f \in Files}
Version(f, v) == <<f[1], f[2], v>>
Versions == UNION {{Version(f, v) : v \in 1 .. MaxDeposits[f]} : f \in Files}

(***************************************************************************)
(* tasks: the tasks still to do, the head is current; known: the names of  *)
(* the snapshot; todo: the names listed and not yet imported; name and     *)
(* version: the file in the open per-file cursor, NoName if none is open;  *)
(* since, history: what passes have imported since the snapshot, as        *)
(* <<process, task, name>>.                                                *)
(***************************************************************************)
NoName == ""
IdlePass == [phase |-> "idle", tasks |-> << >>, known |-> {}, todo |-> {},
             name |-> NoName, version |-> 0, since |-> {}]

PassType == [phase : {"idle", "task", "files", "created", "managed"}, tasks : Seq(Tasks),
             known : SUBSET Names, todo : SUBSET Names, name : Names \cup {NoName}, version : Nat,
             since : SUBSET (Passes \X Tasks \X Names)]

Task(p) == Head(pass[p].tasks)
Current(p) == <<Task(p), pass[p].name>>

\* Names of the committed attachments, of whatever task.
ImportedNames == {v[2] : v \in {u \in Versions : rows[u] > 0}}

\* Names of the files that are in the directory of a task.
Listing(t) == {f[2] : f \in {g \in Files : g[1] = t /\ remote[g] > 0}}

ImportInit ==
  /\ remote = [f \in Files |-> 0]
  /\ arrived = [f \in Files |-> 0]
  /\ archived = {}
  /\ rows = [v \in Versions |-> 0]
  /\ pass = [p \in Passes |-> IdlePass]
  /\ importFaults = 0

\* The remote partner (external) drops the next version of a file.
Deposit(f) ==
  /\ remote[f] = 0 /\ arrived[f] < MaxDeposits[f]
  /\ arrived' = [arrived EXCEPT ![f] = @ + 1]
  /\ remote' = [remote EXCEPT ![f] = arrived[f] + 1]
  /\ UNCHANGED <<archived, rows, pass, importFaults>>

----------------------------------------------------------------------------
(* The steps of a pass.  Definition_Variant is a mutation of the definition
   that follows it; nothing else uses it. *)

Start(p, ts) ==
  /\ pass[p].phase = "idle" /\ ts # << >>
  /\ pass' = [pass EXCEPT ![p] = [IdlePass EXCEPT !.phase = "task", !.tasks = ts,
                                                  !.known = ImportedNames]]
  /\ UNCHANGED <<remote, arrived, archived, rows, importFaults>>

\* The names of the attachments that already exist are left out; the search
\* runs on the main cursor, so it answers from the snapshot.
FilterDuplicates_Off(p, names) == names
FilterDuplicates(p, names) == IF Task(p) \in AvoidDuplicates THEN names \ pass[p].known ELSE names

List(p) ==
  /\ pass[p].phase = "task" /\ Task(p) \notin Unreachable
  /\ pass' = [pass EXCEPT ![p].phase = "files",
                ![p].todo = FilterDuplicates(p, Listing(Task(p)))]
  /\ UNCHANGED <<remote, arrived, archived, rows, importFaults>>

\* An exception ends the pass of a button.
Abort_Always(p) == pass' = [pass EXCEPT ![p] = IdlePass]

\* An exception is caught per task by the scheduler, which rolls the main
\* cursor back (a new snapshot) and goes on with the next task.
Abort(p) ==
  pass' = [pass EXCEPT ![p] =
             IF p \in CronPasses /\ Len(pass[p].tasks) > 1
             THEN [IdlePass EXCEPT !.phase = "task", !.tasks = Tail(pass[p].tasks),
                                   !.known = ImportedNames]
             ELSE IdlePass]

ListFails(p) ==
  /\ pass[p].phase = "task" /\ Task(p) \in Unreachable
  /\ Abort(p)
  /\ UNCHANGED <<remote, arrived, archived, rows, importFaults>>

\* A cursor is opened, the file read and its attachment created in it.
Read(p, n) ==
  /\ pass[p].phase = "files" /\ n \in pass[p].todo /\ remote[<<Task(p), n>>] > 0
  /\ pass' = [pass EXCEPT ![p].phase = "created", ![p].name = n,
                          ![p].version = remote[<<Task(p), n>>]]
  /\ UNCHANGED <<remote, arrived, archived, rows, importFaults>>

\* Another pass took the file away since it was listed.
ReadFails(p, n) ==
  /\ pass[p].phase = "files" /\ n \in pass[p].todo /\ remote[<<Task(p), n>>] = 0
  /\ Abort(p)
  /\ UNCHANGED <<remote, arrived, archived, rows, importFaults>>

\* Nothing to do remotely: after_import is empty, or the rendered new_name is.
Leave(p) ==
  /\ pass[p].phase = "created" /\ AfterImport[Task(p)] \in {"none", "rename"}
  /\ pass' = [pass EXCEPT ![p].phase = "managed"]
  /\ UNCHANGED <<remote, arrived, archived, rows, importFaults>>

\* fs.move or fs.rm: whatever version is there now goes.
TakeAway(p) ==
  /\ pass[p].phase = "created" /\ AfterImport[Task(p)] # "none" /\ remote[Current(p)] > 0
  /\ remote' = [remote EXCEPT ![Current(p)] = 0]
  /\ archived' = IF AfterImport[Task(p)] = "delete" THEN archived
                 ELSE archived \cup {Version(Current(p), remote[Current(p)])}
  /\ pass' = [pass EXCEPT ![p].phase = "managed"]
  /\ UNCHANGED <<arrived, rows, importFaults>>

\* The error of fs is swallowed.
TakeAwayFails_Ignored(p) ==
  /\ pass[p].phase = "created" /\ AfterImport[Task(p)] # "none" /\ remote[Current(p)] = 0
  /\ pass' = [pass EXCEPT ![p].phase = "managed"]
  /\ UNCHANGED <<remote, arrived, archived, rows, importFaults>>

\* The file is not there any more: fs raises and the file's cursor is rolled back.
TakeAwayFails(p) ==
  /\ pass[p].phase = "created" /\ AfterImport[Task(p)] # "none" /\ remote[Current(p)] = 0
  /\ Abort(p)
  /\ UNCHANGED <<remote, arrived, archived, rows, importFaults>>

\* What the running passes know that p has imported its file.
Noted(p) ==
  [q \in Passes |-> IF pass[q].phase = "idle" THEN pass[q]
                    ELSE [pass[q] EXCEPT !.since = @ \cup {<<p, Task(p), pass[p].name>>}]]

\* The cursor is closed without a commit.
CommitFile_Closed(p) ==
  /\ pass[p].phase = "managed"
  /\ pass' = [pass EXCEPT ![p].phase = "files", ![p].todo = @ \ {pass[p].name},
                          ![p].name = NoName, ![p].version = 0]
  /\ UNCHANGED <<remote, arrived, archived, rows, importFaults>>

\* The file's cursor is committed at the end of the with block.
CommitFile(p) ==
  /\ pass[p].phase = "managed"
  /\ rows' = [rows EXCEPT ![Version(Current(p), pass[p].version)] = @ + 1]
  /\ pass' = [Noted(p) EXCEPT ![p].phase = "files", ![p].todo = @ \ {pass[p].name},
                               ![p].name = NoName, ![p].version = 0]
  /\ UNCHANGED <<remote, arrived, archived, importFaults>>

\* A task's files are done: on to the next task, with the same snapshot.
NextTask(p) ==
  /\ pass[p].phase = "files" /\ pass[p].todo = {}
  /\ pass' = [pass EXCEPT ![p] = IF Len(pass[p].tasks) > 1
                                 THEN [pass[p] EXCEPT !.phase = "task",
                                                      !.tasks = Tail(pass[p].tasks)]
                                 ELSE IdlePass]
  /\ UNCHANGED <<remote, arrived, archived, rows, importFaults>>

\* The commit of the file fails.
CommitFails(p) ==
  /\ importFaults < MaxImportFaults /\ importFaults' = importFaults + 1
  /\ pass[p].phase = "managed"
  /\ Abort(p)
  /\ UNCHANGED <<remote, arrived, archived, rows>>

\* The process dies; its cursors are rolled back, the server is not.
PassDies(p) ==
  /\ importFaults < MaxImportFaults /\ importFaults' = importFaults + 1
  /\ pass[p].phase # "idle"
  /\ pass' = [pass EXCEPT ![p] = IdlePass]
  /\ UNCHANGED <<remote, arrived, archived, rows>>

PassStep(p) == \/ List(p) \/ ListFails(p) \/ Leave(p) \/ TakeAway(p) \/ TakeAwayFails(p)
               \/ CommitFile(p) \/ NextTask(p)
               \/ \E n \in Names : Read(p, n) \/ ReadFails(p, n)

\* run_task_import_scheduler: all import tasks, in the order of search().
StartCron(p) == \E ts \in SetToSeqs(Tasks) : Start(p, ts)
StartButton(p) == /\ \A v \in Versions : rows[v] < MaxCopies
                  /\ \E t \in ButtonTasks : Start(p, <<t>>)

ImportNext ==
  \/ \E f \in Files : Deposit(f)
  \/ \E p \in CronPasses : StartCron(p)
  \/ \E p \in Passes \ CronPasses : StartButton(p)
  \/ \E p \in Passes : PassStep(p) \/ CommitFails(p) \/ PassDies(p)

\* The cron fires again and again and a pass that has begun goes on.
ImportFairness ==
  /\ \A p \in CronPasses : WF_importVars(StartCron(p))
  /\ \A p \in Passes : WF_importVars(PassStep(p))

ImportSpec == ImportInit /\ [][ImportNext]_importVars
FairImportSpec == ImportSpec /\ ImportFairness

----------------------------------------------------------------------------
(* Properties *)

\* Directories, attachments and passes keep the shape run_import gives them.
ImportTypeOK ==
  /\ remote \in [Files -> Nat] /\ arrived \in [Files -> Nat]
  /\ \A f \in Files : remote[f] <= arrived[f] /\ arrived[f] <= MaxDeposits[f]
  /\ archived \subseteq Versions
  /\ rows \in [Versions -> Nat]
  /\ importFaults \in 0 .. MaxImportFaults
  /\ pass \in [Passes -> PassType]
  /\ \A p \in Passes :
       /\ pass[p].phase # "idle" => pass[p].tasks # << >>
       /\ pass[p].phase \in {"created", "managed"} => pass[p].name \in pass[p].todo

\* A name is deposited once to the tasks that treat their files in one of these ways.
DepositedOnce(ways) ==
  \A f \in Files : AfterImport[f[1]] \in ways => MaxDeposits[f] = 1

\* A version that is on the server, moved aside, imported, or in the hands of a
\* pass that is about to commit it.
Kept(f, v) ==
  \/ remote[f] = v
  \/ Version(f, v) \in archived
  \/ rows[Version(f, v)] > 0
  \/ \E p \in Passes : /\ pass[p].phase = "managed"
                      /\ Current(p) = f /\ pass[p].version = v

\* No deposited file disappears, whichever passes overlap; a crash or a failing
\* commit can only lose one of a task that deletes (run_import).
NoFileLost ==
  \A f \in Files : \A v \in 1 .. arrived[f] :
     Kept(f, v) \/ (AfterImport[f[1]] = "delete" /\ importFaults > 0)

\* A file that the import takes away from the server is imported at most once,
\* although the cron and the button may both have listed and read it
\* (_manage_file_after_import fails for the second one).
ImportedOnce ==
  \A v \in Versions : AfterImport[v[1]] \in {"move", "delete"} => rows[v] <= 1

\* Since pass p began, or a task of it failed, another pass, or another task of this
\* one, has imported a file of that name.
Overtaken(p, n) == \E i \in pass[p].since : i[3] = n /\ <<i[1], i[2]>> # <<p, Task(p)>>

\* "If checked, a file will not be imported if an Attachment Queue with the
\* same name already exists" (avoid_duplicated_files): whatever passes and tasks
\* there are, a file with the name of another one is only imported by a pass that
\* is overtaken, as the snapshot of the main cursor is all that it asks.
NoDuplicateName ==
  [][\A v \in Versions :
       rows'[v] > rows[v] /\ v[1] \in AvoidDuplicates /\ v[2] \in ImportedNames =>
         \E p \in Passes : /\ pass[p].phase = "managed" /\ pass'[p] # pass[p]
                           /\ Current(p) = <<v[1], v[2]>> /\ Overtaken(p, v[2])]_rows

\* "continue in order to no block all task from all remote servers one is
\* unavailable": a file on a reachable server is imported in the end, whatever
\* the order of the tasks, unless a crash comes between (run_task_import_scheduler).
ReachableIsImported ==
  \A f \in Files : f[1] \notin Unreachable =>
     (remote[f] > 0 ~> rows[Version(f, 1)] > 0 \/ importFaults > 0)

============================================================================
