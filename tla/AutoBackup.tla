----------------------------- MODULE AutoBackup -----------------------------
(***************************************************************************)
(* auto_backup: one action makes the backups of several configurations,    *)
(* local ones first, each of which may fail by itself, and then removes    *)
(* the old files of those that succeeded.  Files are named after their     *)
(* second; the model counts days.  Disks and SFTP servers are external.    *)
(***************************************************************************)
EXTENDS Naturals

CONSTANTS Configs,   \* db.backup rows
          Local,     \* the ones with method "local"; the others use SFTP
          Keep,      \* configuration -> days_to_keep, 0 to keep everything
          MaxDays    \* bound: days

Assumption == Local \subseteq Configs /\ Keep \in [Configs -> Nat] /\ MaxDays \in Nat

VARIABLES day,
          files,   \* configuration -> days of its complete files
          run,     \* the action that is running: what is to do, whether a local file was
                   \* made, and what is done, to be cleaned
          had      \* history: configurations that had a successful backup

vars == <<day, files, run, had>>

NoRun == [todo |-> {}, cached |-> FALSE, done |-> {}]

\* action_backup of some configurations.
Start(cs) ==
  /\ run = NoRun /\ cs # {}
  /\ run' = [NoRun EXCEPT !.todo = cs]
  /\ UNCHANGED <<day, files, had>>

\* The local ones come first; the order of each kind, that of the recordset, is left open.
Turn == IF run.todo \cap Local = {} THEN run.todo ELSE run.todo \cap Local

\* A second local configuration copies the file of the first one, opened as text: the
\* copy raises on what a dump contains.
CanDump(c) == ~(c \in Local /\ run.cached)

\* A mutant: the line after the block of backup_log, which catches the exception.
DoneAfterError_Anyway(c) == {c}

\* What a failed backup adds to the successful ones.
DoneAfterError(c) == {}

Advance(c, cached, done) ==
  run' = [run EXCEPT !.todo = @ \ {c}, !.cached = cached, !.done = @ \cup done]

Backup(c) ==
  /\ c \in Turn /\ CanDump(c)
  /\ files' = [files EXCEPT ![c] = @ \cup {day}]
  /\ had' = had \cup {c}
  /\ Advance(c, run.cached \/ c \in Local, {c})
  /\ UNCHANGED day

\* backup_log logs it, and the next one begins; an incomplete file may be left.
BackupFails(c) ==
  /\ c \in Turn
  /\ Advance(c, run.cached, DoneAfterError(c))
  /\ UNCHANGED <<day, files, had>>

\* filename is compared with the name of a backup days_to_keep days ago.
Old(c) == {d \in files[c] : d + Keep[c] < day}

\* cleanup; cleanup_log goes on when a file cannot be removed.
Cleanup(c) ==
  /\ run.todo = {} /\ c \in run.done
  /\ \E kept \in SUBSET Old(c) :
       files' = [files EXCEPT ![c] = IF Keep[c] = 0 THEN @ ELSE (@ \ Old(c)) \cup kept]
  /\ run' = [run EXCEPT !.done = @ \ {c}]
  /\ UNCHANGED <<day, had>>

End ==
  /\ run.todo = {} /\ run.done = {} /\ run # NoRun
  /\ run' = NoRun
  /\ UNCHANGED <<day, files, had>>

Crash ==
  /\ run # NoRun
  /\ run' = NoRun
  /\ UNCHANGED <<day, files, had>>

\* An action takes less than a day.
NextDay ==
  /\ run = NoRun /\ day < MaxDays /\ day' = day + 1
  /\ UNCHANGED <<files, run, had>>

Init ==
  /\ day = 0
  /\ files = [c \in Configs |-> {}]
  /\ run = NoRun
  /\ had = {}

Next ==
  \/ \E cs \in SUBSET Configs : Start(cs)
  \/ \E c \in Configs : Backup(c) \/ BackupFails(c) \/ Cleanup(c)
  \/ End \/ Crash \/ NextDay

Spec == Init /\ [][Next]_vars

----------------------------------------------------------------------------
\* A configuration that was once backed up always has a complete backup: however often
\* it fails later, its old files wait for a new one.  db_backup.py:144-251.
BackupKept == \A c \in had : files[c] # {}

============================================================================
