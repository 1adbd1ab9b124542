-------------------------- MODULE AttachmentExport --------------------------
(***************************************************************************)
(* attachment_synchronize, export side: _run of an attachment of the file  *)
(* type "export" writes its file to the remote server, where it replaces   *)
(* what is there while it is being written.  A job exports one attachment; *)
(* the button of a task (run_export) exports all pending ones of the task  *)
(* in one transaction, which locks one row after the other and keeps them. *)
(* Row locks, snapshots and the failure mail are those of AttachmentQueue; *)
(* which jobs there are is left out: a worker may take any row at any time.*)
(***************************************************************************)
EXTENDS Naturals

CONSTANTS Exports,       \* attachments of one export task, with different names
          Jobs, Buttons, \* the processes that run a job, and those that run the task
          MaxExportFaults

Assumption == Jobs \cap Buttons = {} /\ MaxExportFaults \in Nat

VARIABLES xpState,   \* row -> its committed state
          xpByHand,  \* rows that were set to done without an export
          xpRemote,  \* row -> what the server has of its file: "none", "part" or "whole"
          xpTx,      \* process -> its transaction
          xpFaults

vars == <<xpState, xpByHand, xpRemote, xpTx, xpFaults>>

Exporters == Jobs \cup Buttons

\* seen: the rows' states in the snapshot; stale: rows that were rewritten since; todo:
\* rows still to run; locked: rows locked so far; written: row -> state not committed yet;
\* at: "none", or where the row in hand is.
NoTx == [todo |-> {}, row |-> {}, at |-> "none", open |-> FALSE, seen |-> << >>,
         stale |-> {}, locked |-> {}, written |-> << >>]

Free(a) == \A p \in Exporters : a \notin xpTx[p].locked
InHand(p, a) == xpTx[p].row = {a}
\* The function f with the values of g.
Over(g, f) == [x \in DOMAIN f \cup DOMAIN g |-> IF x \in DOMAIN g THEN g[x] ELSE f[x]]

\* The transactions once a commit has rewritten the rows S.
Rewritten(S) ==
  [q \in Exporters |-> IF xpTx[q].open THEN [xpTx[q] EXCEPT !.stale = @ \cup S] ELSE xpTx[q]]

Init ==
  /\ xpState = [a \in Exports |-> "pending"] /\ xpByHand = {}
  /\ xpRemote = [a \in Exports |-> "none"]
  /\ xpTx = [p \in Exporters |-> NoTx] /\ xpFaults = 0

\* button_reschedule and set_done of the queue.
Edit(a, s) ==
  /\ Free(a)
  /\ xpState' = [xpState EXCEPT ![a] = s]
  /\ xpByHand' = IF s = "done" THEN xpByHand \cup {a} ELSE xpByHand \ {a}
  /\ xpTx' = Rewritten({a})
  /\ UNCHANGED <<xpRemote, xpFaults>>

----------------------------------------------------------------------------
(* One transaction.  Definition_Variant is a mutation of the definition that  *)
(* follows it; nothing else uses it.                                          *)

Begin(p, S) ==
  /\ ~ xpTx[p].open /\ S # {}
  /\ xpTx' = [xpTx EXCEPT ![p] = [NoTx EXCEPT !.open = TRUE, !.todo = S, !.seen = xpState]]
  /\ UNCHANGED <<xpState, xpByHand, xpRemote, xpFaults>>

RunAsJob(p, a) == p \in Jobs /\ Begin(p, {a})

\* task.attachment_ids.filtered(state == "pending")
RunExport(p) == p \in Buttons /\ Begin(p, {a \in Exports : xpState[a] = "pending"})

CanLock_AnySnapshot(p, a) == Free(a)
CanLock(p, a) == Free(a) /\ a \notin xpTx[p].stale

\* A row that is done is left alone, and stays locked.
Lock(p, a) ==
  /\ xpTx[p].at = "none" /\ a \in xpTx[p].todo /\ CanLock(p, a)
  /\ xpTx' = IF xpTx[p].seen[a] = "done"
             THEN [xpTx EXCEPT ![p].todo = @ \ {a}, ![p].locked = @ \cup {a}]
             ELSE [xpTx EXCEPT ![p].todo = @ \ {a}, ![p].locked = @ \cup {a},
                               ![p].row = {a}, ![p].at = "locked"]
  /\ UNCHANGED <<xpState, xpByHand, xpRemote, xpFaults>>

Rollback(p) ==
  /\ xpTx' = [xpTx EXCEPT ![p] = NoTx]
  /\ UNCHANGED <<xpState, xpByHand, xpRemote>>

\* What the transaction has written becomes visible, and it ends.
CommitWith(p, written) ==
  /\ xpState' = Over(written, xpState)
  /\ xpByHand' = xpByHand \ DOMAIN written
  /\ xpTx' = [Rewritten(DOMAIN written) EXCEPT ![p] = NoTx]
  /\ UNCHANGED xpRemote

\* RetryableJobError: nobody catches it in run_export, which gives up the rows it has
\* exported so far.
LockBusy(p, a) ==
  /\ xpTx[p].at = "none" /\ a \in xpTx[p].todo /\ ~ CanLock(p, a)
  /\ Rollback(p) /\ UNCHANGED xpFaults

\* _write_file_to_remote: open(..., "wb") empties the file.
OpenFile(p, a) ==
  /\ InHand(p, a) /\ xpTx[p].at = "locked"
  /\ xpRemote' = [xpRemote EXCEPT ![a] = "part"]
  /\ xpTx' = [xpTx EXCEPT ![p].at = "writing"]
  /\ UNCHANGED <<xpState, xpByHand, xpFaults>>

\* The row in hand is over, in the savepoint of its own, with the state s.
RowOver(p, s) ==
  xpTx' = [xpTx EXCEPT ![p].at = "none", ![p].row = {},
             ![p].written = Over([b \in xpTx[p].row |-> s], @)]

CloseFile(p, a) ==
  /\ InHand(p, a) /\ xpTx[p].at = "writing"
  /\ xpRemote' = [xpRemote EXCEPT ![a] = "whole"]
  /\ RowOver(p, "done")
  /\ UNCHANGED <<xpState, xpByHand, xpFaults>>

\* Any exception but a timeout: the failure is written, and the next row follows.
ExportFails(p) ==
  /\ xpTx[p].at \in {"locked", "writing"}
  /\ RowOver(p, "failed")
  /\ UNCHANGED <<xpState, xpByHand, xpRemote, xpFaults>>

\* TimeoutError or ConnectionResetError: the failure is committed, and with it whatever
\* the transaction has done before; the exception ends it.
Timeout(p) ==
  /\ xpTx[p].at \in {"locked", "writing"}
  /\ CommitWith(p, Over([b \in xpTx[p].row |-> "failed"], xpTx[p].written))
  /\ UNCHANGED xpFaults

Finish(p) ==
  /\ xpTx[p].open /\ xpTx[p].at = "none" /\ xpTx[p].todo = {}
  /\ CommitWith(p, xpTx[p].written)
  /\ UNCHANGED xpFaults

\* The failure mail raises, PostgreSQL refuses a write or the commit, or the process dies:
\* the rows of the transaction are rolled back, the server is not.
Die(p) ==
  /\ xpFaults < MaxExportFaults /\ xpFaults' = xpFaults + 1
  /\ xpTx[p].open /\ Rollback(p)

Next ==
  \/ \E a \in Exports, s \in {"pending", "done"} : Edit(a, s)
  \/ \E p \in Exporters, a \in Exports :
       RunAsJob(p, a) \/ Lock(p, a) \/ LockBusy(p, a) \/ OpenFile(p, a) \/ CloseFile(p, a)
  \/ \E p \in Exporters : \/ RunExport(p) \/ ExportFails(p) \/ Timeout(p)
                          \/ Finish(p) \/ Die(p)

Spec == Init /\ [][Next]_vars

----------------------------------------------------------------------------
\* The server has the whole file of an attachment that is done, unless it was set to done
\* by hand: also while others are being exported again, when a transaction over several
\* rows is given up or committed half way, and while a job and the button meet.
\* attachment_synchronize/models/attachment_queue.py:27-52, attachment_queue.py:86-152.
DoneIsExported ==
  \A a \in Exports : xpState[a] = "done" /\ a \notin xpByHand => xpRemote[a] = "whole"

============================================================================
