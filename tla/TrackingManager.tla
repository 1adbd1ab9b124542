-------------------------- MODULE TrackingManager --------------------------
(* tracking_manager: the changes of the lines of a record are told in the  *)
(* discussion of the record that owns them.  A transaction keeps the first *)
(* values of the lines it writes, and what it created and deleted, in the  *)
(* data of the cursor's precommit callbacks; the callbacks run before the  *)
(* commit, and before each savepoint, and post the differences.            *)
EXTENDS Naturals, Sequences, FiniteSets, SequencesExt, Functions

CONSTANTS
    Lines,      \* the records of the model of the one2many field
    Owners,     \* the records that have the field
    Values,     \* what the other fields of a line may hold
    Fields,     \* those other fields
    Custom,     \* the fields of a line marked as tracked (custom_tracking)
    Private,    \* the fields whose groups leave the ordinary user out
    NoLine,     \* a line that does not exist
    MaxSteps    \* bound on the operations of a transaction

Assumption ==
    /\ Custom \subseteq Fields \cup {"owner"}
    /\ Private \subseteq Fields
    /\ "owner" \notin Fields
    /\ NoLine \notin [Fields \cup {"owner"} -> Owners \cup Values]
    /\ MaxSteps \in Nat

AllFields == Fields \cup {"owner"}

Records == {r \in [AllFields -> Owners \cup Values] :
               r["owner"] \in Owners /\ \A f \in Fields : r[f] \in Values}

(* The tracking of the owner's model and of its one2many, and of the model *)
(* of the lines itself, as the administrator has set it.                   *)
TrackingConfigs == [owners : BOOLEAN, lines : BOOLEAN]

VARIABLES
    tmConfig,    \* the tracking set on the two models
    tmLines,     \* the lines as the transaction sees them
    tmLog,       \* the messages the transaction has posted
    tmBefore,    \* precommit.data["tracking.manager.before.<model>"]
    tmData,      \* precommit.data["tracking.manager.data"], in order
    tmHooks,     \* whether _tm_finalize_o2m_tracking waits to be called
    tmSaved,     \* what a rollback of the savepoint brings back; <<>> without one
    tmCommitted, \* the lines a rollback of the transaction brings back
    tmOpen,      \* whether a transaction is open
    tmBase,      \* history: the lines at the last flush or at their creation
    tmOps,       \* history: the creations and deletions since the last flush
    tmSteps      \* the operations of this transaction

tmVars == <<tmConfig, tmLines, tmLog, tmBefore, tmData, tmHooks, tmSaved,
            tmCommitted, tmOpen, tmBase, tmOps, tmSteps>>

Existing == {l \in Lines : tmLines[l] # NoLine}

-----------------------------------------------------------------------------
(* What is tracked                                                         *)

(* The fields of the lines that _get_model_tracked_by_o2m returns: none if *)
(* no tracked one2many leads to the model; the marked ones if the model is *)
(* tracked itself, else every field a user may edit.                       *)
IsTracked == tmConfig.owners
FieldsToTrack ==
    IF ~IsTracked THEN {} ELSE IF tmConfig.lines THEN Custom ELSE AllFields

(* _tm_notify_owner: an entry for the record that owns the line now.       *)
Entry(l, lines, mode, changes) ==
    [owner |-> lines[l]["owner"], line |-> l, mode |-> mode, changes |-> changes]

(* _tm_get_changes: the kept fields whose value has changed.               *)
Changes(before, now) ==
    {[field |-> f, old |-> before[f], new |-> now[f]] :
        f \in {g \in DOMAIN before : before[g] # now[g]}}

(* _tm_prepare_o2m_tracking: the values the user may read, unless earlier  *)
(* ones are kept already.                                                  *)
Readable(sudo) == {f \in FieldsToTrack : sudo \/ f \notin Private}
KeptBefore(l) == IF l \in DOMAIN tmBefore THEN tmBefore[l] ELSE <<>>
Kept_Last(l, sudo) ==
    [f \in DOMAIN KeptBefore(l) \cup Readable(sudo) |->
        IF f \in Readable(sudo) THEN tmLines[l][f] ELSE KeptBefore(l)[f]]
Kept(l, sudo) ==
    [f \in DOMAIN KeptBefore(l) \cup Readable(sudo) |->
        IF f \in DOMAIN KeptBefore(l) THEN KeptBefore(l)[f] ELSE tmLines[l][f]]

-----------------------------------------------------------------------------
(* The operations of a transaction                                         *)

CanStep == tmOpen /\ tmSteps < MaxSteps
Counted == tmSteps' = tmSteps + 1

(* Base.create: the owner is told after the record is there.               *)
CreateLine(l, r) ==
    /\ CanStep /\ tmLines[l] = NoLine
    /\ \A i \in DOMAIN tmOps : tmOps[i][2] # l
    /\ tmLines' = [tmLines EXCEPT ![l] = r]
    /\ tmBase' = [tmBase EXCEPT ![l] = r]
    /\ IF IsTracked
       THEN /\ tmData' = Append(tmData, Entry(l, tmLines', "create", {}))
            /\ tmHooks' = TRUE
       ELSE UNCHANGED <<tmData, tmHooks>>
    /\ tmOps' = Append(tmOps, <<"create", l, r["owner"]>>)
    /\ Counted
    /\ UNCHANGED <<tmConfig, tmLog, tmBefore, tmSaved, tmCommitted, tmOpen>>

(* Base.write: the values are kept before they are overwritten.            *)
WriteLine(l, f, v, sudo) ==
    /\ CanStep /\ l \in Existing
    /\ v \in IF f = "owner" THEN Owners ELSE Values
    /\ sudo \/ f \notin Private
    /\ IF FieldsToTrack # {}
       THEN /\ tmHooks' = TRUE
            /\ tmBefore' = [k \in DOMAIN tmBefore \cup {l} |->
                              IF k = l THEN Kept(l, sudo) ELSE tmBefore[k]]
       ELSE UNCHANGED <<tmHooks, tmBefore>>
    /\ tmLines' = [tmLines EXCEPT ![l][f] = v]
    /\ Counted
    /\ UNCHANGED <<tmConfig, tmLog, tmData, tmSaved, tmCommitted, tmOpen, tmBase, tmOps>>

(* Base.unlink: the owner is told while the record is still there.         *)
UnlinkLine(l) ==
    /\ CanStep /\ l \in Existing
    /\ IF IsTracked
       THEN /\ tmData' = Append(tmData, Entry(l, tmLines, "unlink", {}))
            /\ tmHooks' = TRUE
       ELSE UNCHANGED <<tmData, tmHooks>>
    /\ tmLines' = [tmLines EXCEPT ![l] = NoLine]
    /\ tmOps' = Append(tmOps, <<"unlink", l, tmLines[l]["owner"]>>)
    /\ Counted
    /\ UNCHANGED <<tmConfig, tmLog, tmBefore, tmSaved, tmCommitted, tmOpen, tmBase>>

-----------------------------------------------------------------------------
(* The precommit callbacks                                                 *)

(* _tm_finalize_o2m_tracking: the lines written and still there, each told *)
(* to its owner of now if a value differs; then _tm_post_message posts all *)
(* entries, those of the creations and deletions first.                    *)
Updated == {l \in DOMAIN tmBefore \cap Existing : Changes(tmBefore[l], tmLines[l]) # {}}
Updates ==
    SetToSeq({Entry(l, tmLines, "update", Changes(tmBefore[l], tmLines[l])) : l \in Updated})

Finalize ==
    /\ tmLog' = IF tmHooks THEN tmLog \o tmData \o Updates ELSE tmLog
    /\ tmBefore' = <<>>
    /\ tmData' = <<>>
    /\ tmHooks' = FALSE
    /\ tmBase' = tmLines
    /\ tmOps' = <<>>

(* cr.savepoint(): the cursor is flushed first, callbacks included.        *)
OpenSavepoint ==
    /\ tmSaved = <<>> /\ CanStep
    /\ Finalize
    /\ tmSaved' = <<tmLines, tmLog'>>
    /\ Counted
    /\ UNCHANGED <<tmConfig, tmLines, tmCommitted, tmOpen>>

(* The end of the block: flushed again, and released.                      *)
ReleaseSavepoint ==
    /\ tmSaved # <<>>
    /\ Finalize
    /\ tmSaved' = <<>>
    /\ UNCHANGED <<tmConfig, tmLines, tmCommitted, tmOpen, tmSteps>>

(* An error in the block: the cursor forgets the callbacks and their data. *)
Forget ==
    /\ tmBefore' = <<>> /\ tmData' = <<>> /\ tmHooks' = FALSE /\ tmOps' = <<>>

RollbackSavepoint ==
    /\ tmSaved # <<>>
    /\ Forget
    /\ tmLines' = tmSaved[1] /\ tmLog' = tmSaved[2] /\ tmBase' = tmSaved[1]
    /\ tmSaved' = <<>>
    /\ UNCHANGED <<tmConfig, tmCommitted, tmOpen, tmSteps>>

Commit ==
    /\ tmOpen /\ tmSaved = <<>>
    /\ Finalize
    /\ tmCommitted' = tmLines
    /\ tmOpen' = FALSE
    /\ UNCHANGED <<tmConfig, tmLines, tmSaved, tmSteps>>

(* The transaction fails, or its last step, the commit.                    *)
Rollback ==
    /\ tmOpen
    /\ Forget
    /\ tmLines' = tmCommitted /\ tmLog' = <<>> /\ tmBase' = tmCommitted
    /\ tmSaved' = <<>>
    /\ tmOpen' = FALSE
    /\ UNCHANGED <<tmConfig, tmCommitted, tmSteps>>

Begin ==
    /\ ~tmOpen
    /\ tmOpen' = TRUE /\ tmLog' = <<>> /\ tmSteps' = 0
    /\ UNCHANGED <<tmConfig, tmLines, tmBefore, tmData, tmHooks, tmSaved,
                   tmCommitted, tmBase, tmOps>>

(* IrModel.write, IrModelFields.write: the caches of what is tracked are   *)
(* cleared.  In a transaction of its own, while none of the lines is open. *)
SetTracking(c) ==
    /\ ~tmOpen /\ c # tmConfig
    /\ tmConfig' = c
    /\ UNCHANGED <<tmLines, tmLog, tmBefore, tmData, tmHooks, tmSaved,
                   tmCommitted, tmOpen, tmBase, tmOps, tmSteps>>

Init ==
    /\ tmConfig \in TrackingConfigs
    /\ tmLines \in [Lines -> Records \cup {NoLine}]
    /\ tmLog = <<>> /\ tmBefore = <<>> /\ tmData = <<>> /\ tmHooks = FALSE
    /\ tmSaved = <<>> /\ tmCommitted = tmLines /\ tmOpen = FALSE
    /\ tmBase = tmLines /\ tmOps = <<>> /\ tmSteps = 0

Next ==
    \/ \E l \in Lines, r \in Records : CreateLine(l, r)
    \/ \E l \in Lines, f \in AllFields, v \in Owners \cup Values, sudo \in BOOLEAN :
          WriteLine(l, f, v, sudo)
    \/ \E l \in Lines : UnlinkLine(l)
    \/ OpenSavepoint \/ ReleaseSavepoint \/ RollbackSavepoint
    \/ Commit \/ Rollback \/ Begin
    \/ \E c \in TrackingConfigs : SetTracking(c)

Spec == Init /\ [][Next]_tmVars

-----------------------------------------------------------------------------
(* Properties                                                              *)

(* What a flush owes: the net change of each line since the last one, or   *)
(* since its creation, to the record that owns it now.                     *)
NetChanges ==
    {Entry(l, tmLines, "update",
           Changes([f \in FieldsToTrack |-> tmBase[l][f]], tmLines[l])) :
        l \in {k \in Existing : /\ tmBase[k] # NoLine
                               /\ \E f \in FieldsToTrack : tmBase[k][f] # tmLines[k][f]}}

(* ... and each creation and deletion, to the record that owned it then.   *)
OpsOwed ==
    IF IsTracked
    THEN [i \in DOMAIN tmOps |-> [owner |-> tmOps[i][3], line |-> tmOps[i][2],
                                  mode |-> tmOps[i][1], changes |-> {}]]
    ELSE <<>>

PostsNetChanges ==
    LET posted  == SubSeq(tmLog', Len(tmLog) + 1, Len(tmLog'))
        updates == SubSeq(posted, Len(OpsOwed) + 1, Len(posted))
    IN  /\ SubSeq(posted, 1, Len(OpsOwed)) = OpsOwed
        /\ IsInjective(updates)
        /\ Range(updates) = NetChanges

(* Whatever a transaction writes to its lines, in whatever order, as       *)
(* itself or as superuser, within savepoints or not, each flush of it      *)
(* posts exactly the net changes of the tracked fields and the creations   *)
(* and deletions since the one before: none lost, none made up, none twice. *)
(* tracking_manager/models/models.py:121-155.                              *)
NetChangesTold ==
    [][OpenSavepoint \/ ReleaseSavepoint \/ Commit => PostsNetChanges]_tmVars

=============================================================================
