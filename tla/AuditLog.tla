------------------------------ MODULE AuditLog ------------------------------
(***************************************************************************)
(* auditlog: a rule makes the ORM methods of its model write logs.  While  *)
(* the rule is "subscribed" the methods are replaced in the model class of *)
(* an Odoo worker: at once in the worker that saves the rule, in another   *)
(* one when its registry is built anew.  Nothing tells it to do so: the    *)
(* addon calls signal_changes, but Odoo sends a signal only of a registry  *)
(* or cache that was declared invalid, which the addon does not do.        *)
(* Patches do not wait for the commit of the rule and are not undone by    *)
(* its rollback.                                                           *)
(*                                                                         *)
(* One audited model, hence one rule at most (model_id is unique), and one *)
(* record of it at a time.  Registries are Odoo's.                         *)
(***************************************************************************)
EXTENDS Naturals, Sequences, FiniteSets, SequencesExt

CONSTANTS Workers,   \* Odoo worker processes
          Users,
          Exempt,    \* users_to_exclude_ids
          Written,   \* stored fields that callers write
          Source,    \* stored computed field -> the written field it copies
          Hidden,    \* FIELDS_BLACKLIST, or without ir.model.fields
          Excluded,  \* fields_to_exclude_ids of a rule
          Values,
          Empty,     \* False, of a field and of a log line
          Settings,  \* [log: methods the rule asks for, type: "full" or "fast"]
          Nothing,   \* no rule, no record, no open transaction
          MaxLogs,   \* bound: rows of auditlog.log
          MaxFaults  \* bound: rolled back transactions and restarts

LogTypes == {"full", "fast"}
Methods == {"create", "read", "write", "unlink", "export_data"}
Computed == DOMAIN Source

\* Rows of auditlog.rule, what a transaction made of them, and audited records.
RuleType == [state : {"draft", "subscribed"}, log : SUBSET Methods, type : LogTypes,
             capture : BOOLEAN]
TxType == [new : RuleType \cup {Nothing}, touched : BOOLEAN]
RecordType == [Written \cup Computed -> Values \cup {Empty}]

ASSUME AuditAssumption ==
  /\ Exempt \subseteq Users
  /\ Source \in [Computed -> Written] /\ Computed \cap Written = {}
  /\ Settings \subseteq [log : SUBSET Methods, type : {"full", "fast"}]
  /\ Nothing \notin RuleType /\ Nothing \notin TxType /\ Nothing \notin RecordType
  /\ MaxLogs \in Nat /\ MaxFaults \in Nat

VARIABLES rule,      \* the committed rule
          patched,   \* worker -> method -> log types of the replacements around the original
          marked,    \* worker -> methods with an auditlog_ruled_ attribute on the class
          tx,        \* worker -> the rule as its open transaction wrote it
          outdated,  \* history: workers that patched for a rule that was rolled back, or
                     \* have not built their registry since another one changed the rule
          record,    \* values of the audited record
          logs,      \* committed logs, oldest first
          silent,    \* history: fields whose present value no log had to tell
          faults

rules == <<rule, patched, marked, tx, outdated, faults>>
data == <<record, logs, silent>>
vars == <<rules, data>>

\* create_logs and _get_field: fields that the rule, as long as it is there, does
\* not exclude and that have an ir.model.fields entry.
Shown(f) == f \notin Hidden /\ (rule # Nothing => f \notin Excluded)
Logged == {f \in Written \cup Computed : Shown(f)}
Audited == (Written \cup Computed) \ (Hidden \cup Excluded)

Free(w) == tx[w] = Nothing

\* Two transactions on one rule conflict in PostgreSQL: one begins after the other.
MaySave == \A v \in Workers : Free(v)

\* The methods a rule wants replaced, each once.
Hooked(r) == [m \in Methods |-> IF r # Nothing /\ r.state = "subscribed" /\ m \in r.log
                                THEN <<r.type>> ELSE <<>>]

----------------------------------------------------------------------------
(* Rules *)

\* A mutant: a method is patched although its class is marked.
ToPatch_Again(w, r) == IF r # Nothing /\ r.state = "subscribed" THEN r.log ELSE {}

\* The methods _patch_methods replaces for a rule.
ToPatch(w, r) == IF r # Nothing /\ r.state = "subscribed" THEN r.log \ marked[w] ELSE {}

\* What _revert_methods restores: methods of the rule that are replaced.
ToRevert(w, r) == {m \in r.log : patched[w][m] # <<>>}

\* A handler that saves rule r in worker w and then calls _register_hook.
SaveRule(w, r) ==
  LET ms == ToPatch(w, r)
  IN /\ tx' = [tx EXCEPT ![w] = [new |-> r, touched |-> ms # {}]]
     /\ patched' = [patched EXCEPT ![w] =
                      [m \in Methods |-> IF m \in ms THEN Append(@[m], r.type) ELSE @[m]]]
     /\ marked' = [marked EXCEPT ![w] = @ \cup ms]
     /\ UNCHANGED <<rule, outdated, faults, data>>

CreateRule(w, s, state) ==
  /\ MaySave /\ rule = Nothing
  /\ SaveRule(w, [state |-> state, log |-> s.log, type |-> s.type, capture |-> FALSE])

\* The form lets everything be edited in draft, and capture_record always.
EditRule(w, s) ==
  /\ MaySave /\ rule # Nothing /\ rule.state = "draft"
  /\ SaveRule(w, [rule EXCEPT !.log = s.log, !.type = s.type])

EditCapture(w) ==
  /\ MaySave /\ rule # Nothing
  /\ SaveRule(w, [rule EXCEPT !.capture = ~@])

Subscribe(w) ==
  /\ MaySave /\ rule # Nothing /\ rule.state = "draft"
  /\ SaveRule(w, [rule EXCEPT !.state = "subscribed"])

\* _revert_methods, then the write of "draft", whose hook patches nothing.
Unsubscribed(w, r) ==
  LET ms == ToRevert(w, rule)
  IN /\ tx' = [tx EXCEPT ![w] = [new |-> r, touched |-> ms # {}]]
     /\ patched' = [patched EXCEPT ![w] =
                      [m \in Methods |-> IF m \in ms THEN Front(@[m]) ELSE @[m]]]
     /\ marked' = [marked EXCEPT ![w] = @ \ ms]
     /\ UNCHANGED <<rule, outdated, faults, data>>

Unsubscribe(w) ==
  /\ MaySave /\ rule # Nothing /\ rule.state = "subscribed"
  /\ Unsubscribed(w, [rule EXCEPT !.state = "draft"])

UnlinkRule(w) ==
  /\ MaySave /\ rule # Nothing
  /\ Unsubscribed(w, Nothing)

\* signal_changes tells nobody: the other workers keep their classes.
CommitRule(w) ==
  /\ ~Free(w)
  /\ rule' = tx[w].new
  /\ tx' = [tx EXCEPT ![w] = Nothing]
  /\ outdated' = IF Hooked(tx[w].new) = Hooked(rule) THEN outdated
                 ELSE outdated \cup (Workers \ {w})
  /\ UNCHANGED <<patched, marked, faults, data>>

\* The transaction fails: the class keeps its patches.
RollbackRule(w) ==
  /\ ~Free(w) /\ faults < MaxFaults
  /\ faults' = faults + 1
  /\ outdated' = IF tx[w].touched THEN outdated \cup {w} ELSE outdated
  /\ tx' = [tx EXCEPT ![w] = Nothing]
  /\ UNCHANGED <<rule, patched, marked, data>>

\* The registry of w is built from the database: new classes, then
\* _register_hook for the subscribed rules.
LoadRegistry(w) ==
  /\ patched' = [patched EXCEPT ![w] = Hooked(rule)]
  /\ marked' = [marked EXCEPT ![w] = {m \in Methods : Hooked(rule)[m] # <<>>}]
  /\ outdated' = outdated \ {w}
  /\ UNCHANGED <<rule, data>>

\* check_signaling at the beginning of a request, if the registry was declared
\* invalid for another reason: a module was installed, a field was added.
Reload(w) ==
  /\ Free(w)
  /\ LoadRegistry(w)
  /\ UNCHANGED <<tx, faults>>

\* The worker dies and another one takes its place.
Restart(w) ==
  /\ faults < MaxFaults /\ faults' = faults + 1
  /\ LoadRegistry(w)
  /\ tx' = [tx EXCEPT ![w] = Nothing]

----------------------------------------------------------------------------
(* Calls of the audited methods, each a transaction *)

Line(f, old, new) == [field |-> f, old |-> old, new |-> new]

\* DictDiffer.changed: fields of both dictionaries with another value.
Changed(new, old) == {f \in DOMAIN new \cap DOMAIN old : new[f] # old[f]}

\* _create_log_line_on_create, _on_write and _on_read, for fields that are not hidden.
CreateLines(new) == {Line(f, Empty, new[f]) : f \in DOMAIN new \cap Logged}
WriteLines(old, new) == {Line(f, old[f], new[f]) : f \in Changed(new, old) \cap Logged}
ReadLines(old) == {Line(f, old[f], Empty) : f \in DOMAIN old \cap Logged}

\* A mutant: the new values of computed fields come from a cache read before.
FullWriteLines_OldCache(vals, old, new) ==
  WriteLines(old, [f \in DOMAIN new |-> IF f \in DOMAIN vals THEN new[f] ELSE old[f]])

\* write_full reads all fields before and after; write_fast takes the caller's
\* values, and as old ones a sentinel that differs from every value.
FullWriteLines(vals, old, new) == WriteLines(old, new)
FastWriteLines(vals) == {Line(f, Empty, vals[f]) : f \in DOMAIN vals \cap Logged}

\* One row of auditlog.log for each replacement around the method that does not
\* exempt the user: create_logs with the lines it computes for each log type.
NewLogs(w, u, method, lines) ==
  IF u \in Exempt THEN <<>>
  ELSE [i \in DOMAIN patched[w][method] |->
          [method |-> method, lines |-> lines[patched[w][method][i]]]]

AddLogs(new) == /\ Len(logs) + Len(new) <= MaxLogs
                /\ logs' = logs \o new

\* What the ORM makes of values: computed fields follow their source.
Completed(base) == [f \in Written \cup Computed |-> IF f \in Written THEN base[f] ELSE base[Source[f]]]

\* silent after a logged call: a full log has to tell all changes, a fast log what
\* was written.
Untold(w, method, before, written, changed) ==
  IF patched[w][method][1] = "full" THEN before \ changed
  ELSE (before \cup changed) \ written
CreateRecord(w, u, vals) ==
  /\ Free(w) /\ record = Nothing
  /\ LET new == Completed([f \in Written |-> IF f \in DOMAIN vals THEN vals[f] ELSE Empty])
         Lines == [type \in LogTypes |-> CreateLines(IF type = "full" THEN new ELSE vals)]
         added == NewLogs(w, u, "create", Lines)
     IN /\ record' = new
        /\ AddLogs(added)
        /\ silent' = IF added = <<>> THEN Audited
                     ELSE Untold(w, "create", {}, DOMAIN vals, Audited)
  /\ UNCHANGED rules

WriteRecord(w, u, vals) ==
  /\ Free(w) /\ record # Nothing
  /\ LET new == Completed([f \in Written |-> IF f \in DOMAIN vals THEN vals[f] ELSE record[f]])
         Lines == [type \in LogTypes |-> IF type = "full" THEN FullWriteLines(vals, record, new)
                                                    ELSE FastWriteLines(vals)]
         added == NewLogs(w, u, "write", Lines)
     IN /\ record' = new
        /\ AddLogs(added)
        /\ silent' = IF added = <<>> THEN silent \cup Changed(new, record)
                     ELSE Untold(w, "write", silent, DOMAIN vals, Changed(new, record))
  /\ UNCHANGED rules

\* unlink_full has read the values, which become lines if the rule captures them.
UnlinkRecord(w, u) ==
  /\ Free(w) /\ record # Nothing
  /\ LET captured == rule # Nothing /\ rule.capture
         Lines == [type \in LogTypes |-> IF captured /\ type = "full" THEN ReadLines(record) ELSE {}]
     IN AddLogs(NewLogs(w, u, "unlink", Lines))
  /\ record' = Nothing /\ silent' = {}
  /\ UNCHANGED rules

\* Reading logs all the values it returned.
ReadRecord(w, u) ==
  /\ Free(w) /\ record # Nothing
  /\ LET Lines == [type \in LogTypes |-> ReadLines(record)] IN AddLogs(NewLogs(w, u, "read", Lines))
  /\ UNCHANGED <<record, silent, rules>>

\* An export logs the ids only.
ExportRecord(w, u) ==
  /\ Free(w) /\ record # Nothing
  /\ LET Lines == [type \in LogTypes |-> {}] IN AddLogs(NewLogs(w, u, "export_data", Lines))
  /\ UNCHANGED <<record, silent, rules>>

----------------------------------------------------------------------------

Init ==
  /\ rule = Nothing
  /\ patched = [w \in Workers |-> Hooked(Nothing)]
  /\ marked = [w \in Workers |-> {}]
  /\ tx = [w \in Workers |-> Nothing]
  /\ outdated = {} /\ faults = 0
  /\ record = Nothing /\ logs = <<>> /\ silent = {}

Inputs == UNION {[D -> Values] : D \in (SUBSET Written) \ {{}}}

RuleStep(w) ==
  \/ \E s \in Settings : EditRule(w, s) \/ \E st \in {"draft", "subscribed"} : CreateRule(w, s, st)
  \/ EditCapture(w) \/ Subscribe(w) \/ Unsubscribe(w) \/ UnlinkRule(w)
  \/ CommitRule(w) \/ RollbackRule(w) \/ Reload(w) \/ Restart(w)

Call(w, u) ==
  \/ \E vals \in Inputs : CreateRecord(w, u, vals) \/ WriteRecord(w, u, vals)
  \/ UnlinkRecord(w, u) \/ ReadRecord(w, u) \/ ExportRecord(w, u)

Next == \E w \in Workers : RuleStep(w) \/ \E u \in Users : Call(w, u)

Spec == Init /\ [][Next]_vars

----------------------------------------------------------------------------
(* Properties *)

LogRow == [method : Methods,
           lines : SUBSET [field : Written \cup Computed, old : Values \cup {Empty}, new : Values \cup {Empty}]]

Replacements == {<<>>} \cup {<<type>> : type \in LogTypes}

\* Rules, transactions, classes, records and logs are what the models declare; no
\* method is replaced twice, and the class says which ones are.
TypeOK ==
  /\ rule \in RuleType \cup {Nothing} /\ tx \in [Workers -> TxType \cup {Nothing}]
  /\ patched \in [Workers -> [Methods -> Replacements]]
  /\ marked = [w \in Workers |-> {m \in Methods : patched[w][m] # <<>>}]
  /\ outdated \subseteq Workers /\ faults \in 0 .. MaxFaults
  /\ record \in RecordType \cup {Nothing}
  /\ silent \subseteq Written \cup Computed
  /\ logs \in Seq(LogRow) /\ Len(logs) <= MaxLogs

\* A worker that serves a request has every method the committed rule asks for
\* replaced exactly once, and no other one, through any sequence of saving,
\* subscribing, unsubscribing and removing rules - unless another worker has changed
\* these methods, or a change of its own was rolled back, since its registry was built
\* (_patch_methods, _revert_methods and _register_hook).
PatchedAsRuled ==
  \A w \in Workers : Free(w) /\ w \notin outdated => patched[w] = Hooked(rule)

LastTold(f) ==
  LET told == {i \in DOMAIN logs : logs[i].method \in {"create", "write"}
                                   /\ \E l \in logs[i].lines : l.field = f}
      last == CHOOSE i \in told : \A j \in told : j <= i
  IN IF told = {} THEN Nothing
     ELSE (CHOOSE l \in logs[last].lines : l.field = f).new

\* The logs tell the record: replayed, they end in the present value of every field
\* that no exempt user, unpatched worker or fast log left out, computed fields included
\* (create_full and write_full with their disposable cache).
LogsReplay ==
  record # Nothing => \A f \in Audited \ silent : LastTold(f) = record[f]

============================================================================
