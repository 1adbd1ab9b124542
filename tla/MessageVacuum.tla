--------------------------- MODULE MessageVacuum ---------------------------
(***************************************************************************)
(* autovacuum_message_attachment: rules select old messages or attachments *)
(* and delete them in batches, each committed by a cursor of its own.  A   *)
(* batch that raises ends the deletions of its rule, not the run; a rule   *)
(* whose model_filter_domain cannot be evaluated ends the run.             *)
(* The cron job and the reasons why a row cannot be deleted are external.  *)
(***************************************************************************)
EXTENDS Naturals, Sequences, FiniteSets, SequencesExt

CONSTANTS Rows,       \* messages and attachments, in the order of a search
          About,      \* row -> [type, date, model, kind, subtype, named, chosen]: named matches
                      \* filename_pattern, chosen belongs to a record of model_filter_domain
          Rules,      \* vacuum.rule rows in their order
          None,       \* False: no model, no subtype
          Undeletable,\* rows whose unlink() raises
          BatchSize,
          MaxDays, MaxFaults   \* bounds

Assumption == BatchSize \in Nat \ {0} /\ Undeletable \subseteq ToSet(Rows)

VARIABLES day, rows, rules, todo, faults

vars == <<day, rows, rules, todo, faults>>

\* The domain of a message: date, message_type, models, subtypes.
MessageDomain(r, m) ==
  /\ r.kind \in {"all", m.kind}
  /\ r.models # {} => m.model \in r.models
  /\ \/ r.empty_subtype /\ m.subtype = None
     \/ m.subtype # None /\ (r.subtypes # {} => m.subtype \in r.subtypes)

\* The domain of an attachment: date, pattern, models; one without a model is kept
\* unless the rule says so and has a pattern.
AttachmentDomain(r, a) ==
  /\ r.pattern => a.named
  /\ IF r.models # {} THEN a.model \in r.models
                      ELSE (r.empty_model /\ r.pattern) \/ a.model # None

\* _get_autovacuum_records; model_filter_domain is looked at with one model only.
Selects(r, row) ==
  LET a == About[row]
  IN /\ a.type = r.ttype
     /\ a.date + r.retention_time < day
     /\ IF r.ttype = "message" THEN MessageDomain(r, a) ELSE AttachmentDomain(r, a)
     /\ r.filtered /\ Cardinality(r.models) = 1 => a.chosen

\* autovacuum(ttype), called by one cron job for each type.
Start(t) ==
  /\ rules = <<>> /\ todo = <<>>
  /\ rules' = SelectSeq(Rules, LAMBDA r : r.ttype = t)
  /\ UNCHANGED <<day, rows, todo, faults>>

\* safe_eval or the search of model_filter_domain raises, every time.
Broken(r) == r.broken /\ r.filtered /\ Cardinality(r.models) = 1

SelectRows ==
  /\ rules # <<>> /\ todo = <<>> /\ ~Broken(Head(rules))
  /\ todo' = SelectSeq(Rows, LAMBDA row : row \in rows /\ Selects(Head(rules), row))
  /\ rules' = Tail(rules)
  /\ UNCHANGED <<day, rows, faults>>

\* Nothing catches that exception: the rules behind this one do not come.
SelectFails ==
  /\ rules # <<>> /\ todo = <<>> /\ Broken(Head(rules))
  /\ rules' = <<>>
  /\ UNCHANGED <<day, rows, todo, faults>>

\* One turn of the loop of batch_unlink.
Batch == {todo[i] : i \in DOMAIN todo \cap 1..BatchSize}

DeleteBatch ==
  /\ todo # <<>> /\ Batch \cap Undeletable = {}
  /\ rows' = rows \ Batch
  /\ todo' = SubSeq(todo, BatchSize + 1, Len(todo))
  /\ UNCHANGED <<day, rules, faults>>

\* A mutant: the exception is not caught and ends the run.
RulesAfterError_None == <<>>

\* batch_unlink catches the exception: the next rule comes.
RulesAfterError == rules

DeleteFails ==
  /\ todo # <<>> /\ Batch \cap Undeletable # {}
  /\ todo' = <<>> /\ rules' = RulesAfterError
  /\ UNCHANGED <<day, rows, faults>>

\* The process dies, or the database refuses a query or a batch: what was committed
\* stays deleted.
Die ==
  /\ rules # <<>> \/ todo # <<>>
  /\ faults < MaxFaults /\ faults' = faults + 1
  /\ todo' = <<>>
  /\ rules' \in {<<>>, rules}
  /\ UNCHANGED <<day, rows>>

NextDay ==
  /\ day < MaxDays /\ day' = day + 1
  /\ UNCHANGED <<rows, rules, todo, faults>>

Init ==
  /\ day = 0 /\ faults = 0
  /\ rows = ToSet(Rows)
  /\ rules = <<>> /\ todo = <<>>

Run == SelectRows \/ SelectFails \/ DeleteBatch \/ DeleteFails
Next == Run \/ Start("message") \/ Start("attachment") \/ Die \/ NextDay

\* The cron jobs are started again and again, and a run goes on.
Fairness == WF_vars(Run) /\ WF_vars(NextDay)
            /\ SF_vars(Start("message")) /\ SF_vars(Start("attachment"))
Spec == Init /\ [][Next]_vars /\ Fairness

----------------------------------------------------------------------------
Blocked(r) == \E u \in Undeletable : Selects(r, u)

\* A run never gets past a rule that cannot be evaluated.
OutOfReach(i) == \E j \in 1..i : Rules[j].ttype = Rules[i].ttype /\ Broken(Rules[j])

\* What a rule selects is deleted in the end, though runs die and other rules meet rows
\* that cannot be deleted.  A row that cannot holds up those its own rule deletes after
\* it, so nothing is promised of such a rule, nor of one that is broken or comes after a
\* broken one of its type.  autovacuum_mixin.py:17-42.
EventuallyVacuumed ==
  \A i \in {k \in 1..Len(Rules) : ~OutOfReach(k)} : \A row \in ToSet(Rows) :
    (Selects(Rules[i], row) /\ ~Blocked(Rules[i])) ~> (row \notin rows \/ Blocked(Rules[i]))

============================================================================
