----------------------------- MODULE Changeset -----------------------------
(***************************************************************************)
(* base_changeset: writes on the fields of a tracked record are turned     *)
(* into changes, which are applied at once ("auto"), wait for a validator  *)
(* ("validate") or are refused ("never").  One record is modelled, with    *)
(* the changesets that any number of users pile up on it and the buttons   *)
(* that apply or reject single changes and whole changesets.               *)
(*                                                                         *)
(* Every handler is one database transaction.  Two handlers that touch the *)
(* same change or the same record conflict in PostgreSQL and one of them   *)
(* is replayed by Odoo, so each of them is one step.                       *)
(***************************************************************************)
EXTENDS Naturals, Sequences, FiniteSets, Functions, SequencesExt

CONSTANTS Fields,          \* fields of the record
          Values,          \* their values but the empty one
          Null,            \* the empty value; every field accepts it
          Users,           \* everybody who writes or validates
          Sources,         \* models a change may come from (__changeset_rules_source_model)
          Writers,         \* who writes from where: pairs of a user and a source
          Rules,           \* the rules, the source of a global one being Null
          RequirePrevious, \* the context key require_previous_changesets_done
          MaxChanges,      \* bound on the changes that are recorded
          MaxDate          \* bound on the clock, which has a resolution of a second

ASSUME ChangesetAssumption ==
  /\ Null \notin Values
  /\ Null \notin Sources
  /\ Writers \subseteq Users \X Sources
  /\ Rules \subseteq [field : Fields, source : Sources \cup {Null},
                     action : {"auto", "validate", "never"},
                     validators : SUBSET Users,   \* by their groups
                     fourEyes : BOOLEAN]          \* prevent_self_validation
  \* the SQL constraints: one rule of a field for each source, and one for all
  /\ \A q, r \in Rules : q.field = r.field /\ q.source = r.source => q = r
  /\ IsFiniteSet(Fields)
  /\ RequirePrevious \in BOOLEAN
  /\ MaxChanges \in Nat /\ MaxDate \in Nat

VARIABLES exists,    \* whether the record has been created
          record,    \* field -> its value
          csets,     \* the changesets, in the order of their ids: [author, date]
          changes,   \* the changes, in the order of their ids
          now,       \* the clock
          log        \* history: field -> applied changes in the order of their application

vars == <<exists, record, csets, changes, now, log>>

Content == Values \cup {Null}

\* record.changeset.change; by is verified_by_id, old the value it replaced.
ChangeType == [cs : Nat, rule : Rules, new : Content, old : Content,
               state : {"draft", "done", "cancel"}, by : Users \cup {Null}]

Init == /\ exists = FALSE
        /\ record = [f \in Fields |-> Null]
        /\ csets = << >> /\ changes = << >>
        /\ now = 0
        /\ log = [f \in Fields |-> << >>]

Tick == /\ now < MaxDate /\ now' = now + 1
        /\ UNCHANGED <<exists, record, csets, changes, log>>

----------------------------------------------------------------------------
(* create and write of the record.  Definition_Variant is a mutation of the
   definition that follows it; nothing else uses it. *)

\* _get_rules: the rule of the source comes before the global one.
RulesFrom(f, source) == {q \in Rules : q.field = f /\ q.source = source}
HasRule(f, source) == RulesFrom(f, source) \cup RulesFrom(f, Null) # {}
RuleFor(f, source) ==
  CHOOSE q \in (IF RulesFrom(f, source) # {} THEN RulesFrom(f, source) ELSE RulesFrom(f, Null)) : TRUE
Action(f, source) == IF HasRule(f, source) THEN RuleFor(f, source).action ELSE "none"

\* _has_field_changed: two empty values are equal, like any two equal ones.
Tracked(f, v, source) == HasRule(f, source) /\ record[f] # v

\* _prepare_changeset_change: the change of f to v.  The old value is copied
\* for changes that are closed at once (a new record has empty ones).
NewChange(f, v, source) ==
  LET action == Action(f, source)
  IN [cs |-> Len(csets) + 1, rule |-> RuleFor(f, source), new |-> v,
      old |-> IF action = "validate" THEN Null ELSE record[f],
      state |-> CASE action = "auto" -> "done"
                  [] action = "validate" -> "draft"
                  [] action = "never" -> "cancel",
      by |-> Null]

\* Fields of vals that get a change: when creating, the ones with a value.
Changed(vals, source) == {f \in DOMAIN vals : Tracked(f, vals[f], source)}

\* What is left of a written value: it is popped for changes to validate or
\* refused (a new record gets the empty value instead).
Written_Kept(vals, f, source) ==
  IF f \in DOMAIN vals /\ ~ (f \in Changed(vals, source) /\ Action(f, source) = "never")
  THEN vals[f] ELSE record[f]

Written(vals, f, source) ==
  IF f \in DOMAIN vals
     /\ ~ (f \in Changed(vals, source) /\ Action(f, source) \in {"validate", "never"})
  THEN vals[f] ELSE record[f]

NewChangesets(u, new) ==
  IF new = {} THEN csets ELSE Append(csets, [author |-> u, date |-> now])

\* add_changeset, then the write of the remaining values; order is that of the dict.
AddChangeset(u, vals, source) ==
  LET new == Changed(vals, source)
  IN /\ Len(changes) + Cardinality(new) <= MaxChanges
     /\ \E order \in SetToSeqs(new) :
          /\ changes' = changes \o [i \in DOMAIN order |-> NewChange(order[i], vals[order[i]], source)]
          /\ log' = [f \in Fields |->
                       IF f \in new /\ Action(f, source) = "auto"
                       THEN Append(log[f], Len(changes) + CHOOSE i \in DOMAIN order : order[i] = f)
                       ELSE log[f]]
     /\ csets' = NewChangesets(u, new)
     /\ record' = [f \in Fields |-> Written(vals, f, source)]
     /\ UNCHANGED now

Create(u, vals, source) ==
  /\ ~ exists /\ exists' = TRUE
  /\ AddChangeset(u, vals, source)

Write(u, vals, source) ==
  /\ exists /\ UNCHANGED exists
  /\ AddChangeset(u, vals, source)

----------------------------------------------------------------------------
(* Validation *)

Ids == 1 .. Len(changes)
Of(c) == {i \in Ids : changes[i].cs = c}
Draft(i) == changes[i].state = "draft"

\* The part of user_can_validate_changeset that does not look at the state.
MayValidate_SelfToo(u, i) == u \in changes[i].rule.validators

MayValidate(u, i) ==
  LET rule == changes[i].rule
  IN u \in rule.validators /\ ~ (rule.fourEyes /\ csets[changes[i].cs].author = u)

\* user_can_validate_changeset: the buttons of a changeset pass
\* skip_pending_status_check.
CanValidate(u, i, skip) == (skip \/ Draft(i)) /\ MayValidate(u, i)

\* _check_previous_changesets, for every changeset something is applied of.
\* Nothing is finalized yet, so changesets of the same call count as pending.
PreviousDone(S) ==
  RequirePrevious =>
    \A i \in S, j \in Ids : Draft(j) => ~ (csets[changes[j].cs].date < csets[changes[i].cs].date)

\* The changes of S to a field in some order, for each field.  In the code one order
\* goes through all of S; changes of different fields have nothing to do with each other.
OfField(S, f) == {i \in S : changes[i].rule.field = f}
Orders(S) ==
  {order \in [Fields -> UNION {SetToSeqs(OfField(S, f)) : f \in Fields}] :
     \A f \in Fields : order[f] \in SetToSeqs(OfField(S, f))}

\* set_old_value: the value that the change s[k] is about to replace.  (OldValue_After
\* reads it when all of s is written.)
OldValue_After(s, k) == changes[Last(s)].new
OldValue(s, k) == IF k = 1 THEN record[changes[s[k]].rule.field] ELSE changes[s[k - 1]].new

\* apply: the closed changes are skipped, the others are written one after another
\* and finalized in the end.
Apply(u, S) ==
  LET open == {i \in S : Draft(i)}
  IN /\ PreviousDone(open)
     /\ \E order \in Orders(open) :
          /\ changes' = [i \in Ids |->
               IF i \in open
               THEN LET s == order[changes[i].rule.field]
                    IN [changes[i] EXCEPT !.old = OldValue(s, CHOOSE k \in DOMAIN s : s[k] = i),
                                          !.state = "done", !.by = u]
               ELSE changes[i]]
          /\ record' = [f \in Fields |-> IF order[f] = << >> THEN record[f]
                                         ELSE changes[Last(order[f])].new]
          /\ log' = [f \in Fields |-> log[f] \o order[f]]
     /\ UNCHANGED <<exists, csets, now>>

Cancellable_Any(S) == S \subseteq Ids
Cancellable(S) == \A i \in S : changes[i].state # "done"

\* cancel: refused when a change is done; whatever else is selected, already
\* rejected changes too, gets the present value as its old one.
CancelSet(u, S) ==
  /\ Cancellable(S)
  /\ changes' = [i \in Ids |->
       IF i \in S THEN [changes[i] EXCEPT !.old = record[changes[i].rule.field], !.state = "cancel", !.by = u]
       ELSE changes[i]]
  /\ UNCHANGED <<exists, record, csets, now, log>>

\* The green button, on one or several pending changes.
ApplyChanges(u, S) ==
  /\ S # {} /\ \A i \in S : CanValidate(u, i, FALSE)
  /\ Apply(u, S)

\* The red button.
CancelChanges(u, S) ==
  /\ S # {} /\ \A i \in S : CanValidate(u, i, FALSE)
  /\ CancelSet(u, S)

ApplyChangeset(u, c) ==
  /\ \A i \in Of(c) : CanValidate(u, i, TRUE)
  /\ Apply(u, Of(c))

CancelChangeset(u, c) ==
  /\ \A i \in Of(c) : CanValidate(u, i, TRUE)
  /\ CancelSet(u, Of(c))

----------------------------------------------------------------------------
Vals == UNION {[D -> Content] : D \in (SUBSET Fields) \ {{}}}

Next ==
  \/ Tick
  \/ \E w \in Writers, vals \in Vals :
       Create(w[1], vals, w[2]) \/ Write(w[1], vals, w[2])
  \/ \E u \in Users, S \in (SUBSET Ids) \ {{}} :
       CancelChanges(u, S) \/ ApplyChanges(u, S)
  \/ \E u \in Users, c \in 1 .. Len(csets) :
       ApplyChangeset(u, c) \/ CancelChangeset(u, c)

Spec == Init /\ [][Next]_vars

----------------------------------------------------------------------------
(* Properties *)

\* The record, its changesets and their changes are well formed; every change
\* belongs to an existing changeset and a changeset is never empty.
TypeOK ==
  /\ exists \in BOOLEAN /\ now \in 0 .. MaxDate
  /\ record \in [Fields -> Content]
  /\ csets \in Seq([author : Users, date : 0 .. now])
  /\ changes \in Seq(ChangeType) /\ Len(changes) <= MaxChanges
  /\ \A i \in Ids : changes[i].cs \in DOMAIN csets
  /\ \A c \in DOMAIN csets : Of(c) # {}
  /\ log \in [Fields -> Seq(Ids)]

\* "only when that change is approved, its value is written on the record": a field that
\* has a rule for every source holds nothing but an approved value, whichever sources the
\* values came from, and a refused field keeps its own.
OnlyApprovedValues ==
  \A f \in Fields : (\A source \in Sources : HasRule(f, source)) =>
     record[f] \in {Null} \cup
       {changes[i].new : i \in {j \in Ids : changes[j].rule.field = f /\ changes[j].state = "done"
                                            /\ changes[j].rule.action # "never"}}

\* prevent_self_validation: nobody approves or rejects what he wrote himself,
\* with single buttons or with those of the changeset.
DecidedByAnother ==
  \A i \in Ids : changes[i].rule.fourEyes /\ changes[i].by # Null
                    => changes[i].by # csets[changes[i].cs].author

\* The applied changes of a field form an unbroken chain from its first value
\* to the present one: each has replaced the value its predecessor wrote, also
\* when several changesets are applied in one go or values move between the
\* request and its approval (set_old_value).
AuditChain ==
  \A f \in Fields : (\A source \in Sources : HasRule(f, source)) =>
     /\ \A k \in 1 .. Len(log[f]) :
          changes[log[f][k]].old = IF k = 1 THEN Null ELSE changes[log[f][k - 1]].new
     /\ record[f] = IF log[f] = << >> THEN Null ELSE changes[Last(log[f])].new

\* "changes in state 'cancel' or 'done' do not write on the partner": a closed
\* change stays as it was closed, and is written once at most.
ClosedForever ==
  [][\A i \in Ids : ~ Draft(i) =>
        /\ changes'[i].state = changes[i].state
        /\ changes[i].state = "done" => changes'[i] = changes[i]]_vars

============================================================================
